------------------------- MODULE MapContentsProofs -------------------------
(***************************************************************************)
(* Proofs about what the hash map holds, for any keys, values, hash        *)
(* function and capacity: no entry is ever hidden or doubled, the map owns *)
(* exactly the values it stores, and every step of the table is a step of  *)
(* the dictionary Dict or leaves it alone.  They rest on the counting      *)
(* invariant of MapRuntimeProofs.                                          *)
(***************************************************************************)
EXTENDS MapRuntimeProofs

(* The probe for the key of every entry of table b meets no empty bucket   *)
(* before that entry.                                                      *)
NoGap(b, c, k, j) == \A l \in 0 .. j - 1 : b[At(k, l, c)].state # "EMPTY"
Reaches(b, c, s) ==
  \E j \in Slots(c) : At(b[s].key, j, c) = s /\ NoGap(b, c, b[s].key, j)
AllReached == \A s \in Full : Reaches(buckets, capacity, s)

(* No key is in two entries, over both tables, and no value.               *)
KeysDistinct ==
  /\ \A s, t \in Full : buckets[s].key = buckets[t].key => s = t
  /\ \A s, t \in Unmoved : oldBuckets[s].key = oldBuckets[t].key => s = t
  /\ \A s \in Full, t \in Unmoved : buckets[s].key # oldBuckets[t].key
ValuesDistinct ==
  /\ \A s, t \in Full : buckets[s].value = buckets[t].value => s = t
  /\ \A s, t \in Unmoved : oldBuckets[s].value = oldBuckets[t].value => s = t
  /\ \A s \in Full, t \in Unmoved : buckets[s].value # oldBuckets[t].value

(* The values of the entries are the map's, no other value is, and the     *)
(* value a running put is about to store is still the caller's.            *)
Stores(v) == \/ \E s \in Full : buckets[s].value = v
             \/ \E s \in Unmoved : oldBuckets[s].value = v
OwnedStored == \A v \in Values : owner[v] = "map" <=> Stores(v)
ArgumentOwned == pc \in {"put", "rehash", "insert"} => owner[val] = "caller"

EntriesInv == AllReached /\ KeysDistinct /\ ValuesDistinct /\ OwnedStored /\ ArgumentOwned
MapInv == CountInv /\ EntriesInv

----------------------------------------------------------------------------
(* Different rounds of one probe visit different slots.                    *)
LEMMA AtInjective ==
  ASSUME NEW k \in Keys, NEW c \in Nat, c >= 1, NEW j \in Slots(c), NEW l \in Slots(c),
         At(k, j, c) = At(k, l, c)
  PROVE  j = l
<1>1. Hash[k] \in Nat
  BY KeyAssumption
<1>2. Home(k, c) \in 0 .. c - 1
  BY <1>1 DEF Home
<1> QED
  BY <1>2 DEF At, Slots

(* A table that got no new empty bucket still reaches the entries that     *)
(* were there before.                                                      *)
LEMMA ReachKept ==
  ASSUME NEW c \in Nat, c >= 1, NEW b, NEW d, NEW s \in Slots(c), Reaches(b, c, s),
         b[s].key \in Keys, d[s].key = b[s].key,
         \A u \in Slots(c) : d[u].state = "EMPTY" => b[u].state = "EMPTY"
  PROVE  Reaches(d, c, s)
<1>1. PICK j \in Slots(c) : At(b[s].key, j, c) = s /\ NoGap(b, c, b[s].key, j)
  BY DEF Reaches
<1>2. \A l \in 0 .. j - 1 : At(b[s].key, l, c) \in Slots(c)
  <2>1. \A l \in 0 .. j - 1 : l \in Slots(c)
    BY DEF Slots
  <2> QED
    BY <2>1, AtInSlots
<1>3. NoGap(d, c, d[s].key, j)
  BY <1>1, <1>2 DEF NoGap
<1> QED
  BY <1>1, <1>3 DEF Reaches

(* A search that ended without finding the key has shown that no entry     *)
(* has it.                                                                 *)
LEMMA SearchIsExact ==
  ASSUME CountInv, AllReached, m = "live", key \in Keys, NEW j \in Slots(capacity),
         SearchEndsAt(buckets, capacity, key, j),
         ~Match(buckets, At(key, j, capacity), key)
  PROVE  \A s \in Full : buckets[s].key # key
<1> SUFFICES ASSUME NEW s \in Full, buckets[s].key = key PROVE FALSE
  OBVIOUS
<1>1. PICK l \in Slots(capacity) :
        At(key, l, capacity) = s /\ NoGap(buckets, capacity, key, l)
  BY DEF AllReached, Reaches
<1>2. buckets[s].state = "OCCUPIED"
  BY DEF Full, Filled
<1>3. buckets[At(key, j, capacity)].state = "EMPTY"
  BY DEF SearchEndsAt
<1>4. j \in Int /\ l \in Int /\ j >= 0 /\ l >= 0
  BY DEF Slots, CountInv, TypeOK
<1>5. CASE j < l
  BY <1>1, <1>3, <1>4, <1>5 DEF NoGap
<1>6. CASE l < j
  <2>1. l \in 0 .. j - 1
    BY <1>4, <1>6
  <2> QED
    BY <1>1, <1>2, <2>1 DEF SearchEndsAt, Match
<1>7. CASE l = j
  BY <1>1, <1>2, <1>3, <1>7
<1> QED
  BY <1>4, <1>5, <1>6, <1>7

(* Any two entries of the table with the same key are one entry, and the   *)
(* probe meets it first: the property the run checks.                      *)
LEMMA HiddenFromInv == MapInv => NoHiddenEntry
<1> SUFFICES ASSUME MapInv, NEW s \in Full
             PROVE  /\ \E j \in Slots(capacity) :
                         /\ At(buckets[s].key, j, capacity) = s
                         /\ \A l \in 0 .. j - 1 :
                              LET met == buckets[At(buckets[s].key, l, capacity)]
                              IN  /\ met.state # "EMPTY"
                                  /\ (met.state = "OCCUPIED" => met.key # buckets[s].key)
                    /\ \A t \in Unmoved : oldBuckets[t].key # buckets[s].key
  BY DEF NoHiddenEntry
<1> USE DEF MapInv, EntriesInv
<1>1. PICK j \in Slots(capacity) : /\ At(buckets[s].key, j, capacity) = s
                                   /\ NoGap(buckets, capacity, buckets[s].key, j)
  BY DEF AllReached, Reaches
<1>2. capacity \in Nat /\ capacity >= 1 /\ buckets[s].key \in Keys
  BY DEF CountInv, TypeOK, EntriesTyped, Slots
<1>3. ASSUME NEW l \in 0 .. j - 1, buckets[At(buckets[s].key, l, capacity)].state = "OCCUPIED"
      PROVE  buckets[At(buckets[s].key, l, capacity)].key # buckets[s].key
  <2>1. l \in Slots(capacity) /\ l # j
    BY <1>2 DEF Slots
  <2>2. At(buckets[s].key, l, capacity) \in Slots(capacity)
    BY <1>2, <2>1, AtInSlots
  <2>3. At(buckets[s].key, l, capacity) \in Full
    BY <1>3, <2>2 DEF Full, Filled
  <2>4. At(buckets[s].key, l, capacity) # s
    BY <1>1, <1>2, <2>1, AtInjective
  <2> QED
    BY <2>3, <2>4 DEF KeysDistinct
<1> QED
  BY <1>1, <1>3 DEF NoGap, KeysDistinct

----------------------------------------------------------------------------
(* What an action that stores an entry of key k and value v in slot s does *)
(* to the table.                                                           *)
StoresAt(s, k, v) ==
  /\ s \in Slots(capacity) \ Full
  /\ Full' = Full \cup {s}
  /\ buckets'[s].key = k /\ buckets'[s].value = v
  /\ \A u \in Full : buckets'[u] = buckets[u]
  /\ AllReached'

(* An entry stored at a place its own probe reaches is reached, and hides  *)
(* no other.                                                               *)
LEMMA StoreEffect ==
  ASSUME CountInv, AllReached, NEW k \in Keys, NEW v \in Values, NEW t \in Slots(capacity),
         buckets[At(k, t, capacity)].state # "OCCUPIED", NoGap(buckets, capacity, k, t),
         buckets' = [buckets EXCEPT ![At(k, t, capacity)] = Entry(k, v)],
         capacity' = capacity
  PROVE  StoresAt(At(k, t, capacity), k, v)
<1> DEFINE s == At(k, t, capacity)
<1>1. capacity \in Nat /\ capacity >= 1 /\ buckets \in [Slots(capacity) -> Bucket]
  BY DEF CountInv, TypeOK, Slots
<1>2. s \in Slots(capacity) \ Full
  BY <1>1, AtInSlots DEF Full, Filled
<1>3. buckets' = [buckets EXCEPT ![s] = Entry(k, v)] /\ buckets[s].state # "OCCUPIED"
  OBVIOUS
<1> HIDE DEF s
<1>4. /\ buckets'[s] = Entry(k, v)
      /\ \A u \in Slots(capacity) : u # s => buckets'[u] = buckets[u]
  BY <1>1, <1>2, <1>3
<1>5. Full' = Full \cup {s}
  BY <1>2, <1>4 DEF Full, Filled, Entry
<1>6. \A u \in Slots(capacity) : buckets'[u].state = "EMPTY" => buckets[u].state = "EMPTY"
  BY <1>4 DEF Entry
<1>7. Reaches(buckets', capacity, s)
  <2>1. \A l \in 0 .. t - 1 : At(k, l, capacity) \in Slots(capacity)
    <3>1. \A l \in 0 .. t - 1 : l \in Slots(capacity)
      BY <1>1 DEF Slots
    <3> QED
      BY <1>1, <3>1, AtInSlots
  <2>2. NoGap(buckets', capacity, k, t)
    BY <1>6, <2>1 DEF NoGap
  <2>3. buckets'[s].key = k
    BY <1>4 DEF Entry
  <2> QED
    BY <2>2, <2>3 DEF Reaches, s
<1>8. ASSUME NEW u \in Full PROVE Reaches(buckets', capacity, u)
  <2>1. u \in Slots(capacity) /\ buckets'[u] = buckets[u] /\ buckets[u].key \in Keys
    BY <1>2, <1>4 DEF Full, Filled, CountInv, EntriesTyped
  <2>2. Reaches(buckets, capacity, u)
    BY DEF AllReached
  <2> QED
    BY <1>1, <1>6, <2>1, <2>2, ReachKept
<1>9. AllReached'
  BY <1>5, <1>7, <1>8 DEF AllReached
<1>10. \A u \in Full : buckets'[u] = buckets[u]
  BY <1>2, <1>4 DEF Full, Filled
<1>11. StoresAt(s, k, v)
  BY <1>2, <1>4, <1>5, <1>9, <1>10 DEF StoresAt, Entry
<1> QED
  BY <1>11 DEF s

(* __cco_map_put of a new key: the key was in no entry, and the caller's   *)
(* value becomes the map's.                                                *)
LEMMA InsertEffect ==
  ASSUME MapInv, PutInsert, ~Exit
  PROVE  /\ \E s : StoresAt(s, key, val)
         /\ key \in Keys /\ val \in Values /\ owner[val] = "caller"
         /\ \A u \in Full : buckets[u].key # key
         /\ Unmoved = {} /\ Unmoved' = {}
         /\ owner' = [owner EXCEPT ![val] = "map"]
         /\ pc = "insert" /\ m = "live" /\ m' = m /\ Return(<< >>)
<1> USE DEF MapInv, EntriesInv
<1>1. PICK j \in Slots(capacity) :
        /\ SearchEndsAt(buckets, capacity, key, j)
        /\ ~Match(buckets, At(key, j, capacity), key)
        /\ \E t \in 0 .. j :
             /\ InsertsAt(buckets, capacity, key, j, t)
             /\ buckets' = [buckets EXCEPT ![At(key, t, capacity)] = Entry(key, val)]
             /\ owner' = [owner EXCEPT ![val] = "map"]
             /\ Return(<< >>)
             /\ UNCHANGED <<m, capacity, rehashVars>>
  BY DEF PutInsert
<1>2. PICK t \in 0 .. j :
        /\ InsertsAt(buckets, capacity, key, j, t)
        /\ buckets' = [buckets EXCEPT ![At(key, t, capacity)] = Entry(key, val)]
        /\ owner' = [owner EXCEPT ![val] = "map"]
        /\ Return(<< >>)
        /\ UNCHANGED <<m, capacity, rehashVars>>
  BY <1>1
<1>3. /\ pc = "insert" /\ key \in Keys /\ val \in Values /\ m = "live"
      /\ owner[val] = "caller" /\ oldCap = 0 /\ capacity \in Nat
  BY DEF PutInsert, CountInv, TypeOK, Control, ArgumentOwned
<1>4. t \in Slots(capacity)
  BY <1>3 DEF Slots
<1>5. buckets[At(key, t, capacity)].state # "OCCUPIED"
  BY <1>1, <1>2 DEF SearchEndsAt, InsertsAt, Match
<1>6. NoGap(buckets, capacity, key, t)
  <2>1. \A l \in 0 .. t - 1 : l \in 0 .. j - 1
    BY <1>3 DEF Slots
  <2> QED
    BY <1>1, <2>1 DEF NoGap, SearchEndsAt
<1>7. StoresAt(At(key, t, capacity), key, val)
  BY <1>2, <1>3, <1>4, <1>5, <1>6, StoreEffect
<1>8. \A u \in Full : buckets[u].key # key
  BY <1>1, <1>3, SearchIsExact
<1>9. Unmoved = {} /\ Unmoved' = {}
  BY <1>2, <1>3 DEF Unmoved, Filled, Slots, rehashVars
<1> QED
  BY <1>2, <1>3, <1>7, <1>8, <1>9

(* One round of the rehash loop: the entry leaves the old table and is in  *)
(* the new one.                                                            *)
LEMMA MoveEffect ==
  ASSUME MapInv, RehashMove
  PROVE  /\ i \in Unmoved /\ Unmoved' = Unmoved \ {i} /\ oldBuckets' = oldBuckets
         /\ \E s : StoresAt(s, oldBuckets[i].key, oldBuckets[i].value)
         /\ UNCHANGED <<m, pc, key, val, ret, owner>> /\ pc = "rehash"
<1> USE DEF MapInv, EntriesInv
<1>1. PICK j \in Slots(capacity) :
        /\ PlaceEndsAt(buckets, capacity, oldBuckets[i].key, j)
        /\ buckets' = [buckets EXCEPT ![At(oldBuckets[i].key, j, capacity)] =
                         Entry(oldBuckets[i].key, oldBuckets[i].value)]
  BY DEF RehashMove
<1>2. /\ pc = "rehash" /\ i < oldCap /\ oldBuckets[i].state = "OCCUPIED" /\ i' = i + 1
      /\ UNCHANGED <<m, capacity, oldBuckets, oldCap, pc, key, val, ret, owner>>
      /\ i \in Nat /\ oldCap \in Nat
  BY DEF RehashMove, CountInv, TypeOK
<1>3. i \in Unmoved /\ Unmoved' = Unmoved \ {i}
  BY <1>2 DEF Unmoved, Filled, Slots
<1>4. oldBuckets[i].key \in Keys /\ oldBuckets[i].value \in Values
  BY <1>3 DEF CountInv, EntriesTyped
<1>5. /\ buckets[At(oldBuckets[i].key, j, capacity)].state # "OCCUPIED"
      /\ NoGap(buckets, capacity, oldBuckets[i].key, j)
  BY <1>1 DEF PlaceEndsAt, NoGap
<1>6. StoresAt(At(oldBuckets[i].key, j, capacity), oldBuckets[i].key, oldBuckets[i].value)
  BY <1>1, <1>2, <1>4, <1>5, StoreEffect
<1> QED
  BY <1>2, <1>3, <1>6

(* __cco_map_put of a key that is there, and __cco_map_remove: the entry   *)
(* of that key is found, and only it changes.                              *)
LEMMA OverwriteEffect ==
  ASSUME MapInv, PutOverwrite
  PROVE  /\ \E s \in Full :
              /\ buckets[s].key = key /\ buckets'[s].key = key /\ buckets'[s].value = val
              /\ owner' = OwnersAfterOverwrite(s)
              /\ \A u \in Full : u # s => buckets'[u] = buckets[u]
         /\ Full' = Full /\ Unmoved = {} /\ Unmoved' = {} /\ AllReached'
         /\ key \in Keys /\ val \in Values /\ owner[val] = "caller"
         /\ pc = "insert" /\ m = "live" /\ m' = m /\ Return(<< >>)
<1> USE DEF MapInv, EntriesInv
<1>1. PICK j \in Slots(capacity) :
        /\ Match(buckets, At(key, j, capacity), key)
        /\ owner' = OwnersAfterOverwrite(At(key, j, capacity))
        /\ buckets' = [buckets EXCEPT ![At(key, j, capacity)].value = val]
  BY DEF PutOverwrite
<1>2. /\ pc = "insert" /\ key \in Keys /\ val \in Values /\ m = "live"
      /\ owner[val] = "caller" /\ oldCap = 0 /\ capacity \in Nat /\ capacity >= 1
      /\ Return(<< >>) /\ UNCHANGED <<m, capacity, rehashVars>>
      /\ buckets \in [Slots(capacity) -> Bucket]
  BY DEF PutOverwrite, CountInv, TypeOK, Control, ArgumentOwned
<1> DEFINE s == At(key, j, capacity)
<1>3. s \in Slots(capacity)
  BY <1>2, AtInSlots
<1>4. /\ buckets' = [buckets EXCEPT ![s] = [@ EXCEPT !.value = val]]
      /\ buckets[s].state = "OCCUPIED" /\ buckets[s].key = key /\ owner' = OwnersAfterOverwrite(s)
  BY <1>1 DEF Match
<1> HIDE DEF s
<1>5. /\ buckets'[s].state = "OCCUPIED" /\ buckets'[s].key = key /\ buckets'[s].value = val
      /\ \A u \in Slots(capacity) : u # s => buckets'[u] = buckets[u]
  BY <1>2, <1>3, <1>4 DEF Bucket
<1>6. s \in Full /\ Full' = Full
  BY <1>2, <1>3, <1>4, <1>5 DEF Full, Filled
<1>7. Unmoved = {} /\ Unmoved' = {}
  BY <1>2 DEF Unmoved, Filled, Slots, rehashVars
<1>8. AllReached'
  <2> SUFFICES ASSUME NEW u \in Full PROVE Reaches(buckets', capacity, u)
    BY <1>2, <1>6 DEF AllReached
  <2>1. u \in Slots(capacity) /\ buckets'[u].key = buckets[u].key /\ buckets[u].key \in Keys
    BY <1>4, <1>5 DEF Full, Filled, CountInv, EntriesTyped
  <2>2. \A w \in Slots(capacity) : buckets'[w].state = "EMPTY" => buckets[w].state = "EMPTY"
    BY <1>4, <1>5
  <2>3. Reaches(buckets, capacity, u)
    BY DEF AllReached
  <2> QED
    BY <1>2, <2>1, <2>2, <2>3, ReachKept
<1>9. \A u \in Full : u # s => buckets'[u] = buckets[u]
  BY <1>5 DEF Full, Filled
<1> QED
  BY <1>2, <1>4, <1>5, <1>6, <1>7, <1>8, <1>9

(* __cco_map_remove of a key that is there.                                *)
LEMMA RemoveEffect ==
  ASSUME MapInv, Remove, ~Exit
  PROVE  /\ \E s \in Full :
              /\ buckets[s].key = key /\ Full' = Full \ {s}
              /\ \A u \in Full \ {s} : buckets'[u] = buckets[u]
              /\ owner' = [owner EXCEPT ![buckets[s].value] = "caller"]
              /\ Return(<<buckets[s].value>>)
         /\ Unmoved = {} /\ Unmoved' = {} /\ AllReached'
         /\ pc = "remove" /\ m = "live" /\ m' = m /\ key \in Keys
<1> USE DEF MapInv, EntriesInv
<1>1. PICK j \in Slots(capacity) :
        /\ Match(buckets, At(key, j, capacity), key)
        /\ buckets' = [buckets EXCEPT ![At(key, j, capacity)] = Tombstone]
        /\ owner' = [owner EXCEPT ![buckets[At(key, j, capacity)].value] = "caller"]
        /\ Return(<<buckets[At(key, j, capacity)].value>>)
        /\ UNCHANGED <<m, capacity, rehashVars>>
  BY DEF Remove
<1>2. /\ pc = "remove" /\ key \in Keys /\ m = "live" /\ oldCap = 0
      /\ capacity \in Nat /\ capacity >= 1
      /\ buckets \in [Slots(capacity) -> Bucket]
  BY <1>1 DEF Remove, CountInv, TypeOK, Control, Slots
<1> DEFINE s == At(key, j, capacity)
<1>3. s \in Slots(capacity)
  BY <1>2, AtInSlots
<1>4. /\ buckets' = [buckets EXCEPT ![s] = Tombstone]
      /\ buckets[s].state = "OCCUPIED" /\ buckets[s].key = key
      /\ owner' = [owner EXCEPT ![buckets[s].value] = "caller"]
      /\ Return(<<buckets[s].value>>)
  BY <1>1 DEF Match
<1> HIDE DEF s
<1>5. /\ buckets'[s].state = "TOMBSTONE"
      /\ \A u \in Slots(capacity) : u # s => buckets'[u] = buckets[u]
  BY <1>2, <1>3, <1>4 DEF Tombstone
<1>6. s \in Full /\ Full' = Full \ {s}
  BY <1>1, <1>3, <1>4, <1>5 DEF Full, Filled
<1>7. Unmoved = {} /\ Unmoved' = {}
  BY <1>1, <1>2 DEF Unmoved, Filled, Slots, rehashVars
<1>8. AllReached'
  <2> SUFFICES ASSUME NEW u \in Full \ {s} PROVE Reaches(buckets', capacity, u)
    BY <1>1, <1>6 DEF AllReached
  <2>1. u \in Slots(capacity) /\ buckets'[u].key = buckets[u].key /\ buckets[u].key \in Keys
    BY <1>4, <1>5 DEF Full, Filled, CountInv, EntriesTyped
  <2>2. \A w \in Slots(capacity) : buckets'[w].state = "EMPTY" => buckets[w].state = "EMPTY"
    BY <1>4, <1>5
  <2>3. Reaches(buckets, capacity, u)
    BY DEF AllReached
  <2> QED
    BY <1>2, <2>1, <2>2, <2>3, ReachKept
<1>9. \A u \in Full \ {s} : buckets'[u] = buckets[u]
  BY <1>5 DEF Full, Filled
<1> QED
  BY <1>1, <1>2, <1>4, <1>6, <1>7, <1>8, <1>9

----------------------------------------------------------------------------
(* Nothing is stored before the map exists. *)
LEMMA EntriesInit == Init => EntriesInv
<1> SUFFICES ASSUME Init PROVE EntriesInv
  OBVIOUS
<1>1. Full = {} /\ Unmoved = {}
  BY DEF Init, Full, Unmoved, Filled, Slots
<1>2. owner = [v \in Values |-> "caller"] /\ pc = "idle"
  BY DEF Init
<1> QED
  BY <1>1, <1>2 DEF EntriesInv, AllReached, KeysDistinct, ValuesDistinct, OwnedStored,
     Stores, ArgumentOwned

(* A step that leaves the entries and the owners alone keeps the invariant.*)
LEMMA EntriesKept ==
  ASSUME EntriesInv, buckets' = buckets, capacity' = capacity, owner' = owner,
         Unmoved' = Unmoved, \A s \in Unmoved : oldBuckets'[s] = oldBuckets[s],
         ArgumentOwned'
  PROVE  EntriesInv'
<1>1. Full' = Full
  BY DEF Full, Filled, Slots
<1>2. AllReached'
  BY <1>1 DEF EntriesInv, AllReached
<1>3. KeysDistinct'
  BY <1>1 DEF EntriesInv, KeysDistinct
<1>4. ValuesDistinct'
  BY <1>1 DEF EntriesInv, ValuesDistinct
<1>5. OwnedStored'
  BY <1>1 DEF EntriesInv, OwnedStored, Stores
<1> QED
  BY <1>2, <1>3, <1>4, <1>5 DEF EntriesInv

(* The steps that change neither table: calls, lookups, an exit.           *)
LEMMA EntriesQuiet ==
  ASSUME MapInv,
         \/ \E k \in Keys, v \in Values : CallPut(k, v)
         \/ \E k \in Keys, op \in {"get", "has", "remove"} : CallLookup(op, k)
         \/ CallKeys \/ PutNull \/ PutDirect \/ Get \/ Has \/ MapKeys \/ Exit
         \/ UNCHANGED vars
  PROVE  EntriesInv'
<1> USE DEF MapInv
<1>1. UNCHANGED <<table, rehashVars, owner>>
  BY Zenon DEF CallPut, CallLookup, CallKeys, Call, PutNull, PutDirect, Get, Has, MapKeys,
     Exit, vars, table, rehashVars
<1>2. Unmoved' = Unmoved /\ oldBuckets' = oldBuckets /\ buckets' = buckets
      /\ capacity' = capacity /\ owner' = owner
  BY <1>1 DEF Unmoved, Filled, Slots, table, rehashVars
<1>3. \/ pc' \in {"put", "rehash", "insert"} => owner[val'] = "caller"
      \/ pc' = pc /\ val' = val
  <2>1. CASE \E k \in Keys, v \in Values : CallPut(k, v)
    BY <2>1 DEF CallPut, Call
  <2>2. CASE \E k \in Keys, op \in {"get", "has", "remove"} : CallLookup(op, k)
    BY <2>2 DEF CallLookup, Call
  <2>3. CASE CallKeys \/ PutNull \/ Has \/ MapKeys \/ Exit
    BY <2>3 DEF CallKeys, Call, PutNull, Has, MapKeys, Exit, Return
  <2>4. CASE PutDirect
    BY <2>4 DEF PutDirect, EntriesInv, ArgumentOwned
  <2>5. CASE Get
    BY <2>5 DEF Get, Return, Exit
  <2>6. CASE UNCHANGED vars
    BY <2>6 DEF vars
  <2> QED
    BY <2>1, <2>2, <2>3, <2>4, <2>5, <2>6
<1>4. ArgumentOwned'
  BY <1>2, <1>3 DEF EntriesInv, ArgumentOwned
<1> QED
  BY <1>2, <1>4, EntriesKept

(* A new map is empty, and freeing a map frees exactly what it stored.     *)
LEMMA EntriesNewFree ==
  ASSUME MapInv, MapNew \/ MapFree, ~Exit
  PROVE  EntriesInv'
<1> USE DEF MapInv, EntriesInv
<1>1. pc = "idle" /\ pc' = pc /\ oldCap = 0 /\ oldCap' = 0
  BY DEF MapNew, MapFree, CountInv, Control, rehashVars
<1>2. Unmoved = {} /\ Unmoved' = {}
  BY <1>1 DEF Unmoved, Filled, Slots
<1>3. Full' = {}
  <2>1. CASE MapNew
    BY <2>1, FreshEmpty, CapacityAssumption DEF MapNew, Full
  <2>2. CASE MapFree
    BY <2>2, FreshEmpty DEF MapFree, Full
  <2> QED
    BY <2>1, <2>2
<1>4. \A v \in Values : owner'[v] # "map"
  <2>1. CASE MapNew
    <3>1. Full = {} /\ owner' = owner
      BY <2>1 DEF MapNew, CountInv, Control, Full, Filled, Slots
    <3> QED
      BY <1>2, <3>1 DEF OwnedStored, Stores
  <2>2. CASE MapFree
    <3>1. \A v \in Values : owner'[v] = IF \E s \in Full : buckets[s].value = v
                                       THEN "freed" ELSE owner[v]
      BY <2>2 DEF MapFree, Full
    <3> QED
      BY <1>2, <3>1 DEF OwnedStored, Stores
  <2> QED
    BY <2>1, <2>2
<1> QED
  BY <1>1, <1>2, <1>3, <1>4 DEF AllReached, KeysDistinct, ValuesDistinct, OwnedStored, Stores,
     ArgumentOwned

(* The steps of a rehash: the whole table becomes the one to move, and     *)
(* each round moves one entry.                                             *)
LEMMA EntriesRehash ==
  ASSUME MapInv, RehashStart \/ RehashMove \/ RehashSkip \/ RehashEnd, ~Exit
  PROVE  EntriesInv'
<1> USE DEF MapInv
<1>1. CASE RehashStart
  <2>1. /\ pc = "put" /\ pc' = "rehash" /\ oldBuckets' = buckets /\ oldCap' = capacity /\ i' = 0
        /\ capacity' = capacity * 2 /\ buckets' = Fresh(capacity * 2)
        /\ owner' = owner /\ val' = val
    BY <1>1 DEF RehashStart
  <2>2. oldCap = 0 /\ capacity \in Nat
    BY <2>1 DEF CountInv, TypeOK, Control
  <2>3. Unmoved = {}
    BY <2>2 DEF Unmoved, Filled, Slots
  <2>4. Full' = {}
    BY <2>1, <2>2, FreshEmpty DEF Full
  <2>5. Unmoved' = Full
    BY <2>1, <2>2 DEF Unmoved, Full, Filled, Slots
  <2>6. AllReached' /\ KeysDistinct' /\ ValuesDistinct'
    BY <2>1, <2>4, <2>5 DEF EntriesInv, AllReached, KeysDistinct, ValuesDistinct
  <2>7. OwnedStored' /\ ArgumentOwned'
    BY <2>1, <2>3, <2>4, <2>5 DEF EntriesInv, OwnedStored, Stores, ArgumentOwned
  <2> QED
    BY <2>6, <2>7 DEF EntriesInv
<1>2. CASE RehashMove
  <2>1. /\ i \in Unmoved /\ Unmoved' = Unmoved \ {i} /\ oldBuckets' = oldBuckets
        /\ UNCHANGED <<pc, val, owner>>
    BY <1>2, MoveEffect
  <2>2. PICK s : StoresAt(s, oldBuckets[i].key, oldBuckets[i].value)
    BY <1>2, MoveEffect
  <2>3. /\ Full' = Full \cup {s} /\ s \notin Full /\ AllReached'
        /\ buckets'[s].key = oldBuckets[i].key /\ buckets'[s].value = oldBuckets[i].value
        /\ \A u \in Full : buckets'[u] = buckets[u]
    BY <2>2 DEF StoresAt
  <2>4. KeysDistinct'
    BY <2>1, <2>3 DEF EntriesInv, KeysDistinct
  <2>5. ValuesDistinct'
    BY <2>1, <2>3 DEF EntriesInv, ValuesDistinct
  <2>6. OwnedStored' /\ ArgumentOwned'
    BY <2>1, <2>3 DEF EntriesInv, OwnedStored, Stores, ArgumentOwned
  <2> QED
    BY <2>3, <2>4, <2>5, <2>6 DEF EntriesInv
<1>3. CASE RehashSkip
  <2>1. Unmoved' = Unmoved
    BY <1>3 DEF RehashSkip, Unmoved, Filled, Slots, CountInv, TypeOK
  <2>2. ArgumentOwned'
    BY <1>3 DEF RehashSkip, EntriesInv, ArgumentOwned
  <2> QED
    BY <1>3, <2>1, <2>2, EntriesKept DEF RehashSkip, table
<1>4. CASE RehashEnd
  <2>1. Unmoved = {} /\ Unmoved' = {}
    BY <1>4 DEF RehashEnd, Unmoved, Filled, Slots, CountInv, TypeOK
  <2>2. ArgumentOwned'
    BY <1>4 DEF RehashEnd, EntriesInv, ArgumentOwned
  <2> QED
    BY <1>4, <2>1, <2>2, EntriesKept DEF RehashEnd, table
<1> QED
  BY <1>1, <1>2, <1>3, <1>4

(* The steps that store, replace or delete an entry, and the allocator     *)
(* handing out a freed value again.                                        *)
LEMMA EntriesUpdate ==
  ASSUME MapInv, PutOverwrite \/ PutInsert \/ Remove \/ \E v \in Values : Allocate(v), ~Exit
  PROVE  EntriesInv'
<1> USE DEF MapInv
<1>0. /\ owner \in [Values -> {"caller", "map", "freed"}]
      /\ \A s \in Full : buckets[s].value \in Values
  BY DEF CountInv, TypeOK, EntriesTyped
<1>1. CASE PutOverwrite
  <2>1. PICK s \in Full :
          /\ buckets[s].key = key /\ buckets'[s].key = key /\ buckets'[s].value = val
          /\ owner' = OwnersAfterOverwrite(s)
          /\ \A u \in Full : u # s => buckets'[u] = buckets[u]
    BY <1>1, OverwriteEffect
  <2>2. /\ Full' = Full /\ Unmoved = {} /\ Unmoved' = {} /\ AllReached'
        /\ val \in Values /\ owner[val] = "caller" /\ Return(<< >>)
    BY <1>1, OverwriteEffect
  <2>3. KeysDistinct'
    BY <2>1, <2>2 DEF EntriesInv, KeysDistinct
  <2>4. \A u \in Full : buckets[u].value # val
    BY <1>0, <2>2 DEF EntriesInv, OwnedStored, Stores
  <2>5. ValuesDistinct'
    BY <2>1, <2>2, <2>4 DEF EntriesInv, ValuesDistinct
  <2>6. ArgumentOwned'
    BY <2>2 DEF Return, ArgumentOwned
  <2>7. OwnedStored'
    <3>1. owner' = [owner EXCEPT ![buckets[s].value] = "freed", ![val] = "map"]
      BY <2>1 DEF OwnersAfterOverwrite
    <3>2. ASSUME NEW v \in Values
          PROVE  owner'[v] = "map" <=> v = val \/ (owner[v] = "map" /\ v # buckets[s].value)
      BY <1>0, <2>1, <2>2, <2>4, <3>1
    <3>3. ASSUME NEW v \in Values
          PROVE  Stores(v)' <=> v = val \/ (Stores(v) /\ v # buckets[s].value)
      BY <2>1, <2>2, <2>4 DEF Stores, EntriesInv, ValuesDistinct
    <3> QED
      BY <3>2, <3>3 DEF EntriesInv, OwnedStored
  <2> QED
    BY <2>2, <2>3, <2>5, <2>6, <2>7 DEF EntriesInv
<1>2. CASE PutInsert
  <2>1. PICK s : StoresAt(s, key, val)
    BY <1>2, InsertEffect
  <2>2. /\ val \in Values /\ owner[val] = "caller"
        /\ \A u \in Full : buckets[u].key # key
        /\ Unmoved = {} /\ Unmoved' = {}
        /\ owner' = [owner EXCEPT ![val] = "map"] /\ Return(<< >>)
    BY <1>2, InsertEffect
  <2>3. /\ Full' = Full \cup {s} /\ s \notin Full /\ AllReached'
        /\ buckets'[s].key = key /\ buckets'[s].value = val
        /\ \A u \in Full : buckets'[u] = buckets[u]
    BY <2>1 DEF StoresAt
  <2>4. KeysDistinct'
    BY <2>2, <2>3 DEF EntriesInv, KeysDistinct
  <2>5. \A u \in Full : buckets[u].value # val
    BY <1>0, <2>2 DEF EntriesInv, OwnedStored, Stores
  <2>6. ValuesDistinct'
    BY <2>2, <2>3, <2>5 DEF EntriesInv, ValuesDistinct
  <2>7. ArgumentOwned'
    BY <2>2 DEF Return, ArgumentOwned
  <2>8. OwnedStored'
    <3>1. ASSUME NEW v \in Values PROVE owner'[v] = "map" <=> v = val \/ owner[v] = "map"
      BY <1>0, <2>2
    <3>2. ASSUME NEW v \in Values PROVE Stores(v)' <=> v = val \/ Stores(v)
      BY <2>2, <2>3 DEF Stores
    <3> QED
      BY <3>1, <3>2 DEF EntriesInv, OwnedStored
  <2> QED
    BY <2>3, <2>4, <2>6, <2>7, <2>8 DEF EntriesInv
<1>3. CASE Remove
  <2>1. PICK s \in Full :
          /\ buckets[s].key = key /\ Full' = Full \ {s}
          /\ \A u \in Full \ {s} : buckets'[u] = buckets[u]
          /\ owner' = [owner EXCEPT ![buckets[s].value] = "caller"]
          /\ Return(<<buckets[s].value>>)
    BY <1>3, RemoveEffect
  <2>2. Unmoved = {} /\ Unmoved' = {} /\ AllReached'
    BY <1>3, RemoveEffect
  <2>3. KeysDistinct'
    BY <2>1, <2>2 DEF EntriesInv, KeysDistinct
  <2>4. ValuesDistinct'
    BY <2>1, <2>2 DEF EntriesInv, ValuesDistinct
  <2>5. ArgumentOwned'
    BY <2>1 DEF Return, ArgumentOwned
  <2>6. OwnedStored'
    <3>1. ASSUME NEW v \in Values
          PROVE  owner'[v] = "map" <=> owner[v] = "map" /\ v # buckets[s].value
      BY <1>0, <2>1
    <3>2. ASSUME NEW v \in Values
          PROVE  Stores(v)' <=> Stores(v) /\ v # buckets[s].value
      BY <2>1, <2>2 DEF Stores, EntriesInv, ValuesDistinct
    <3> QED
      BY <3>1, <3>2 DEF EntriesInv, OwnedStored
  <2> QED
    BY <2>2, <2>3, <2>4, <2>5, <2>6 DEF EntriesInv
<1>4. CASE \E v \in Values : Allocate(v)
  <2>1. PICK v \in Values : Allocate(v)
    BY <1>4
  <2>2. /\ pc = "idle" /\ pc' = pc /\ owner[v] = "freed" /\ owner' = [owner EXCEPT ![v] = "caller"]
        /\ buckets' = buckets /\ capacity' = capacity /\ oldBuckets' = oldBuckets
        /\ oldCap' = oldCap /\ i' = i
    BY <2>1 DEF Allocate, table, rehashVars
  <2>3. Full' = Full /\ Unmoved' = Unmoved
    BY <2>2 DEF Full, Unmoved, Filled, Slots
  <2>4. AllReached' /\ KeysDistinct' /\ ValuesDistinct'
    BY <2>2, <2>3 DEF EntriesInv, AllReached, KeysDistinct, ValuesDistinct
  <2>5. OwnedStored'
    <3>1. \A w \in Values : owner'[w] = "map" <=> owner[w] = "map"
      BY <1>0, <2>2
    <3> QED
      BY <2>2, <2>3, <3>1 DEF EntriesInv, OwnedStored, Stores
  <2>6. ArgumentOwned'
    BY <2>2 DEF ArgumentOwned
  <2> QED
    BY <2>4, <2>5, <2>6 DEF EntriesInv
<1> QED
  BY <1>1, <1>2, <1>3, <1>4

(* Every step keeps the invariant of the entries. *)
LEMMA MapStep == MapInv /\ [Next]_vars => MapInv'
<1> SUFFICES ASSUME MapInv, [Next]_vars PROVE MapInv'
  OBVIOUS
<1>1. CountInv'
  BY CountStep DEF MapInv
<1>2. EntriesInv'
  BY EntriesQuiet, EntriesNewFree, EntriesRehash, EntriesUpdate DEF Next, Body, Exited
<1> QED
  BY <1>1, <1>2 DEF MapInv

(* The invariant of the entries holds throughout, for every hash function. *)
THEOREM MapSafe == Spec => []MapInv
<1>1. Init => MapInv
  BY CountInit, EntriesInit DEF MapInv
<1> QED
  BY <1>1, MapStep, PTL DEF Spec

(* No put, remove or half-done rehash ever hides an entry from its probe   *)
(* or doubles its key.                                                     *)
THEOREM NoHiddenSafe == Spec => []NoHiddenEntry
BY MapSafe, HiddenFromInv, PTL

(* Storing a set of values once each takes as many values as slots.        *)
LEMMA ValuesCounted ==
  ASSUME NEW S, IsFiniteSet(S), NEW f \in [S -> Values],
         \A s, t \in S : f[s] = f[t] => s = t
  PROVE  LET V == {f[s] : s \in S}
         IN  IsFiniteSet(V) /\ Cardinality(V) = Cardinality(S)
<1> DEFINE V == {f[s] : s \in S}
<1>1. f \in Surjection(S, V) /\ f \in Injection(S, V)
  BY DEF Surjection, Injection, IsInjective
<1> HIDE DEF V
<1>2. IsFiniteSet(V) /\ Cardinality(V) = Cardinality(S)
  BY <1>1, FS_Surjection
<1> QED
  BY <1>2 DEF V

(* The map owns exactly the values it stores, each once, and one key copy  *)
(* per entry, at every step of every operation: nothing is freed twice and *)
(* nothing is lost.                                                        *)
THEOREM OwnershipSafe == Spec => []OwnershipExact
<1>1. MapInv => OwnershipExact
  <2> SUFFICES ASSUME MapInv PROVE OwnershipExact
    OBVIOUS
  <2> USE DEF MapInv, EntriesInv
  <2>1. /\ \A s \in Full : buckets[s].value \in Values
        /\ \A s \in Unmoved : oldBuckets[s].value \in Values
    BY DEF CountInv, EntriesTyped
  <2>2. IsFiniteSet(Full) /\ IsFiniteSet(Unmoved)
    <3>1. IsFiniteSet(Filled(oldBuckets, oldCap, "OCCUPIED"))
      BY FilledFinite DEF CountInv, TypeOK
    <3>2. Unmoved \in SUBSET Filled(oldBuckets, oldCap, "OCCUPIED")
      BY DEF Unmoved
    <3> QED
      BY <3>1, <3>2, FilledFinite, FS_Subset DEF CountInv, TypeOK, Full
  <2> DEFINE f == [s \in Full |-> buckets[s].value]
             g == [s \in Unmoved |-> oldBuckets[s].value]
             F == {f[s] : s \in Full}
             G == {g[s] : s \in Unmoved}
  <2>3. IsFiniteSet(F) /\ Cardinality(F) = Cardinality(Full)
    <3>1. f \in [Full -> Values] /\ \A s, t \in Full : f[s] = f[t] => s = t
      BY <2>1 DEF ValuesDistinct
    <3> QED
      BY <2>2, <3>1, ValuesCounted
  <2>4. IsFiniteSet(G) /\ Cardinality(G) = Cardinality(Unmoved)
    <3>1. g \in [Unmoved -> Values] /\ \A s, t \in Unmoved : g[s] = g[t] => s = t
      BY <2>1 DEF ValuesDistinct
    <3> QED
      BY <2>2, <3>1, ValuesCounted
  <2>5. F \cap G = {}
    BY DEF ValuesDistinct
  <2>6. {v \in Values : owner[v] = "map"} = F \cup G
    BY <2>1 DEF OwnedStored, Stores
  <2> HIDE DEF f, g, F, G
  <2>7. Cardinality(F \cup G) = Cardinality(Full) + Cardinality(Unmoved)
    <3>1. Cardinality(F) \in Nat /\ Cardinality(G) \in Nat /\ Cardinality(F \cap G) = 0
      BY <2>3, <2>4, <2>5, FS_CardinalityType, FS_EmptySet
    <3>2. Cardinality(F \cup G) = Cardinality(F) + Cardinality(G) - Cardinality(F \cap G)
      BY <2>3, <2>4, FS_Union
    <3> QED
      BY <2>3, <2>4, <3>1, <3>2
  <2>8. /\ \A s \in Full : owner[buckets[s].value] = "map"
        /\ \A s \in Unmoved : owner[oldBuckets[s].value] = "map"
    BY <2>1 DEF OwnedStored, Stores
  <2> QED
    BY <2>6, <2>7, <2>8 DEF OwnershipExact, CountInv, KeyCopiesExact
<1> QED
  BY <1>1, MapSafe, PTL

----------------------------------------------------------------------------
(* Contents is the function that takes the key of every entry, moved or    *)
(* not, to its value.                                                      *)
StoredKeys == {buckets[s].key : s \in Full} \cup {oldBuckets[s].key : s \in Unmoved}
ContentsExact ==
  /\ Contents = [k \in StoredKeys |-> Contents[k]]
  /\ \A s \in Full : Contents[buckets[s].key] = buckets[s].value
  /\ \A s \in Unmoved : Contents[oldBuckets[s].key] = oldBuckets[s].value

(* Distinct keys make it so: whichever entry is chosen is the only one.    *)
LEMMA ContentsFromInv == MapInv => ContentsExact
<1> SUFFICES ASSUME MapInv PROVE ContentsExact
  OBVIOUS
<1> USE DEF MapInv, EntriesInv
<1>1. Contents = [k \in StoredKeys |-> Contents[k]]
  BY DEF Contents, StoredKeys
<1>2. ASSUME NEW s \in Full PROVE Contents[buckets[s].key] = buckets[s].value
  <2> DEFINE c == CHOOSE t \in Full : buckets[t].key = buckets[s].key
  <2>1. c \in Full /\ buckets[c].key = buckets[s].key
    OBVIOUS
  <2>2. c = s
    BY <2>1 DEF KeysDistinct
  <2>3. Contents[buckets[s].key] = buckets[c].value
    BY DEF Contents
  <2> QED
    BY <2>2, <2>3
<1>3. ASSUME NEW s \in Unmoved PROVE Contents[oldBuckets[s].key] = oldBuckets[s].value
  <2> DEFINE c == CHOOSE t \in Unmoved : oldBuckets[t].key = oldBuckets[s].key
  <2>1. c \in Unmoved /\ oldBuckets[c].key = oldBuckets[s].key
    OBVIOUS
  <2>2. c = s
    BY <2>1 DEF KeysDistinct
  <2>3. ~ \E t \in Full : buckets[t].key = oldBuckets[s].key
    BY DEF KeysDistinct
  <2>4. Contents[oldBuckets[s].key] = oldBuckets[c].value
    BY <2>3 DEF Contents
  <2> QED
    BY <2>2, <2>4
<1> QED
  BY <1>1, <1>2, <1>3 DEF ContentsExact

(* The values the dictionary holds are those the entries hold.             *)
LEMMA HeldIsStored ==
  ASSUME ContentsExact
  PROVE  /\ DOMAIN Contents = StoredKeys
         /\ \A v : v \in Abstract!Held(Contents) <=> Stores(v)
<1>1. DOMAIN Contents = StoredKeys
  BY DEF ContentsExact
<1>2. ASSUME NEW v PROVE v \in Abstract!Held(Contents) <=> Stores(v)
  <2>1. v \in Abstract!Held(Contents) <=> \E k \in StoredKeys : Contents[k] = v
    BY <1>1 DEF Abstract!Held
  <2> QED
    BY <2>1 DEF ContentsExact, StoredKeys, Stores
<1> QED
  BY <1>1, <1>2

(* A step that leaves the entries alone leaves the dictionary alone.       *)
LEMMA ContentsKept ==
  ASSUME ContentsExact, ContentsExact', StoredKeys' = StoredKeys,
         \A s \in Full : \/ \E t \in Full' : buckets'[t] = buckets[s]
                         \/ \E t \in Unmoved' : oldBuckets'[t] = buckets[s],
         \A s \in Unmoved : \/ \E t \in Full' : /\ buckets'[t].key = oldBuckets[s].key
                                                /\ buckets'[t].value = oldBuckets[s].value
                            \/ \E t \in Unmoved' : oldBuckets'[t] = oldBuckets[s]
  PROVE  Contents' = Contents
<1>1. \A s \in Full : Contents'[buckets[s].key] = Contents[buckets[s].key]
  BY DEF ContentsExact
<1>2. \A s \in Unmoved : Contents'[oldBuckets[s].key] = Contents[oldBuckets[s].key]
  BY DEF ContentsExact
<1>3. \A k \in StoredKeys : Contents'[k] = Contents[k]
  BY <1>1, <1>2 DEF StoredKeys
<1>4. Contents = [k \in StoredKeys |-> Contents[k]] /\ Contents' = [k \in StoredKeys |-> Contents'[k]]
  BY DEF ContentsExact
<1> QED
  BY <1>3, <1>4

(* What the rest of the argument assumes of a step. *)
AbstractStep == Abstract!Next \/ UNCHANGED Abstract!vars
Both == MapInv /\ ContentsExact /\ ContentsExact'

(* The steps that leave both tables alone. *)
LEMMA TablesKept ==
  ASSUME Both, UNCHANGED <<table, rehashVars>>
  PROVE  Contents' = Contents
<1>1. Full' = Full /\ Unmoved' = Unmoved /\ buckets' = buckets /\ oldBuckets' = oldBuckets
  BY DEF Full, Unmoved, Filled, Slots, table, rehashVars
<1>2. StoredKeys' = StoredKeys
  BY <1>1 DEF StoredKeys
<1> QED
  BY <1>1, <1>2, ContentsKept DEF Both

(* The calls, and the steps of put before it touches the table. *)
LEMMA RefineCalls ==
  ASSUME Both,
         \/ \E k \in Keys, v \in Values : CallPut(k, v)
         \/ \E k \in Keys, op \in {"get", "has", "remove"} : CallLookup(op, k)
         \/ CallKeys \/ PutNull \/ PutDirect
  PROVE  AbstractStep
<1>1. UNCHANGED <<table, rehashVars>>
  BY DEF CallPut, CallLookup, CallKeys, Call, PutNull, PutDirect
<1>2. Contents' = Contents
  BY <1>1, TablesKept
<1> HIDE DEF Contents
<1>3. CASE \E k \in Keys, v \in Values : CallPut(k, v)
  <2>1. PICK k \in Keys, v \in Values : CallPut(k, v)
    BY <1>3
  <2>2. owner[v] = "caller" /\ Abstract!Call("put", k, v)
    BY <1>2, <2>1 DEF CallPut, Call, Abstract!Call
  <2> QED
    BY <2>2 DEF AbstractStep, Abstract!Next
<1>4. CASE \E k \in Keys, op \in {"get", "has", "remove"} : CallLookup(op, k)
  <2>1. PICK k \in Keys, op \in {"get", "has", "remove"} : CallLookup(op, k)
    BY <1>4
  <2>2. Abstract!Call(op, k, NULL)
    BY <1>2, <2>1 DEF CallLookup, Call, Abstract!Call
  <2> QED
    BY <2>2 DEF AbstractStep, Abstract!Next
<1>5. CASE CallKeys
  <2>1. Abstract!Call("keys", NULL, NULL)
    BY <1>2, <1>5 DEF CallKeys, Call, Abstract!Call
  <2> QED
    BY <2>1 DEF AbstractStep, Abstract!Next
<1>6. CASE PutNull
  <2>1. Abstract!Put
    BY <1>2, <1>6 DEF PutNull, Return, Abstract!Put, Abstract!Return
  <2> QED
    BY <2>1 DEF AbstractStep, Abstract!Next
<1>7. CASE PutDirect
  <2>1. UNCHANGED Abstract!vars
    BY <1>2, <1>7 DEF PutDirect, Abstract!vars
  <2> QED
    BY <2>1 DEF AbstractStep
<1> QED
  BY <1>3, <1>4, <1>5, <1>6, <1>7

(* The process ends inside an operation: the dictionary's does as well.    *)
LEMMA RefineExit ==
  ASSUME Both, Exit, \/ MapNew \/ RehashStart \/ PutInsert
                     \/ (pc \in {"get", "remove"} /\ (m = "null" \/ key \notin StoredKeys))
  PROVE  AbstractStep
<1>1. Contents' = Contents
  BY TablesKept DEF Exit
<1>2. Abstract!Exit
  BY <1>1 DEF Exit, Abstract!Exit
<1>3. CASE MapNew
  <2>1. Abstract!New
    BY <1>2, <1>3 DEF MapNew, Abstract!New
  <2> QED
    BY <2>1 DEF AbstractStep, Abstract!Next
<1>4. CASE RehashStart \/ PutInsert
  <2>1. Abstract!Put
    BY <1>2, <1>4 DEF RehashStart, PutInsert, Abstract!Put
  <2> QED
    BY <2>1 DEF AbstractStep, Abstract!Next
<1>5. CASE pc \in {"get", "remove"} /\ (m = "null" \/ key \notin StoredKeys)
  <2>1. DOMAIN Contents = StoredKeys
    BY HeldIsStored DEF Both
  <2>2. ~(m = "live" /\ key \in DOMAIN Contents)
    BY <1>5, <2>1
  <2>3. CASE pc = "get"
    <3>1. Abstract!Get
      BY <1>2, <2>2, <2>3 DEF Abstract!Get
    <3> QED
      BY <3>1 DEF AbstractStep, Abstract!Next
  <2>4. CASE pc = "remove"
    <3>1. Abstract!Remove
      BY <1>2, <2>2, <2>4 DEF Abstract!Remove
    <3> QED
      BY <3>1 DEF AbstractStep, Abstract!Next
  <2> QED
    BY <1>5, <2>3, <2>4
<1> QED
  BY <1>3, <1>4, <1>5

(* __cco_map_new and __cco_map_free start and end an empty dictionary, and *)
(* freeing frees what the dictionary held.                                 *)
LEMMA RefineNewFree ==
  ASSUME Both, MapNew \/ MapFree, ~Exit
  PROVE  AbstractStep
<1> USE DEF Both, MapInv, EntriesInv
<1>1. pc = "idle" /\ pc' = pc /\ oldCap = 0 /\ oldCap' = 0
  BY DEF MapNew, MapFree, CountInv, Control, rehashVars
<1>2. Unmoved = {} /\ Unmoved' = {}
  BY <1>1 DEF Unmoved, Filled, Slots
<1>3. CASE MapNew
  <2>1. m = "null" /\ m' = "live" /\ UNCHANGED <<pc, key, val, ret, owner>>
    BY <1>3 DEF MapNew
  <2>2. Full = {} /\ Full' = {}
    BY <1>3, FreshEmpty, CapacityAssumption DEF MapNew, CountInv, Control, Full, Filled, Slots
  <2>3. Contents' = Contents
    <3>1. StoredKeys' = StoredKeys
      BY <1>2, <2>2 DEF StoredKeys
    <3> QED
      BY <1>2, <2>2, <3>1, ContentsKept
  <2>4. Abstract!New
    BY <1>1, <2>1, <2>3 DEF Abstract!New
  <2> QED
    BY <2>4 DEF AbstractStep, Abstract!Next
<1>4. CASE MapFree
  <2>1. m = "live" /\ m' = "null" /\ UNCHANGED <<pc, key, val, ret>>
    BY <1>4 DEF MapFree
  <2>2. Full' = {}
    BY <1>4, FreshEmpty DEF MapFree, Full
  <2>3. Contents' = [k \in {} |-> NULL]
    <3>1. StoredKeys' = {}
      BY <1>2, <2>2 DEF StoredKeys
    <3> QED
      BY <3>1 DEF ContentsExact
  <2>4. owner' = Abstract!Give(owner, Abstract!Held(Contents), "freed")
    <3>1. \A v : v \in Abstract!Held(Contents) <=> \E s \in Full : buckets[s].value = v
      BY <1>2, HeldIsStored DEF Stores
    <3>2. owner' = [v \in Values |-> IF \E s \in Full : buckets[s].value = v
                                    THEN "freed" ELSE owner[v]]
      BY <1>4 DEF MapFree, Full
    <3> QED
      BY <3>1, <3>2 DEF Abstract!Give
  <2>5. Abstract!Free
    BY <1>1, <2>1, <2>3, <2>4 DEF Abstract!Free
  <2> QED
    BY <2>5 DEF AbstractStep, Abstract!Next
<1> QED
  BY <1>3, <1>4

(* A freed value allocated again. *)
LEMMA RefineAllocate ==
  ASSUME Both, NEW v \in Values, Allocate(v)
  PROVE  AbstractStep
<1>1. Contents' = Contents
  BY TablesKept DEF Allocate
<1>2. owner' = Abstract!Give(owner, {v}, "caller")
  BY DEF Both, MapInv, CountInv, TypeOK, Allocate, Abstract!Give
<1>3. Abstract!Allocate
  BY <1>1, <1>2 DEF Allocate, Abstract!Allocate
<1> QED
  BY <1>3 DEF AbstractStep, Abstract!Next

(* A rehash is invisible: it starts, moves, skips and ends without a       *)
(* change of the dictionary.                                               *)
LEMMA RefineRehash ==
  ASSUME Both, RehashStart \/ RehashMove \/ RehashSkip \/ RehashEnd, ~Exit
  PROVE  AbstractStep
<1> USE DEF Both, MapInv
<1>1. /\ UNCHANGED <<m, key, val, ret, owner>>
      /\ pc \in {"put", "rehash"} /\ pc' \in {"rehash", "insert"}
  BY DEF RehashStart, RehashMove, RehashSkip, RehashEnd
<1>2. Contents' = Contents
  <2>1. CASE RehashStart
    <3>1. /\ oldBuckets' = buckets /\ oldCap' = capacity /\ i' = 0 /\ pc = "put"
          /\ capacity' = capacity * 2 /\ buckets' = Fresh(capacity * 2)
      BY <2>1 DEF RehashStart
    <3>2. oldCap = 0 /\ capacity \in Nat
      BY <3>1 DEF CountInv, TypeOK, Control
    <3>3. Unmoved = {} /\ Unmoved' = Full
      BY <3>1, <3>2 DEF Unmoved, Full, Filled, Slots
    <3>4. Full' = {}
      BY <3>1, <3>2, FreshEmpty DEF Full
    <3>5. StoredKeys' = StoredKeys
      BY <3>1, <3>3, <3>4 DEF StoredKeys
    <3> QED
      BY <3>1, <3>3, <3>5, ContentsKept
  <2>2. CASE RehashMove
    <3>1. /\ i \in Unmoved /\ Unmoved' = Unmoved \ {i} /\ oldBuckets' = oldBuckets
      BY <2>2, MoveEffect
    <3>2. PICK s : StoresAt(s, oldBuckets[i].key, oldBuckets[i].value)
      BY <2>2, MoveEffect
    <3>3. /\ Full' = Full \cup {s}
          /\ buckets'[s].key = oldBuckets[i].key /\ buckets'[s].value = oldBuckets[i].value
          /\ \A u \in Full : buckets'[u] = buckets[u]
      BY <3>2 DEF StoresAt
    <3>4. StoredKeys' = StoredKeys
      <4>1. {buckets'[u].key : u \in Full'} = {buckets[u].key : u \in Full} \cup {oldBuckets[i].key}
        BY <3>3
      <4> QED
        BY <3>1, <4>1 DEF StoredKeys
    <3> QED
      BY <3>1, <3>3, <3>4, ContentsKept
  <2>3. CASE RehashSkip
    <3>1. Unmoved' = Unmoved /\ oldBuckets' = oldBuckets /\ buckets' = buckets
      BY <2>3 DEF RehashSkip, Unmoved, Filled, Slots, CountInv, TypeOK, table
    <3>2. Full' = Full
      BY <2>3 DEF RehashSkip, Full, Filled, Slots, table
    <3>3. StoredKeys' = StoredKeys
      BY <3>1, <3>2 DEF StoredKeys
    <3> QED
      BY <3>1, <3>2, <3>3, ContentsKept
  <2>4. CASE RehashEnd
    <3>1. Unmoved = {} /\ Unmoved' = {} /\ buckets' = buckets
      BY <2>4 DEF RehashEnd, Unmoved, Filled, Slots, CountInv, TypeOK, table
    <3>2. Full' = Full
      BY <2>4 DEF RehashEnd, Full, Filled, Slots, table
    <3>3. StoredKeys' = StoredKeys
      BY <3>1, <3>2 DEF StoredKeys
    <3> QED
      BY <3>1, <3>2, <3>3, ContentsKept
  <2> QED
    BY <2>1, <2>2, <2>3, <2>4
<1>3. UNCHANGED Abstract!vars
  BY <1>1, <1>2 DEF Abstract!vars
<1> QED
  BY <1>3 DEF AbstractStep

(* The search of an operation finds the key exactly when the dictionary    *)
(* has it, and then at the bucket with the dictionary's value.             *)
LEMMA LookupExact ==
  ASSUME MapInv, ContentsExact, m = "live", key \in Keys, pc # "rehash",
         NEW j \in Slots(capacity), SearchEndsAt(buckets, capacity, key, j)
  PROVE  IF Match(buckets, At(key, j, capacity), key)
         THEN key \in StoredKeys /\ Contents[key] = buckets[At(key, j, capacity)].value
         ELSE key \notin StoredKeys
<1> USE DEF MapInv, EntriesInv
<1>1. capacity \in Nat /\ capacity >= 1 /\ Unmoved = {}
  BY DEF CountInv, TypeOK, Control, Unmoved, Filled, Slots
<1>2. CASE Match(buckets, At(key, j, capacity), key)
  <2>1. At(key, j, capacity) \in Full /\ buckets[At(key, j, capacity)].key = key
    BY <1>1, <1>2, AtInSlots DEF Match, Full, Filled
  <2> QED
    BY <1>2, <2>1 DEF ContentsExact, StoredKeys
<1>3. CASE ~Match(buckets, At(key, j, capacity), key)
  <2>1. \A s \in Full : buckets[s].key # key
    BY <1>3, SearchIsExact
  <2> QED
    BY <1>1, <1>3, <2>1 DEF StoredKeys
<1> QED
  BY <1>2, <1>3

(* get and has answer what the dictionary says. *)
LEMMA RefineLookup ==
  ASSUME Both, Get \/ Has
  PROVE  AbstractStep
<1> USE DEF Both
<1>1. DOMAIN Contents = StoredKeys
  BY HeldIsStored
<1>2. pc \in {"get", "has"} /\ key \in Keys /\ m \in {"null", "live"}
  BY DEF Get, Has, MapInv, CountInv, Control, TypeOK
<1>3. CASE Get
  <2>0. pc = "get"
    BY <1>3 DEF Get
  <2>1. CASE m = "null"
    BY <1>3, <2>0, <2>1, RefineExit DEF Get
  <2>2. CASE m = "live"
    <3>1. PICK j \in Slots(capacity) :
            /\ SearchEndsAt(buckets, capacity, key, j)
            /\ IF Match(buckets, At(key, j, capacity), key)
               THEN /\ Return(<<buckets[At(key, j, capacity)].value>>)
                    /\ UNCHANGED <<m, table, rehashVars, keyCopies, owner>>
               ELSE Exit
      BY <1>3, <2>2 DEF Get
    <3>2. CASE Match(buckets, At(key, j, capacity), key)
      <4>1. key \in StoredKeys /\ Contents[key] = buckets[At(key, j, capacity)].value
        BY <1>2, <2>0, <2>2, <3>1, <3>2, LookupExact
      <4>2. Return(<<Contents[key]>>) /\ UNCHANGED <<m, table, rehashVars, owner>>
        BY <3>1, <3>2, <4>1
      <4>3. Contents' = Contents
        BY <4>2, TablesKept
      <4>4. Abstract!Get
        BY <1>1, <2>0, <2>2, <4>1, <4>2, <4>3 DEF Abstract!Get, Abstract!Return, Return
      <4> QED
        BY <4>4 DEF AbstractStep, Abstract!Next
    <3>3. CASE ~Match(buckets, At(key, j, capacity), key)
      <4>1. key \notin StoredKeys
        BY <1>2, <2>0, <2>2, <3>1, <3>3, LookupExact
      <4> QED
        BY <2>0, <3>1, <3>3, <4>1, RefineExit
    <3> QED
      BY <3>2, <3>3
  <2> QED
    BY <1>2, <2>1, <2>2
<1>4. CASE Has
  <2>0. pc = "has" /\ UNCHANGED <<m, table, rehashVars, owner>>
    BY <1>4 DEF Has
  <2>1. Contents' = Contents
    BY <2>0, TablesKept
  <2>2. \E found \in BOOLEAN : /\ Return(<<found>>)
                               /\ found <=> (m = "live" /\ key \in DOMAIN Contents)
    <3>1. CASE m = "null"
      <4>1. Return(<<FALSE>>)
        BY <1>4, <3>1 DEF Has
      <4> QED
        BY <3>1, <4>1
    <3>2. CASE m = "live"
      <4>1. PICK j \in Slots(capacity) :
              /\ SearchEndsAt(buckets, capacity, key, j)
              /\ Return(<<Match(buckets, At(key, j, capacity), key)>>)
        BY <1>4, <3>2 DEF Has
      <4>2. Match(buckets, At(key, j, capacity), key) <=> key \in StoredKeys
        BY <1>2, <2>0, <3>2, <4>1, LookupExact
      <4>3. Match(buckets, At(key, j, capacity), key) \in BOOLEAN
        BY DEF Match
      <4> QED
        BY <1>1, <3>2, <4>1, <4>2, <4>3
    <3> QED
      BY <1>2, <3>1, <3>2
  <2>3. Return(<<m = "live" /\ key \in DOMAIN Contents>>)
    BY <2>2
  <2>4. Abstract!Has
    BY <2>0, <2>1, <2>3 DEF Abstract!Has, Abstract!Return, Return
  <2> QED
    BY <2>4 DEF AbstractStep, Abstract!Next
<1> QED
  BY <1>3, <1>4

(* put of a new key adds it to the dictionary and frees nothing. *)
LEMMA RefineInsert ==
  ASSUME Both, PutInsert, ~Exit
  PROVE  AbstractStep
<1> USE DEF Both
<1>1. PICK s : StoresAt(s, key, val)
  BY InsertEffect
<1>2. /\ key \in Keys /\ val \in Values /\ owner[val] = "caller"
      /\ \A u \in Full : buckets[u].key # key
      /\ Unmoved = {} /\ Unmoved' = {}
      /\ owner' = [owner EXCEPT ![val] = "map"]
      /\ pc = "insert" /\ m = "live" /\ m' = m /\ Return(<< >>)
  BY InsertEffect
<1>3. /\ Full' = Full \cup {s}
      /\ buckets'[s].key = key /\ buckets'[s].value = val
      /\ \A u \in Full : buckets'[u] = buckets[u]
  BY <1>1 DEF StoresAt
<1>4. StoredKeys' = StoredKeys \cup {key}
  <2>1. {buckets'[u].key : u \in Full'} = {buckets[u].key : u \in Full} \cup {key}
    BY <1>3
  <2> QED
    BY <1>2, <2>1 DEF StoredKeys
<1>5. /\ DOMAIN Contents = StoredKeys /\ DOMAIN Contents' = StoredKeys'
      /\ Contents' = [k \in StoredKeys' |-> Contents'[k]]
  BY DEF ContentsExact
<1>6. Contents'[key] = val /\ \A k \in StoredKeys : k # key /\ Contents'[k] = Contents[k]
  BY <1>2, <1>3 DEF ContentsExact, StoredKeys
<1>7. Contents' = Abstract!With(Contents, key, val)
  BY <1>4, <1>5, <1>6 DEF Abstract!With
<1>8. Abstract!Held(Contents) \ Abstract!Held(Contents') = {}
  BY <1>4, <1>5, <1>6 DEF Abstract!Held
<1>9. owner' = [Abstract!Give(owner, Abstract!Held(Contents) \ Abstract!Held(Contents'), "freed")
                EXCEPT ![val] = "map"]
  <2>1. Abstract!Give(owner, {}, "freed") = owner
    BY DEF MapInv, CountInv, TypeOK, Abstract!Give
  <2> QED
    BY <1>2, <1>8, <2>1
<1>10. Abstract!Put
  BY <1>2, <1>7, <1>9 DEF Abstract!Put, Abstract!Return, Return
<1> QED
  BY <1>10 DEF AbstractStep, Abstract!Next

(* put of a key that is there replaces its value, and frees the old one,   *)
(* which nothing else in the dictionary is.                                *)
LEMMA RefineOverwrite ==
  ASSUME Both, PutOverwrite
  PROVE  AbstractStep
<1> USE DEF Both
<1>1. PICK s \in Full :
        /\ buckets[s].key = key /\ buckets'[s].key = key /\ buckets'[s].value = val
        /\ owner' = OwnersAfterOverwrite(s)
        /\ \A u \in Full : u # s => buckets'[u] = buckets[u]
  BY OverwriteEffect
<1>2. /\ Full' = Full /\ Unmoved = {} /\ Unmoved' = {}
      /\ key \in Keys /\ val \in Values /\ owner[val] = "caller"
      /\ pc = "insert" /\ m = "live" /\ m' = m /\ Return(<< >>)
  BY OverwriteEffect
<1>3. \A u \in Full : buckets'[u].key = buckets[u].key
  BY <1>1
<1>4. StoredKeys' = StoredKeys /\ key \in StoredKeys
  BY <1>1, <1>2, <1>3 DEF StoredKeys
<1>5. /\ DOMAIN Contents = StoredKeys /\ DOMAIN Contents' = StoredKeys
      /\ Contents' = [k \in StoredKeys |-> Contents'[k]]
  BY <1>4 DEF ContentsExact
<1>6. /\ Contents[key] = buckets[s].value /\ Contents'[key] = val
      /\ \A k \in StoredKeys : k # key => Contents'[k] = Contents[k]
  BY <1>1, <1>2, <1>3 DEF ContentsExact, StoredKeys
<1>7. Contents' = Abstract!With(Contents, key, val)
  BY <1>4, <1>5, <1>6 DEF Abstract!With
<1>8. Abstract!Held(Contents) \ Abstract!Held(Contents') = {buckets[s].value}
  <2>1. \A k \in StoredKeys : k # key => Contents[k] # buckets[s].value
    BY <1>1, <1>2 DEF ContentsExact, StoredKeys, MapInv, EntriesInv, ValuesDistinct
  <2>2. val # buckets[s].value
    BY <1>1, <1>2 DEF MapInv, EntriesInv, OwnedStored, Stores
  <2> QED
    BY <1>4, <1>5, <1>6, <2>1, <2>2 DEF Abstract!Held
<1>9. owner' = [Abstract!Give(owner, Abstract!Held(Contents) \ Abstract!Held(Contents'), "freed")
                EXCEPT ![val] = "map"]
  <2>1. owner \in [Values -> {"caller", "map", "freed"}] /\ buckets[s].value \in Values
    BY DEF MapInv, CountInv, TypeOK, EntriesTyped
  <2>2. Abstract!Give(owner, {buckets[s].value}, "freed")
          = [owner EXCEPT ![buckets[s].value] = "freed"]
    BY <2>1 DEF Abstract!Give
  <2> QED
    BY <1>1, <1>8, <2>1, <2>2 DEF OwnersAfterOverwrite
<1>10. Abstract!Put
  BY <1>2, <1>7, <1>9 DEF Abstract!Put, Abstract!Return, Return
<1> QED
  BY <1>10 DEF AbstractStep, Abstract!Next

(* remove takes the key out of the dictionary and hands its value back. *)
LEMMA RefineRemove ==
  ASSUME Both, Remove
  PROVE  AbstractStep
<1> USE DEF Both
<1>0. pc = "remove" /\ key \in Keys
  BY DEF Remove, MapInv, CountInv, Control
<1>1. CASE Exit
  <2>1. CASE m = "null"
    BY <1>0, <1>1, <2>1, RefineExit
  <2>2. CASE m = "live"
    <3>1. PICK j \in Slots(capacity) :
            /\ SearchEndsAt(buckets, capacity, key, j)
            /\ Match(buckets, At(key, j, capacity), key) => Return(<<buckets[At(key, j, capacity)].value>>)
      BY <2>2 DEF Remove
    <3>2. ~Match(buckets, At(key, j, capacity), key)
      BY <1>1, <3>1 DEF Return, Exit
    <3>3. key \notin StoredKeys
      BY <1>0, <2>2, <3>1, <3>2, LookupExact
    <3> QED
      BY <1>0, <1>1, <3>3, RefineExit
  <2> QED
    BY <2>1, <2>2 DEF MapInv, CountInv, TypeOK
<1>2. CASE ~Exit
  <2>1. PICK s \in Full :
          /\ buckets[s].key = key /\ Full' = Full \ {s}
          /\ \A u \in Full \ {s} : buckets'[u] = buckets[u]
          /\ owner' = [owner EXCEPT ![buckets[s].value] = "caller"]
          /\ Return(<<buckets[s].value>>)
    BY <1>2, RemoveEffect
  <2>2. Unmoved = {} /\ Unmoved' = {} /\ m = "live" /\ m' = m
    BY <1>2, RemoveEffect
  <2>3. \A u \in Full \ {s} : buckets[u].key # key
    BY <2>1 DEF MapInv, EntriesInv, KeysDistinct
  <2>4. StoredKeys' = StoredKeys \ {key} /\ key \in StoredKeys
    <3>1. {buckets'[u].key : u \in Full'} = {buckets[u].key : u \in Full \ {s}}
      BY <2>1
    <3> QED
      BY <2>1, <2>2, <2>3, <3>1 DEF StoredKeys
  <2>5. /\ DOMAIN Contents = StoredKeys
        /\ Contents' = [k \in StoredKeys' |-> Contents'[k]]
    BY DEF ContentsExact
  <2>6. /\ Contents[key] = buckets[s].value
        /\ \A k \in StoredKeys \ {key} : Contents'[k] = Contents[k]
    BY <2>1, <2>2, <2>3 DEF ContentsExact, StoredKeys
  <2>7. Contents' = Abstract!Without(Contents, key)
    BY <2>4, <2>5, <2>6 DEF Abstract!Without
  <2>8. owner' = Abstract!Give(owner, {Contents[key]}, "caller")
    <3>1. owner \in [Values -> {"caller", "map", "freed"}] /\ buckets[s].value \in Values
      BY DEF MapInv, CountInv, TypeOK, EntriesTyped
    <3> QED
      BY <2>1, <2>6, <3>1 DEF Abstract!Give
  <2>9. Abstract!Remove
    BY <1>0, <2>1, <2>2, <2>4, <2>5, <2>6, <2>7, <2>8 DEF Abstract!Remove, Abstract!Return, Return
  <2> QED
    BY <2>9 DEF AbstractStep, Abstract!Next
<1> QED
  BY <1>1, <1>2

Increasing(at, n) == \A x, y \in 1 .. n : x < y => at[x] < at[y]

(* An increasing list of as many slots as are occupied has them all.       *)
LEMMA IncreasingIsAll ==
  ASSUME NEW S \in SUBSET Int, IsFiniteSet(S), NEW at \in [1 .. Cardinality(S) -> S],
         Increasing(at, Cardinality(S))
  PROVE  at \in Surjection(1 .. Cardinality(S), S)
<1> DEFINE n == Cardinality(S)
<1>0. n \in Nat /\ at \in [1 .. n -> S] /\ Increasing(at, n)
  BY FS_CardinalityType
<1> HIDE DEF n
<1>1. at \in Injection(1 .. n, S)
  <2>1. \A x, y \in 1 .. n : at[x] = at[y] => x = y
    <3> SUFFICES ASSUME NEW x \in 1 .. n, NEW y \in 1 .. n, at[x] = at[y], x # y PROVE FALSE
      OBVIOUS
    <3>1. at[x] \in Int /\ at[y] \in Int
      BY <1>0
    <3>2. x < y \/ y < x
      BY <1>0
    <3> QED
      BY <1>0, <3>1, <3>2 DEF Increasing
  <2> QED
    BY <1>0, <2>1 DEF Injection, IsInjective
<1>2. Cardinality(1 .. n) = n
  BY <1>0, FS_Interval
<1>3. at \in Surjection(1 .. n, S)
  BY <1>1, <1>2, FS_Injection DEF n
<1> QED
  BY <1>3 DEF n

(* keys lists every key of the dictionary once. *)
LEMMA RefineKeys ==
  ASSUME Both, MapKeys
  PROVE  AbstractStep
<1> USE DEF Both
<1>0. pc = "keys" /\ UNCHANGED <<m, table, rehashVars, owner>>
  BY DEF MapKeys
<1>1. Contents' = Contents
  BY <1>0, TablesKept
<1>2. /\ IsFiniteSet(Full) /\ occupied = Cardinality(Full) /\ occupied \in Nat
      /\ Full \subseteq Int /\ Unmoved = {} /\ (m = "null" => Full = {})
  <2>1. /\ capacity \in Nat /\ occupied \in Nat /\ occupied = Cardinality(Full)
        /\ oldCap = 0 /\ (m = "null" => capacity = 0)
    BY <1>0 DEF MapInv, CountInv, TypeOK, Control, CountersExact
  <2>2. IsFiniteSet(Full)
    BY <2>1, FilledFinite DEF Full
  <2> QED
    BY <2>1, <2>2 DEF Full, Unmoved, Filled, Slots
<1>3. DOMAIN Contents = StoredKeys /\ StoredKeys = {buckets[s].key : s \in Full}
  BY <1>2, HeldIsStored DEF StoredKeys
<1>4. Cardinality(StoredKeys) = occupied
  <2> DEFINE f == [s \in Full |-> buckets[s].key]
  <2>1. f \in Surjection(Full, StoredKeys) /\ f \in Injection(Full, StoredKeys)
    BY <1>3 DEF Surjection, Injection, IsInjective, MapInv, EntriesInv, KeysDistinct
  <2> HIDE DEF f
  <2> QED
    BY <1>2, <2>1, FS_Surjection
<1>5. \E list \in [1 .. occupied -> StoredKeys] :
        {list[n] : n \in DOMAIN list} = StoredKeys /\ Return(list)
  <2>1. CASE m = "null" \/ occupied = 0
    <3>1. Full = {}
      BY <1>2, <2>1, FS_EmptySet
    <3>2. occupied = 0 /\ StoredKeys = {}
      BY <1>2, <1>3, <3>1, FS_EmptySet
    <3>3. Return(<< >>)
      <4>1. CASE occupied # 0
        BY <3>2, <4>1
      <4>2. CASE occupied = 0
        BY <4>2 DEF MapKeys
      <4> QED
        BY <4>1, <4>2
    <3>4. << >> \in [1 .. occupied -> StoredKeys] /\ {<< >>[n] : n \in DOMAIN << >>} = StoredKeys
      BY <3>2
    <3> QED
      BY <3>3, <3>4
  <2>2. CASE ~(m = "null" \/ occupied = 0)
    <3>1. PICK at \in [1 .. occupied -> Full] :
            /\ \A x, y \in 1 .. occupied : x < y => at[x] < at[y]
            /\ Return([n \in 1 .. occupied |-> buckets[at[n]].key])
      BY <2>2 DEF MapKeys, Full
    <3> DEFINE list == [n \in 1 .. occupied |-> buckets[at[n]].key]
    <3>2. \A s \in Full : \E x \in 1 .. occupied : at[x] = s
      <4>1. /\ Increasing(at, Cardinality(Full)) /\ at \in [1 .. Cardinality(Full) -> Full]
            /\ Full \in SUBSET Int /\ IsFiniteSet(Full)
        BY <1>2, <3>1 DEF Increasing
      <4>2. at \in Surjection(1 .. Cardinality(Full), Full)
        BY <4>1, IncreasingIsAll
      <4> QED
        BY <1>2, <4>2 DEF Surjection
    <3>3. list \in [1 .. occupied -> StoredKeys]
      BY <1>3
    <3>4. {list[n] : n \in DOMAIN list} = StoredKeys
      BY <1>3, <3>2
    <3> HIDE DEF list
    <3>5. Return(list)
      BY <3>1 DEF list
    <3> QED
      BY <3>3, <3>4, <3>5
  <2> QED
    BY <2>1, <2>2
<1>6. Abstract!ListKeys
  <2>1. Abstract!Cardinality(StoredKeys) = Cardinality(StoredKeys)
    BY DEF Abstract!Cardinality, Cardinality
  <2>2. PICK list \in [1 .. Abstract!Cardinality(DOMAIN Contents) -> DOMAIN Contents] :
          {list[n] : n \in DOMAIN list} = DOMAIN Contents /\ Return(list)
    BY <1>3, <1>4, <1>5, <2>1
  <2>3. Abstract!Return(list)
    BY <2>2 DEF Abstract!Return, Return
  <2> QED
    BY <1>0, <1>1, <2>2, <2>3 DEF Abstract!ListKeys
<1> QED
  BY <1>6 DEF AbstractStep, Abstract!Next

(* The safety part of the dictionary's specification, of the mapped state: *)
(* what RefinesDict says without its fairness.                             *)
RefinesDictSafely == Abstract!Init /\ [][Abstract!Next]_(Abstract!vars)

(* The hash table implements the dictionary: for any keys, values, hash    *)
(* function and capacity, every operation takes effect on the dictionary   *)
(* in one step and answers from it, and no rehash step is visible.         *)
THEOREM RefinementSafe == Spec => RefinesDictSafely
<1>1. Init => Abstract!Init
  <2> SUFFICES ASSUME Init PROVE Abstract!Init
    OBVIOUS
  <2>1. Full = {} /\ Unmoved = {}
    BY DEF Init, Full, Unmoved, Filled, Slots
  <2>2. Contents = [k \in {} |-> NULL]
    BY <2>1 DEF Contents
  <2> QED
    BY <2>2 DEF Init, Abstract!Init
<1>2. MapInv /\ ContentsExact /\ ContentsExact' /\ [Next]_vars => [Abstract!Next]_(Abstract!vars)
  <2> SUFFICES ASSUME Both, [Next]_vars PROVE AbstractStep
    BY DEF Both, AbstractStep
  <2>1. CASE \/ \E k \in Keys, v \in Values : CallPut(k, v)
             \/ \E k \in Keys, op \in {"get", "has", "remove"} : CallLookup(op, k)
             \/ CallKeys \/ PutNull \/ PutDirect
    BY <2>1, RefineCalls
  <2>2. CASE MapNew \/ MapFree
    <3>1. CASE Exit /\ MapNew
      BY <3>1, RefineExit
    <3>2. CASE Exit /\ MapFree
      BY <3>2 DEF Exit, MapFree
    <3> QED
      BY <2>2, <3>1, <3>2, RefineNewFree
  <2>3. CASE \E v \in Values : Allocate(v)
    BY <2>3, RefineAllocate
  <2>4. CASE RehashStart \/ RehashMove \/ RehashSkip \/ RehashEnd
    <3>1. CASE Exit /\ RehashStart
      BY <3>1, RefineExit
    <3>2. CASE Exit /\ (RehashMove \/ RehashSkip \/ RehashEnd)
      BY <3>2 DEF Exit, RehashMove, RehashSkip, RehashEnd
    <3> QED
      BY <2>4, <3>1, <3>2, RefineRehash
  <2>5. CASE PutInsert
    BY <2>5, RefineExit, RefineInsert
  <2>6. CASE PutOverwrite \/ Remove \/ Get \/ Has \/ MapKeys
    BY <2>6, RefineOverwrite, RefineRemove, RefineLookup, RefineKeys
  <2>7. CASE UNCHANGED vars
    <3>1. Contents' = Contents
      BY <2>7, TablesKept DEF vars, table, rehashVars
    <3>2. UNCHANGED Abstract!vars
      BY <2>7, <3>1 DEF vars, Abstract!vars
    <3> QED
      BY <3>2 DEF AbstractStep
  <2> QED
    BY <2>1, <2>2, <2>3, <2>4, <2>5, <2>6, <2>7 DEF Next, Body, Exited
<1> QED
  BY <1>1, <1>2, MapSafe, ContentsFromInv, PTL DEF Spec, RefinesDictSafely
=============================================================================
