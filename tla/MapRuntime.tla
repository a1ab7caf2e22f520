----------------------------- MODULE MapRuntime -----------------------------
(***************************************************************************)
(* The open-addressing hash map every compiled `map[K]V' uses:             *)
(* src/src/runtime/map_runtime.h (the same text is emitted by the C11      *)
(* prelude).  One map handle and the operations a compiled program calls   *)
(* on it.  A call is a sequence of steps: the caller's Call action fixes   *)
(* the arguments, the body steps follow, and only the body may run until   *)
(* the call returns.  A probe loop is one step to the first bucket at      *)
(* which the loop stops; when no such bucket exists the loop of the code   *)
(* never ends and the step is not enabled, so a hang is a deadlock here.   *)
(***************************************************************************)
EXTENDS Integers, FiniteSets, Sequences

CONSTANTS Keys,             \* the keys a program uses
          Values,           \* heap values whose ownership the map takes
          Hash,             \* __cco_hash_key of every key
          InitialCapacity,  \* 8 in the code
          MaxCapacity,      \* bound: no put that would grow beyond it
          OwnsKeys,         \* key_type = 1: keys are copied with strdup
          NULL              \* the null pointer

ASSUME CapacityAssumption ==
  /\ InitialCapacity \in Nat /\ InitialCapacity >= 1
  /\ MaxCapacity \in Nat

ASSUME KeyAssumption ==
  /\ Hash \in [Keys -> Nat]
  /\ OwnsKeys \in BOOLEAN
  /\ NULL \notin Keys /\ NULL \notin Values

VARIABLES m,           \* the handle: "null" or "live"
          capacity, buckets, occupied, tombstones,   \* fields of __cco_map
          oldBuckets,  \* old_buckets while __cco_map_rehash runs
          oldCap,      \* old_cap, the size of oldBuckets
          i,           \* the loop index of __cco_map_rehash
          pc,          \* which body is running; "idle" between calls
          key, val,    \* the arguments of the running call
          ret,         \* what the last call returned, <<>> for nothing
          keyCopies,   \* strdup'ed keys that are not freed
          owner        \* who owns each value: caller, map, or it is freed

vars == <<m, capacity, buckets, occupied, tombstones, oldBuckets, oldCap, i,
          pc, key, val, ret, keyCopies, owner>>

table == <<capacity, buckets, occupied, tombstones>>
rehashVars == <<oldBuckets, oldCap, i>>

----------------------------------------------------------------------------
BucketState == {"EMPTY", "OCCUPIED", "TOMBSTONE"}
Bucket == [state : BucketState, key : Keys \cup {NULL}, value : Values \cup {NULL}]
EmptyBucket == [state |-> "EMPTY", key |-> NULL, value |-> NULL]
(* Mutant: remove marks the bucket empty. *)
TombstoneAsEmpty == EmptyBucket
Tombstone   == [state |-> "TOMBSTONE", key |-> NULL, value |-> NULL]
Entry(k, v) == [state |-> "OCCUPIED", key |-> k, value |-> v]

Slots(c) == 0 .. c - 1
Fresh(c) == [s \in Slots(c) |-> EmptyBucket]    \* what calloc returns
Filled(b, c, st) == {s \in Slots(c) : b[s].state = st}

(* h & (cap - 1): capacities are InitialCapacity * 2^n, so it is h % cap.  *)
Home(k, c) == Hash[k] % c

(* The slot the probe loop visits after j rounds of                        *)
(* idx = (idx + 1) & (cap - 1).                                            *)
At(k, j, c) ==
  IF Home(k, c) + j < c THEN Home(k, c) + j ELSE Home(k, c) + j - c

Match(b, s, k) == b[s].state = "OCCUPIED" /\ b[s].key = k

(* The search loop of put, get, has and remove ends after j rounds: at an  *)
(* empty bucket or at the key, and at neither before.                      *)
SearchEndsAt(b, c, k, j) ==
  /\ b[At(k, j, c)].state = "EMPTY" \/ Match(b, At(k, j, c), k)
  /\ \A l \in 0 .. j - 1 : /\ b[At(k, l, c)].state # "EMPTY"
                           /\ ~Match(b, At(k, l, c), k)

(* insert_idx of __cco_map_put when the search ended at the empty bucket   *)
(* of round j is the bucket of round t: the first tombstone passed, or     *)
(* that empty bucket if there was none.                                    *)
InsertsAt(b, c, k, j, t) ==
  /\ t = j \/ b[At(k, t, c)].state = "TOMBSTONE"
  /\ \A l \in 0 .. t - 1 : b[At(k, l, c)].state # "TOMBSTONE"

(* The insertion loop of __cco_map_rehash ends after j rounds.             *)
PlaceEndsAt(b, c, k, j) ==
  /\ b[At(k, j, c)].state # "OCCUPIED"
  /\ \A l \in 0 .. j - 1 : b[At(k, l, c)].state = "OCCUPIED"

(* Mutant: tombstones are not counted. *)
NeedsRehashOccupied == (occupied + 1) * 10 >= capacity * 7

NeedsRehash == (occupied + tombstones + 1) * 10 >= capacity * 7

----------------------------------------------------------------------------
Init ==
  /\ m = "null"
  /\ capacity = 0 /\ buckets = Fresh(0)
  /\ occupied = 0 /\ tombstones = 0
  /\ oldBuckets = Fresh(0) /\ oldCap = 0 /\ i = 0
  /\ pc = "idle" /\ key = NULL /\ val = NULL /\ ret = << >>
  /\ keyCopies = 0
  /\ owner = [v \in Values |-> "caller"]

(* exit(1): the process ends.  Taken where the code calls it.              *)
Exit == /\ pc' = "exited"
        /\ UNCHANGED <<m, table, rehashVars, key, val, ret, keyCopies, owner>>

(* __cco_map_new; a failing malloc or calloc exits.                        *)
MapNew ==
  /\ pc = "idle" /\ m = "null"
  /\ \/ Exit
     \/ /\ m' = "live"
        /\ capacity' = InitialCapacity
        /\ buckets' = Fresh(InitialCapacity)
        /\ occupied' = 0 /\ tombstones' = 0
        /\ UNCHANGED <<rehashVars, pc, key, val, ret, keyCopies, owner>>

(* The compiled program calls an operation. *)
Call(op, k, v) ==
  /\ pc = "idle"
  /\ pc' = op /\ key' = k /\ val' = v
  /\ UNCHANGED <<m, table, rehashVars, ret, keyCopies, owner>>

CallPut(k, v) ==
  /\ owner[v] = "caller"
  /\ (m = "live" /\ NeedsRehash) => capacity * 2 <= MaxCapacity
  /\ Call("put", k, v)

CallLookup(op, k) == Call(op, k, NULL)

CallKeys == Call("keys", NULL, NULL)

Return(r) == pc' = "idle" /\ key' = NULL /\ val' = NULL /\ ret' = r

(* put on a null map returns NULL and leaves everything alone.             *)
PutNull ==
  /\ pc = "put" /\ m = "null"
  /\ Return(<< >>)
  /\ UNCHANGED <<m, table, rehashVars, keyCopies, owner>>

PutDirect ==
  /\ pc = "put" /\ m = "live" /\ ~NeedsRehash
  /\ pc' = "insert"
  /\ UNCHANGED <<m, table, rehashVars, key, val, ret, keyCopies, owner>>

(* __cco_map_rehash up to its loop; calloc may fail, and then it exits.    *)
RehashStart ==
  /\ pc = "put" /\ m = "live" /\ NeedsRehash
  /\ \/ Exit
     \/ /\ pc' = "rehash"
        /\ oldBuckets' = buckets /\ oldCap' = capacity /\ i' = 0
        /\ capacity' = capacity * 2
        /\ buckets' = Fresh(capacity * 2)
        /\ occupied' = 0 /\ tombstones' = 0
        /\ UNCHANGED <<m, key, val, ret, keyCopies, owner>>

(* One round of the loop over old_buckets: an occupied bucket moves.       *)
RehashMove ==
  /\ pc = "rehash" /\ i < oldCap /\ oldBuckets[i].state = "OCCUPIED"
  /\ \E j \in Slots(capacity) :
       /\ PlaceEndsAt(buckets, capacity, oldBuckets[i].key, j)
       /\ buckets' = [buckets EXCEPT ![At(oldBuckets[i].key, j, capacity)] =
                        Entry(oldBuckets[i].key, oldBuckets[i].value)]
  /\ occupied' = occupied + 1
  /\ i' = i + 1
  /\ UNCHANGED <<m, capacity, tombstones, oldBuckets, oldCap, pc, key, val,
                 ret, keyCopies, owner>>

RehashSkip ==
  /\ pc = "rehash" /\ i < oldCap /\ oldBuckets[i].state # "OCCUPIED"
  /\ i' = i + 1
  /\ UNCHANGED <<m, table, oldBuckets, oldCap, pc, key, val, ret, keyCopies, owner>>

(* Mutant: the loop stops one bucket early. *)
RehashEndEarly ==
  /\ pc = "rehash" /\ i = oldCap - 1
  /\ oldBuckets' = Fresh(0) /\ oldCap' = 0 /\ i' = 0
  /\ pc' = "insert"
  /\ UNCHANGED <<m, table, key, val, ret, keyCopies, owner>>

(* The loop is done: free(old_buckets).                                    *)
RehashEnd ==
  /\ pc = "rehash" /\ i = oldCap
  /\ oldBuckets' = Fresh(0) /\ oldCap' = 0 /\ i' = 0
  /\ pc' = "insert"
  /\ UNCHANGED <<m, table, key, val, ret, keyCopies, owner>>

(* Mutant: the old value is not freed. *)
OwnersKeepOld(s) == [owner EXCEPT ![val] = "map"]
OwnersAfterOverwrite(s) == [owner EXCEPT ![buckets[s].value] = "freed", ![val] = "map"]

(* __cco_map_put: the key is there, its old value is freed.                *)
PutOverwrite ==
  /\ pc = "insert"
  /\ \E j \in Slots(capacity) : LET s == At(key, j, capacity) IN
       /\ SearchEndsAt(buckets, capacity, key, j) /\ Match(buckets, s, key)
       /\ owner' = OwnersAfterOverwrite(s)
       /\ buckets' = [buckets EXCEPT ![s].value = val]
  /\ Return(<< >>)
  /\ UNCHANGED <<m, capacity, occupied, tombstones, rehashVars, keyCopies>>

(* Mutant: the counter never goes down. *)
TombstonesNeverDown(s) == tombstones
TombstonesAfter(s) ==
  IF buckets[s].state = "TOMBSTONE" THEN tombstones - 1 ELSE tombstones

(* __cco_map_put: a new entry, in the first tombstone passed if any; a     *)
(* failing strdup exits.                                                   *)
PutInsert ==
  /\ pc = "insert"
  /\ \E j \in Slots(capacity) :
       /\ SearchEndsAt(buckets, capacity, key, j)
       /\ ~Match(buckets, At(key, j, capacity), key)
       /\ \/ OwnsKeys /\ Exit
          \/ \E t \in 0 .. j : LET s == At(key, t, capacity) IN
             /\ InsertsAt(buckets, capacity, key, j, t)
             /\ buckets' = [buckets EXCEPT ![s] = Entry(key, val)]
             /\ tombstones' = TombstonesAfter(s)
             /\ occupied' = occupied + 1
             /\ keyCopies' = IF OwnsKeys THEN keyCopies + 1 ELSE keyCopies
             /\ owner' = [owner EXCEPT ![val] = "map"]
             /\ Return(<< >>)
             /\ UNCHANGED <<m, capacity, rehashVars>>

(* __cco_map_get: the value stays in the map; exit(1) on a null map or a   *)
(* missing key.                                                            *)
Get ==
  /\ pc = "get"
  /\ \/ m = "null" /\ Exit
     \/ /\ m = "live"
        /\ \E j \in Slots(capacity) :
             /\ SearchEndsAt(buckets, capacity, key, j)
             /\ IF Match(buckets, At(key, j, capacity), key)
                THEN /\ Return(<<buckets[At(key, j, capacity)].value>>)
                     /\ UNCHANGED <<m, table, rehashVars, keyCopies, owner>>
                ELSE Exit

(* __cco_map_has *)
Has ==
  /\ pc = "has"
  /\ \/ m = "null" /\ Return(<<FALSE>>)
     \/ /\ m = "live"
        /\ \E j \in Slots(capacity) :
             /\ SearchEndsAt(buckets, capacity, key, j)
             /\ Return(<<Match(buckets, At(key, j, capacity), key)>>)
  /\ UNCHANGED <<m, table, rehashVars, keyCopies, owner>>

(* __cco_map_remove: the bucket becomes a tombstone, the key copy is       *)
(* freed and the value goes back to the caller.                            *)
Remove ==
  /\ pc = "remove"
  /\ \/ m = "null" /\ Exit
     \/ /\ m = "live"
        /\ \E j \in Slots(capacity) : LET s == At(key, j, capacity) IN
             /\ SearchEndsAt(buckets, capacity, key, j)
             /\ IF Match(buckets, s, key)
                THEN /\ buckets' = [buckets EXCEPT ![s] = Tombstone]
                     /\ occupied' = occupied - 1
                     /\ tombstones' = tombstones + 1
                     /\ keyCopies' = IF OwnsKeys THEN keyCopies - 1 ELSE keyCopies
                     /\ owner' = [owner EXCEPT ![buckets[s].value] = "caller"]
                     /\ Return(<<buckets[s].value>>)
                     /\ UNCHANGED <<m, capacity, rehashVars>>
                ELSE Exit

(* __cco_map_keys: a new list with a copy of the key of every occupied     *)
(* bucket, in bucket order; a null map and an empty one give no key.       *)
MapKeys ==
  /\ pc = "keys"
  /\ \/ (m = "null" \/ occupied = 0) /\ Return(<< >>)
     \/ /\ m = "live" /\ occupied # 0
        /\ \E at \in [1 .. occupied -> Filled(buckets, capacity, "OCCUPIED")] :
             /\ \A x, y \in 1 .. occupied : x < y => at[x] < at[y]
             /\ Return([n \in 1 .. occupied |-> buckets[at[n]].key])
  /\ UNCHANGED <<m, table, rehashVars, keyCopies, owner>>

(* __cco_map_free: every key copy and every value of an occupied bucket.   *)
MapFree ==
  /\ pc = "idle" /\ m = "live"
  /\ m' = "null"
  /\ keyCopies' = IF OwnsKeys
                  THEN keyCopies - Cardinality(Filled(buckets, capacity, "OCCUPIED"))
                  ELSE keyCopies
  /\ owner' = [v \in Values |->
                 IF \E s \in Filled(buckets, capacity, "OCCUPIED") : buckets[s].value = v
                 THEN "freed" ELSE owner[v]]
  /\ capacity' = 0 /\ buckets' = Fresh(0)
  /\ occupied' = 0 /\ tombstones' = 0
  /\ UNCHANGED <<rehashVars, pc, key, val, ret>>

(* A value that was freed can be allocated again by the program.           *)
Allocate(v) ==
  /\ pc = "idle" /\ owner[v] = "freed"
  /\ owner' = [owner EXCEPT ![v] = "caller"]
  /\ UNCHANGED <<m, table, rehashVars, pc, key, val, ret, keyCopies>>

Exited == pc = "exited" /\ UNCHANGED vars

Body ==
  \/ PutNull \/ PutDirect \/ RehashStart \/ RehashMove \/ RehashSkip \/ RehashEnd
  \/ PutOverwrite \/ PutInsert \/ Get \/ Has \/ Remove \/ MapKeys

Next ==
  \/ MapNew \/ MapFree
  \/ \E k \in Keys, v \in Values : CallPut(k, v)
  \/ \E k \in Keys, op \in {"get", "has", "remove"} : CallLookup(op, k)
  \/ CallKeys
  \/ \E v \in Values : Allocate(v)
  \/ Body
  \/ Exited

(* Weak fairness of the body: a thread that is inside a runtime call keeps *)
(* executing it.  Nothing is assumed of the calls themselves.              *)
Spec == Init /\ [][Next]_vars /\ WF_vars(Body)

----------------------------------------------------------------------------
(* Every field holds a value of its type (struct __cco_map, the locals of  *)
(* rehash and the arguments of the running call).                          *)
TypeOK ==
  /\ m \in {"null", "live"}
  /\ capacity \in Nat /\ buckets \in [Slots(capacity) -> Bucket]
  /\ occupied \in Nat /\ tombstones \in Nat
  /\ oldCap \in Nat /\ oldBuckets \in [Slots(oldCap) -> Bucket]
  /\ i \in 0 .. oldCap
  /\ pc \in {"idle", "put", "rehash", "insert", "get", "has", "remove", "keys", "exited"}
  /\ key \in Keys \cup {NULL} /\ val \in Values \cup {NULL}
  /\ ret \in Seq(Keys \cup Values \cup BOOLEAN \cup {NULL})
  /\ keyCopies \in Nat
  /\ owner \in [Values -> {"caller", "map", "freed"}]

(* The buckets that hold an entry: of the table, and of old_buckets those  *)
(* the rehash loop has not moved.                                          *)
Full     == Filled(buckets, capacity, "OCCUPIED")
Unmoved  == {s \in Filled(oldBuckets, oldCap, "OCCUPIED") : s >= i}

(* A probe for the key of any stored entry ends at that entry: it meets no *)
(* empty bucket before it, and no second entry of its key, which the part  *)
(* of the old table still to be moved does not hold either. No put, remove *)
(* or half-done rehash ever hides or doubles an entry, collisions,         *)
(* wrap-around and reused tombstones included.                             *)
NoHiddenEntry ==
  \A s \in Full :
    /\ \E j \in Slots(capacity) :
         /\ At(buckets[s].key, j, capacity) = s
         /\ \A l \in 0 .. j - 1 :
              LET met == buckets[At(buckets[s].key, l, capacity)]
              IN  met.state # "EMPTY" /\ (met.state = "OCCUPIED" => met.key # buckets[s].key)
    /\ \A t \in Unmoved : oldBuckets[t].key # buckets[s].key

(* occupied and tombstones are what the buckets say, in the middle of a    *)
(* rehash too: neither counter drifts, so the load test stays meaningful.  *)
CountersExact ==
  /\ occupied = Cardinality(Full)
  /\ tombstones = Cardinality(Filled(buckets, capacity, "TOMBSTONE"))

(* A live table always has an empty bucket, tombstones counted as filled:  *)
(* every probe loop (none has a round limit) ends.                         *)
ProbesTerminate ==
  m = "live" => Filled(buckets, capacity, "EMPTY") # {}

(* Between calls the load is below the threshold of __cco_map_put.         *)
LoadBelowThreshold ==
  (m = "live" /\ pc = "idle") => (occupied + tombstones) * 10 < capacity * 7

(* The map owns exactly the values it stores, each stored once, and one    *)
(* key copy per entry: nothing is freed twice and nothing is lost, from    *)
(* put over an existing key to the rehash that copies raw pointers.        *)
OwnershipExact ==
  /\ \A s \in Full : owner[buckets[s].value] = "map"
  /\ \A s \in Unmoved : owner[oldBuckets[s].value] = "map"
  /\ Cardinality({v \in Values : owner[v] = "map"}) = Cardinality(Full) + Cardinality(Unmoved)
  /\ keyCopies = IF OwnsKeys THEN Cardinality(Full) + Cardinality(Unmoved) ELSE 0

(* The dictionary the two tables stand for. *)
Contents ==
  [k \in {buckets[s].key : s \in Full} \cup {oldBuckets[s].key : s \in Unmoved} |->
     IF \E s \in Full : buckets[s].key = k
     THEN buckets[CHOOSE s \in Full : buckets[s].key = k].value
     ELSE oldBuckets[CHOOSE s \in Unmoved : oldBuckets[s].key = k].value]

(* The table implements the dictionary: each operation takes effect when   *)
(* it returns, a rehash is invisible.                                      *)
Abstract == INSTANCE Dict WITH
  live <- m = "live", dict <- Contents,
  op <- IF pc \in {"rehash", "insert"} THEN "put" ELSE pc

RefinesDict == Abstract!Spec
=============================================================================
