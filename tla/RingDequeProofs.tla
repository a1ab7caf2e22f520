--------------------------- MODULE RingDequeProofs ---------------------------
(***************************************************************************)
(* The ring of std/deque.cco keeps its indices inside the buffer and        *)
(* implements the bounded deque, for every capacity and every value set.    *)
(***************************************************************************)
EXTENDS RingDeque, SequenceTheorems, TLAPS

(* The clamped capacity of deque_new is at least 1.                         *)
LEMMA CapacityPositive == capacity \in Nat /\ capacity >= 1
  BY RequestedAssumption DEF capacity

(* Stepping forward wraps around at the last slot.                          *)
LEMMA Forward ==
  ASSUME NEW s \in Slots
  PROVE  After(s) = IF s + 1 = capacity THEN 0 ELSE s + 1
  <1>1. ASSUME NEW c \in Nat, c >= 1, NEW t \in 0 .. c - 1
        PROVE  (t + 1) % c = IF t + 1 = c THEN 0 ELSE t + 1
    BY Z3
  <1> QED BY <1>1, CapacityPositive DEF After, Slots

(* Stepping back wraps around at slot 0.                                    *)
LEMMA Backward ==
  ASSUME NEW s \in Slots
  PROVE  Before(s) = IF s = 0 THEN capacity - 1 ELSE s - 1
  <1>1. ASSUME NEW c \in Nat, c >= 1, NEW t \in 0 .. c - 1
        PROVE  (t - 1 + c) % c = IF t = 0 THEN c - 1 ELSE t - 1
    BY Z3
  <1> QED BY <1>1, CapacityPositive DEF Before, Slots

Inv == TypeOK /\ TailBehindBack

(* The new ring satisfies the invariant.                                    *)
LEMMA InvInit == Init => Inv
  BY CapacityPositive DEF Init, Inv, TypeOK, TailBehindBack, SlotOf, Slots

(* Every operation preserves it.                                            *)
LEMMA InvNext == Inv /\ [Next]_vars => Inv'
  <1> SUFFICES ASSUME Inv, [Next]_vars PROVE Inv'
    OBVIOUS
  <1> USE CapacityPositive DEF Inv, TypeOK, TailBehindBack, SlotOf, Slots
  <1>1. ASSUME NEW v \in Values, push_back(v) PROVE Inv'
    <2>1. After(tail) = IF tail + 1 = capacity THEN 0 ELSE tail + 1
      BY Forward
    <2>2. answer' \in BOOLEAN
      BY <1>1, Zenon DEF push_back
    <2>3. buffer' \in [Slots -> Values \cup {Zero}]
      BY <1>1 DEF push_back
    <2>4. /\ head' \in Slots /\ tail' \in Slots
          /\ size' \in 0 .. capacity
          /\ TailBehindBack'
      BY <1>1, <2>1 DEF push_back, is_full
    <2> QED BY <2>2, <2>3, <2>4
  <1>2. ASSUME NEW v \in Values, push_front(v) PROVE Inv'
    <2>1. Before(head) = IF head = 0 THEN capacity - 1 ELSE head - 1
      BY Backward
    <2>2. answer' \in BOOLEAN
      BY <1>2, Zenon DEF push_front
    <2>3. buffer' \in [Slots -> Values \cup {Zero}]
      BY <1>2, <2>1 DEF push_front
    <2>4. /\ head' \in Slots /\ tail' \in Slots
          /\ size' \in 0 .. capacity
          /\ TailBehindBack'
      BY <1>2, <2>1 DEF push_front, is_full
    <2> QED BY <2>2, <2>3, <2>4
  <1>3. CASE pop_front_opt
    <2>1. After(head) = IF head + 1 = capacity THEN 0 ELSE head + 1
      BY Forward
    <2> QED BY <1>3, <2>1 DEF pop_front_opt, NothingThere, is_empty
  <1>4. CASE pop_back_opt
    <2>1. Before(tail) = IF tail = 0 THEN capacity - 1 ELSE tail - 1
      BY Backward
    <2> QED BY <1>4, <2>1 DEF pop_back_opt, NothingThere, is_empty
  <1>5. CASE peek_front_opt
    BY <1>5 DEF peek_front_opt, NothingThere, is_empty
  <1>6. CASE peek_back_opt
    <2>1. Before(tail) = IF tail = 0 THEN capacity - 1 ELSE tail - 1
      BY Backward
    <2> QED BY <1>6, <2>1 DEF peek_back_opt, NothingThere, is_empty
  <1>7. CASE clear
    BY <1>7 DEF clear
  <1>8. CASE UNCHANGED vars
    BY <1>8 DEF vars
  <1> QED BY <1>1, <1>2, <1>3, <1>4, <1>5, <1>6, <1>7, <1>8 DEF Next

(* Both hold in every reachable state.                                      *)
THEOREM InvSafe == Spec => []Inv
  BY InvInit, InvNext, PTL DEF Spec

(* No operation indexes outside the buffer.                                 *)
THEOREM TypeSafe == Spec => []TypeOK
  <1>1. Inv => TypeOK BY DEF Inv
  <1> QED BY <1>1, InvSafe, PTL

(* head, tail and size always agree.                                        *)
THEOREM TailSafe == Spec => []TailBehindBack
  <1>1. Inv => TailBehindBack BY DEF Inv
  <1> QED BY <1>1, InvSafe, PTL

-----------------------------------------------------------------------------
(* The refinement *)

Stored == Values \cup {Zero}

(* A ring of n elements that starts in slot h of buffer b, as a sequence.    *)
ItemsOf(b, h, n) ==
  [i \in 1 .. n |-> b[IF h + (i - 1) < capacity THEN h + (i - 1)
                                               ELSE h + (i - 1) - capacity]]

(* It is a sequence of n stored values.                                     *)
LEMMA ItemsOfSeq ==
  ASSUME NEW b \in [Slots -> Stored], NEW h \in Slots, NEW n \in 0 .. capacity
  PROVE  /\ ItemsOf(b, h, n) \in Seq(Stored)
         /\ Len(ItemsOf(b, h, n)) = n
         /\ n = 0 <=> ItemsOf(b, h, n) = << >>
  <1>1. ItemsOf(b, h, n) \in [1 .. n -> Stored]
    BY CapacityPositive DEF ItemsOf, Slots
  <1>2. n \in Nat
    BY CapacityPositive
  <1>3. ItemsOf(b, h, n) \in Seq(Stored) /\ Len(ItemsOf(b, h, n)) = n
    BY <1>1, <1>2
  <1> QED BY <1>3, EmptySeq

(* The refinement mapping is that sequence.                                 *)
LEMMA ItemsIs == Items = ItemsOf(buffer, head, size) /\ Items' = ItemsOf(buffer', head', size')
  BY DEF Items, ItemsOf, SlotOf

(* The new ring is the empty deque.                                         *)
LEMMA RefinesInit == Init => Deque!Init
  <1> SUFFICES ASSUME Init PROVE Deque!Init
    OBVIOUS
  <1>1. buffer \in [Slots -> Stored] /\ head \in Slots /\ size \in 0 .. capacity
    BY CapacityPositive DEF Init, Slots, Stored
  <1>2. size = 0 /\ answer = None
    BY DEF Init
  <1>3. Items = << >>
    BY <1>1, <1>2, ItemsIs, ItemsOfSeq
  <1> QED BY <1>2, <1>3 DEF Deque!Init

(* Inside the ring the i-th item is the content of its slot.                *)
LEMMA ItemsFacts ==
  ASSUME Inv
  PROVE  /\ Items \in Seq(Stored)
         /\ Len(Items) = size
         /\ size = 0 <=> Items = << >>
         /\ \A i \in 1 .. size : Items[i] = buffer[SlotOf(i - 1)]
  <1>1. buffer \in [Slots -> Stored] /\ head \in Slots /\ size \in 0 .. capacity
    BY DEF Inv, TypeOK, Stored
  <1>2. \A i \in 1 .. size : Items[i] = buffer[SlotOf(i - 1)]
    BY DEF Items
  <1> QED BY <1>1, <1>2, ItemsIs, ItemsOfSeq

(* The same after a step.                                                   *)
LEMMA ItemsFactsPrime ==
  ASSUME Inv'
  PROVE  /\ Items' \in Seq(Stored)
         /\ Len(Items') = size'
         /\ size' = 0 <=> Items' = << >>
         /\ \A i \in 1 .. size' : Items'[i] = buffer'[SlotOf(i - 1)']
  <1>1. buffer' \in [Slots -> Stored] /\ head' \in Slots /\ size' \in 0 .. capacity
    BY DEF Inv, TypeOK, Stored, Slots, capacity
  <1>2. \A i \in 1 .. size' : Items'[i] = buffer'[SlotOf(i - 1)']
    BY DEF Items
  <1> QED BY <1>1, <1>2, ItemsIs, ItemsOfSeq

(* Every operation of the ring is the same operation of the deque.          *)
LEMMA RefinesNext == Inv /\ Inv' /\ [Next]_vars => [Deque!Next]_(Deque!vars)
  <1> SUFFICES ASSUME Inv, Inv', [Next]_vars PROVE [Deque!Next]_(Deque!vars)
    OBVIOUS
  <1>a. /\ Items \in Seq(Stored) /\ Len(Items) = size
        /\ size = 0 <=> Items = << >>
        /\ \A i \in 1 .. size : Items[i] = buffer[SlotOf(i - 1)]
    BY ItemsFacts
  <1>b. /\ Items' \in Seq(Stored) /\ Len(Items') = size'
        /\ size' = 0 <=> Items' = << >>
        /\ \A i \in 1 .. size' : Items'[i] = buffer'[SlotOf(i - 1)']
    BY ItemsFactsPrime
  <1>c. /\ head \in Slots /\ tail \in Slots /\ size \in 0 .. capacity
        /\ buffer \in [Slots -> Stored]
        /\ tail = IF size = capacity THEN head
                  ELSE IF head + size < capacity THEN head + size ELSE head + size - capacity
    BY CapacityPositive DEF Inv, TypeOK, TailBehindBack, SlotOf, Slots, Stored
  <1>d. ASSUME UNCHANGED <<buffer, head, tail, size>> PROVE Items' = Items
    BY <1>d DEF Items, SlotOf
  <1>1. ASSUME NEW v \in Values, push_back(v) PROVE Deque!PushBack(v)
    <2>1. CASE is_full
      BY <1>1, <2>1, <1>a, <1>c, <1>d, CapacityPositive DEF push_back, is_full, Deque!PushBack
    <2>2. CASE ~is_full
      <3>1. /\ size < capacity /\ size' = size + 1 /\ answer' = TRUE /\ head' = head
            /\ buffer' = [buffer EXCEPT ![tail] = v]
        BY <1>1, <2>2, <1>c, CapacityPositive DEF push_back, is_full
      <3>2. \A i \in 1 .. size : Items'[i] = Items[i]
        <4> SUFFICES ASSUME NEW i \in 1 .. size PROVE Items'[i] = Items[i]
          OBVIOUS
        <4>1. SlotOf(i - 1) # tail /\ SlotOf(i - 1) \in Slots /\ SlotOf(i - 1)' = SlotOf(i - 1)
          BY <1>c, <3>1, CapacityPositive DEF SlotOf, Slots
        <4>2. i \in 1 .. size'
          BY <3>1, <1>c, CapacityPositive
        <4> QED BY <4>1, <4>2, <3>1, <1>a, <1>b, <1>c
      <3>3. Items'[size + 1] = v
        <4>1. PICK n \in 0 .. capacity : n = size
          BY <1>c
        <4>2. SlotOf(n)' = tail
          BY <1>c, <3>1, <4>1, CapacityPositive DEF SlotOf, Slots
        <4>3. n + 1 \in 1 .. size' /\ (n + 1) - 1 = n
          BY <3>1, <4>1, CapacityPositive
        <4>4. Items'[n + 1] = buffer'[SlotOf(n)']
          BY <4>3, <1>b
        <4> QED BY <4>1, <4>2, <4>4, <3>1, <1>c
      <3>4. Items' = Append(Items, v)
        <4>1. /\ Append(Items, v) \in Seq(Stored)
              /\ Len(Append(Items, v)) = size + 1
              /\ \A i \in 1 .. size : Append(Items, v)[i] = Items[i]
              /\ Append(Items, v)[size + 1] = v
          BY <1>a, AppendProperties DEF Stored
        <4>2. \A i \in 1 .. Len(Items') : Items'[i] = Append(Items, v)[i]
          BY <4>1, <3>1, <3>2, <3>3, <1>b, <1>c
        <4> QED BY <4>1, <4>2, <3>1, <1>b, SeqEqual
      <3> QED BY <3>1, <3>4, <1>a DEF Deque!PushBack
    <2> QED BY <2>1, <2>2
  <1>2. ASSUME NEW v \in Values, push_front(v) PROVE Deque!PushFront(v)
    <2>1. CASE is_full
      BY <1>2, <2>1, <1>a, <1>c, <1>d, CapacityPositive DEF push_front, is_full, Deque!PushFront
    <2>2. CASE ~is_full
      <3>1. /\ size < capacity /\ size' = size + 1 /\ answer' = TRUE
            /\ head' = Before(head) /\ buffer' = [buffer EXCEPT ![head'] = v]
        BY <1>2, <2>2, <1>c, CapacityPositive DEF push_front, is_full
      <3>2. head' \in Slots /\ head' = IF head = 0 THEN capacity - 1 ELSE head - 1
        BY <3>1, <1>c, Backward, CapacityPositive DEF Slots
      <3>3. \A i \in 1 .. size : Items'[i + 1] = Items[i]
        <4> SUFFICES ASSUME NEW i \in 1 .. size PROVE Items'[i + 1] = Items[i]
          OBVIOUS
        <4>1. /\ SlotOf(i - 1) # head' /\ SlotOf(i - 1) \in Slots
              /\ SlotOf(i)' = SlotOf(i - 1)
          BY <1>c, <3>1, <3>2, CapacityPositive DEF SlotOf, Slots
        <4>2. i + 1 \in 1 .. size' /\ (i + 1) - 1 = i
          BY <3>1, <1>c, CapacityPositive
        <4>3. Items'[i + 1] = buffer'[SlotOf(i)']
          BY <4>2, <1>b
        <4> QED BY <4>1, <4>3, <3>1, <1>a, <1>c
      <3>4. Items'[1] = v
        <4>1. SlotOf(0)' = head'
          BY <1>c, <3>2, CapacityPositive DEF SlotOf, Slots
        <4>2. 1 \in 1 .. size' /\ 1 - 1 = 0
          BY <3>1, <1>c, CapacityPositive
        <4>3. Items'[1] = buffer'[SlotOf(0)']
          BY <4>2, <1>b
        <4> QED BY <4>1, <4>3, <3>1, <3>2, <1>c
      <3>5. Items' = <<v>> \o Items
        <4>1. <<v>> \in Seq(Stored) /\ Len(<<v>>) = 1 /\ <<v>>[1] = v
          BY DEF Stored
        <4>2. /\ <<v>> \o Items \in Seq(Stored)
              /\ Len(<<v>> \o Items) = 1 + size
              /\ \A i \in 1 .. 1 + size : (<<v>> \o Items)[i] =
                                           IF i <= 1 THEN <<v>>[i] ELSE Items[i - 1]
          BY <4>1, <1>a, ConcatProperties
        <4>3. ASSUME NEW i \in 1 .. Len(Items') PROVE Items'[i] = (<<v>> \o Items)[i]
          <5>1. i \in 1 .. 1 + size
            BY <3>1, <1>b, <1>c, CapacityPositive
          <5>2. CASE i = 1
            BY <5>1, <5>2, <4>1, <4>2, <3>4
          <5>3. CASE i # 1
            <6>1. i - 1 \in 1 .. size /\ (i - 1) + 1 = i /\ ~(i <= 1)
              BY <5>1, <5>3, <1>c, CapacityPositive
            <6>2. Items'[i] = Items[i - 1]
              BY <6>1, <3>3
            <6> QED BY <5>1, <6>1, <6>2, <4>2
          <5> QED BY <5>2, <5>3
        <4>4. Len(Items') = Len(<<v>> \o Items)
          BY <4>2, <3>1, <1>b, <1>c, CapacityPositive
        <4> QED BY <4>2, <4>3, <4>4, <1>b, SeqEqual
      <3> QED BY <3>1, <3>5, <1>a DEF Deque!PushFront
    <2> QED BY <2>1, <2>2
  <1>3. ASSUME NothingThere PROVE answer' = None /\ Items' = Items /\ Items = << >>
    BY <1>3, <1>a, <1>d DEF NothingThere, is_empty
  <1>4. ASSUME ~is_empty
        PROVE  /\ Items # << >> /\ Head(Items) = buffer[head]
               /\ Items[Len(Items)] = buffer[Before(tail)]
    <2>1. Items # << >> /\ size \in 1 .. capacity
      BY <1>4, <1>a, <1>c, CapacityPositive DEF is_empty
    <2>2. SlotOf(0) = head /\ SlotOf(size - 1) = Before(tail)
      <3>1. Before(tail) = IF tail = 0 THEN capacity - 1 ELSE tail - 1
        BY <1>c, Backward
      <3> QED BY <3>1, <2>1, <1>c, CapacityPositive DEF SlotOf, Slots
    <2>3. Items[1] = buffer[SlotOf(0)] /\ Items[size] = buffer[SlotOf(size - 1)]
      <3>1. 1 \in 1 .. size /\ size \in 1 .. size /\ 1 - 1 = 0
        BY <2>1, CapacityPositive
      <3> QED BY <3>1, <1>a
    <2>4. Head(Items) = Items[1]
      BY <1>a, <2>1
    <2> QED BY <2>1, <2>2, <2>3, <2>4, <1>a
  <1>5. ASSUME pop_front_opt PROVE Deque!PopFront
    <2>1. CASE NothingThere
      BY <2>1, <1>3 DEF Deque!PopFront
    <2>2. CASE ~is_empty
      <3>1. answer' = buffer[head] /\ head' = After(head) /\ size' = size - 1 /\ buffer' = buffer
        BY <1>5, <2>2 DEF pop_front_opt, NothingThere
      <3>2. head' = IF head + 1 = capacity THEN 0 ELSE head + 1
        BY <3>1, <1>c, Forward
      <3>3. Items # << >> /\ size \in 1 .. capacity
        BY <2>2, <1>4, <1>a, <1>c, CapacityPositive
      <3>4. /\ Tail(Items) \in Seq(Stored) /\ Len(Tail(Items)) = size - 1
            /\ \A i \in 1 .. size - 1 : Tail(Items)[i] = Items[i + 1]
        BY <3>3, <1>a, HeadTailProperties
      <3>5. ASSUME NEW i \in 1 .. Len(Items') PROVE Items'[i] = Tail(Items)[i]
        <4>1. i \in 1 .. size' /\ i \in 1 .. size - 1 /\ i + 1 \in 1 .. size /\ (i + 1) - 1 = i
          BY <3>1, <3>3, <1>b, CapacityPositive
        <4>2. SlotOf(i - 1)' = SlotOf(i)
          BY <4>1, <3>2, <3>3, <1>c, CapacityPositive DEF SlotOf, Slots
        <4>3. Items'[i] = buffer[SlotOf(i)] /\ Items[i + 1] = buffer[SlotOf(i)]
          BY <4>1, <4>2, <3>1, <1>a, <1>b
        <4> QED BY <4>1, <4>3, <3>4
      <3>6. Items' = Tail(Items)
        BY <3>1, <3>4, <3>5, <1>b, SeqEqual
      <3> QED BY <3>1, <3>3, <3>6, <2>2, <1>4 DEF Deque!PopFront
    <2> QED BY <1>5, <2>1, <2>2 DEF pop_front_opt
  <1>6. ASSUME pop_back_opt PROVE Deque!PopBack
    <2>1. CASE NothingThere
      BY <2>1, <1>3 DEF Deque!PopBack
    <2>2. CASE ~is_empty
      <3>1. /\ answer' = buffer[Before(tail)]
            /\ head' = head /\ size' = size - 1 /\ buffer' = buffer
        BY <1>6, <2>2 DEF pop_back_opt, NothingThere
      <3>2. Items # << >> /\ size \in 1 .. capacity
        BY <2>2, <1>4, <1>a, <1>c, CapacityPositive
      <3>3. \A i \in 1 .. size - 1 : Items[i] \in Stored
        BY <1>a, <3>2, CapacityPositive, ElementOfSeq
      <3>4. /\ SubSeq(Items, 1, size - 1) \in Seq(Stored)
            /\ Len(SubSeq(Items, 1, size - 1)) = size - 1
            /\ \A i \in 1 .. size - 1 : SubSeq(Items, 1, size - 1)[i] = Items[i]
        <4>1. size - 1 \in Int /\ 1 \in Int /\ (size - 1) - 1 + 1 = size - 1
          BY <3>2, CapacityPositive
        <4>2. /\ SubSeq(Items, 1, size - 1) \in Seq(Stored)
              /\ Len(SubSeq(Items, 1, size - 1)) = IF 1 <= size - 1 THEN (size - 1) - 1 + 1 ELSE 0
              /\ \A i \in 1 .. (size - 1) - 1 + 1 : SubSeq(Items, 1, size - 1)[i] = Items[1 + i - 1]
          BY <3>3, <4>1, SubSeqProperties
        <4>3. ASSUME NEW i \in 1 .. size - 1 PROVE 1 + i - 1 = i
          BY <3>2, CapacityPositive
        <4> QED BY <4>1, <4>2, <4>3, <3>2, CapacityPositive
      <3>5. ASSUME NEW i \in 1 .. Len(Items') PROVE Items'[i] = SubSeq(Items, 1, size - 1)[i]
        <4>1. i \in 1 .. size' /\ i \in 1 .. size - 1 /\ i \in 1 .. size
          BY <3>1, <3>2, <1>b, CapacityPositive
        <4>2. SlotOf(i - 1)' = SlotOf(i - 1)
          BY <3>1 DEF SlotOf
        <4>3. Items'[i] = Items[i]
          BY <4>1, <4>2, <3>1, <1>a, <1>b
        <4> QED BY <4>1, <4>3, <3>4
      <3>6. Items' = SubSeq(Items, 1, size - 1)
        BY <3>1, <3>4, <3>5, <1>b, SeqEqual
      <3> QED BY <3>1, <3>2, <3>6, <2>2, <1>4, <1>a DEF Deque!PopBack
    <2> QED BY <1>6, <2>1, <2>2 DEF pop_back_opt
  <1>7. ASSUME peek_front_opt PROVE Deque!PeekFront
    <2>1. CASE NothingThere
      BY <2>1, <1>3 DEF Deque!PeekFront
    <2>2. CASE ~is_empty
      BY <1>7, <2>2, <1>4, <1>d DEF peek_front_opt, NothingThere, Deque!PeekFront
    <2> QED BY <1>7, <2>1, <2>2 DEF peek_front_opt
  <1>8. ASSUME peek_back_opt PROVE Deque!PeekBack
    <2>1. CASE NothingThere
      BY <2>1, <1>3 DEF Deque!PeekBack
    <2>2. CASE ~is_empty
      BY <1>8, <2>2, <1>4, <1>d DEF peek_back_opt, NothingThere, Deque!PeekBack
    <2> QED BY <1>8, <2>1, <2>2 DEF peek_back_opt
  <1>9. ASSUME clear PROVE Deque!Clear
    BY <1>9, <1>b DEF clear, Deque!Clear
  <1>10. CASE UNCHANGED vars
    BY <1>10, <1>d DEF vars, Deque!vars
  <1> QED BY <1>1, <1>2, <1>5, <1>6, <1>7, <1>8, <1>9, <1>10 DEF Next, Deque!Next

(* The ring of std/deque.cco implements the bounded deque at every          *)
(* capacity: RefinesDeque, of which the run checks one instance.            *)
THEOREM Refinement == Spec => RefinesDeque
  BY RefinesInit, RefinesNext, InvSafe, PTL DEF Spec, RefinesDeque, Deque!Spec
=============================================================================
