------------------------------ MODULE RingDeque ------------------------------
(***************************************************************************)
(* The fixed-capacity ring of std/deque.cco: a buffer, the slot of the      *)
(* front (head), the slot behind the back (tail) and the number of          *)
(* elements.  The _opt operations are modelled; the plain ones return -1    *)
(* where these return OptionInt.None and change the fields alike.           *)
(***************************************************************************)
EXTENDS Integers

CONSTANTS Values,     \* the integers that are stored
          Requested,  \* the argument of deque_new
          Zero,       \* the content of a slot that was never written
          None        \* OptionInt.None

ASSUME RequestedAssumption == Requested \in Int

VARIABLES buffer, head, tail, size,   \* the fields of RingDeque
          answer                      \* what the last call returned

vars == <<buffer, head, tail, size, answer>>

\* deque_new clamps the capacity to at least 1.
capacity == IF Requested <= 0 THEN 1 ELSE Requested

Slots == 0 .. capacity - 1

is_full == size = capacity
is_empty == size = 0

\* (s + 1) % capacity
After(s) == (s + 1) % capacity

\* Mutant: (s - 1) % capacity in C, which is -1 for s = 0.
BeforeTruncated(s) == s - 1

\* (s - 1 + capacity) % capacity
Before(s) == (s - 1 + capacity) % capacity

\* deque_new clears the slots.
Init ==
  /\ buffer = [s \in Slots |-> Zero]
  /\ head = 0 /\ tail = 0 /\ size = 0
  /\ answer = None

push_back(v) ==
  \/ is_full /\ answer' = FALSE /\ UNCHANGED <<buffer, head, tail, size>>
  \/ /\ ~is_full
     /\ buffer' = [buffer EXCEPT ![tail] = v]
     /\ tail' = After(tail)
     /\ size' = size + 1
     /\ answer' = TRUE
     /\ UNCHANGED head

push_front(v) ==
  \/ is_full /\ answer' = FALSE /\ UNCHANGED <<buffer, head, tail, size>>
  \/ /\ ~is_full
     /\ head' = Before(head)
     /\ buffer' = [buffer EXCEPT ![head'] = v]
     /\ size' = size + 1
     /\ answer' = TRUE
     /\ UNCHANGED tail

NothingThere == is_empty /\ answer' = None /\ UNCHANGED <<buffer, head, tail, size>>

pop_front_opt ==
  \/ NothingThere
  \/ /\ ~is_empty
     /\ answer' = buffer[head]
     /\ head' = After(head)
     /\ size' = size - 1
     /\ UNCHANGED <<buffer, tail>>

\* Mutant: the slot behind the back is read before tail is moved.
PopBackReadsTail ==
  /\ ~is_empty
  /\ answer' = buffer[tail]
  /\ tail' = Before(tail)
  /\ size' = size - 1
  /\ UNCHANGED <<buffer, head>>

pop_back_opt ==
  \/ NothingThere
  \/ /\ ~is_empty
     /\ tail' = Before(tail)
     /\ answer' = buffer[tail']
     /\ size' = size - 1
     /\ UNCHANGED <<buffer, head>>

peek_front_opt ==
  \/ NothingThere
  \/ ~is_empty /\ answer' = buffer[head] /\ UNCHANGED <<buffer, head, tail, size>>

peek_back_opt ==
  \/ NothingThere
  \/ ~is_empty /\ answer' = buffer[Before(tail)] /\ UNCHANGED <<buffer, head, tail, size>>

clear ==
  /\ head' = 0 /\ tail' = 0 /\ size' = 0
  /\ answer' = None
  /\ UNCHANGED buffer

Next ==
  \/ \E v \in Values : push_back(v) \/ push_front(v)
  \/ pop_front_opt \/ pop_back_opt \/ peek_front_opt \/ peek_back_opt \/ clear

Spec == Init /\ [][Next]_vars

-----------------------------------------------------------------------------
\* Every field has its type, and both indices are slots of the buffer: no
\* operation of std/deque.cco indexes out of bounds.
TypeOK ==
  /\ buffer \in [Slots -> Values \cup {Zero}]
  /\ head \in Slots /\ tail \in Slots
  /\ size \in 0 .. capacity
  /\ answer \in Values \cup {Zero, None} \cup BOOLEAN

\* The slot of the i-th element behind the front, for i below capacity.
SlotOf(i) == IF head + i < capacity THEN head + i ELSE head + i - capacity

\* head, tail and size agree: tail is the slot behind the last element, so a
\* full ring and an empty one, where head = tail, are told apart by size only.
TailBehindBack == tail = SlotOf(IF size = capacity THEN 0 ELSE size)

\* The ring implements the bounded deque: what was pushed is popped, in
\* order, at either end, across every wrap-around.
Items == [i \in 1 .. size |-> buffer[SlotOf(i - 1)]]
Deque == INSTANCE BoundedDeque WITH items <- Items, Capacity <- capacity
RefinesDeque == Deque!Spec
=============================================================================
