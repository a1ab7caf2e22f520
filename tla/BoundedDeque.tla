---------------------------- MODULE BoundedDeque ----------------------------
(***************************************************************************)
(* What std/deque.cco promises: a sequence of at most Capacity values,      *)
(* changed at both ends, whose operations answer truthfully.                *)
(***************************************************************************)
EXTENDS Naturals, Sequences

CONSTANTS Values,    \* the integers that are stored
          Capacity,  \* the clamped capacity
          None       \* OptionInt.None

VARIABLES items,   \* the contents, front first
          answer   \* what the last call returned

vars == <<items, answer>>

Init == items = << >> /\ answer = None

PushBack(v) ==
  IF Len(items) < Capacity
  THEN items' = Append(items, v) /\ answer' = TRUE
  ELSE answer' = FALSE /\ UNCHANGED items

PushFront(v) ==
  IF Len(items) < Capacity
  THEN items' = <<v>> \o items /\ answer' = TRUE
  ELSE answer' = FALSE /\ UNCHANGED items

PopFront ==
  IF items # << >>
  THEN answer' = Head(items) /\ items' = Tail(items)
  ELSE answer' = None /\ UNCHANGED items

PopBack ==
  IF items # << >>
  THEN answer' = items[Len(items)] /\ items' = SubSeq(items, 1, Len(items) - 1)
  ELSE answer' = None /\ UNCHANGED items

PeekFront ==
  /\ answer' = IF items # << >> THEN Head(items) ELSE None
  /\ UNCHANGED items

PeekBack ==
  /\ answer' = IF items # << >> THEN items[Len(items)] ELSE None
  /\ UNCHANGED items

Clear == items' = << >> /\ answer' = None

Next ==
  \/ \E v \in Values : PushBack(v) \/ PushFront(v)
  \/ PopFront \/ PopBack \/ PeekFront \/ PeekBack \/ Clear

Spec == Init /\ [][Next]_vars
=============================================================================
