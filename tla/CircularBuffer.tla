--------------------------- MODULE CircularBuffer ---------------------------
(***************************************************************************)
(* EbCircularBuffer of Codec/sys_resource_manager.c: a fixed array of      *)
(* pointers with a head and a tail index.  A slot that holds no pointer is *)
(* NULL, and that is what tells a full buffer (head = tail, slot taken)    *)
(* from an empty one (head = tail, slot NULL).  Neither push checks that   *)
(* there is room, and the counter current_count is written but never read, *)
(* so it is left out.                                                      *)
(***************************************************************************)
EXTENDS Integers

CONSTANT NULL

(* calloc'ed array: every slot NULL, both indices zero.                     *)
Ctor(size) == [slot |-> [i \in 0..(size - 1) |-> NULL], head |-> 0, tail |-> 0]

Buffers(size, S) ==
    [slot : [0..(size - 1) -> S \cup {NULL}], head : 0..(size - 1), tail : 0..(size - 1)]

(* Faulty variants: the rollover comes one place too late; the head does    *)
(* not move before the slot is written.                                     *)
SuccLate(size, i) == IF i = size THEN 0 ELSE i + 1
PushFrontInPlace(size, b, x) == [b EXCEPT !.slot[b.head] = x]

EmptyCheck(b) == b.head = b.tail /\ b.slot[b.head] = NULL

(* The rollover of an index that moves one place forward or back.           *)
Succ(size, i) == IF i = size - 1 THEN 0 ELSE i + 1
Pred(size, i) == IF i = 0 THEN size - 1 ELSE i - 1

Front(b) == b.slot[b.head]

PopFront(size, b) ==
    [slot |-> [b.slot EXCEPT ![b.head] = NULL],
     head |-> Succ(size, b.head), tail |-> b.tail]

PushBack(size, b, x) ==
    [slot |-> [b.slot EXCEPT ![b.tail] = x],
     head |-> b.head, tail |-> Succ(size, b.tail)]

PushFront(size, b, x) ==
    [slot |-> [b.slot EXCEPT ![Pred(size, b.head)] = x],
     head |-> Pred(size, b.head), tail |-> b.tail]

-----------------------------------------------------------------------------
(* What the buffer holds.                                                   *)
Members(b) == {b.slot[i] : i \in DOMAIN b.slot} \ {NULL}

(* The slots from the head up to, not including, the tail.                  *)
Occupied(b) ==
    {i \in DOMAIN b.slot : \/ b.head =< i /\ i < b.tail
                           \/ b.tail < b.head /\ (b.head =< i \/ i < b.tail)}

(* The taken slots are those from the head to the tail; with head = tail    *)
(* they are all or none.  A push on a full buffer of two or more slots      *)
(* breaks this, and a later pop returns NULL.                               *)
Contiguous(b) ==
    \/ b.head # b.tail /\ \A i \in DOMAIN b.slot : b.slot[i] # NULL <=> i \in Occupied(b)
    \/ b.head = b.tail /\ \A i \in DOMAIN b.slot : b.slot[i] # NULL
    \/ b.head = b.tail /\ \A i \in DOMAIN b.slot : b.slot[i] = NULL

(* No pointer is in two slots.                                              *)
Distinct(b) ==
    \A i, j \in DOMAIN b.slot : (b.slot[i] = b.slot[j] /\ b.slot[i] # NULL) => i = j

(* The members in the order PopFront returns them.                          *)
InOrder(size, b) ==
    LET count == IF EmptyCheck(b) THEN 0
                 ELSE IF b.head < b.tail THEN b.tail - b.head
                 ELSE size + b.tail - b.head
    IN  [k \in 1..count |-> b.slot[(b.head + k - 1) % size]]
=============================================================================
