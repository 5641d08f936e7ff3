----------------------- MODULE SystemResourceProofs -----------------------
(***************************************************************************)
(* For any number of wrappers and threads: the types, ObjectConservation,  *)
(* LiveCountAgrees, NoNullPop, DropIsCurrent and NoLostWakeup are          *)
(* invariants of Spec.                                                     *)
(*                                                                         *)
(* None is inductive alone.  That a pop from a circular buffer returns a   *)
(* pointer needs that the buffer never overflowed; for an object queue     *)
(* this follows from conservation (a wrapper that is pushed is nowhere     *)
(* else), for a process queue from the fact that a thread registers only   *)
(* while it is not registered (or is the only consumer).  Conservation     *)
(* needs the live counts to agree with the references, and the semaphore   *)
(* count needs the muxing queue to be locked by one thread.  IInv is the   *)
(* conjunction of all of it.                                               *)
(*                                                                         *)
(* The lemmas on the circular buffer come first; that a system resource    *)
(* implements the pool and the channel comes last.                         *)
(***************************************************************************)
EXTENDS SystemResource, FiniteSets, FiniteSetTheorems, SequenceTheorems, TLAPS

-----------------------------------------------------------------------------
(* The operations of a circular buffer with n slots for the members of S.   *)

\* Well formed means typed, contiguous and distinct.
WellFormed(n, S, b) == b \in Buffers(n, S) /\ Contiguous(b) /\ Distinct(b)

\* What lies in a well-formed ring is of the ring's set.
LEMMA MembersIn ==
    ASSUME NEW n \in Nat, NEW S, NEW b, WellFormed(n, S, b)
    PROVE  Members(b) \subseteq S
  BY DEF WellFormed, Buffers, Members

(* A new buffer is well formed and empty.                                   *)
LEMMA CtorOK ==
    ASSUME NEW n \in Nat \ {0}, NEW S
    PROVE  WellFormed(n, S, Ctor(n)) /\ Members(Ctor(n)) = {}
  BY DEF WellFormed, Ctor, Buffers, Contiguous, Distinct, Occupied, Members

(* svt_circular_buffer_empty_check looks at one slot and tells whether      *)
(* there is any member.                                                     *)
LEMMA EmptyCheckOK ==
    ASSUME NEW n \in Nat \ {0}, NEW S, NEW b, WellFormed(n, S, b)
    PROVE  EmptyCheck(b) <=> Members(b) = {}
<1> USE DEF WellFormed, Buffers
<1>1. ASSUME EmptyCheck(b)
      PROVE  Members(b) = {}
  BY <1>1 DEF EmptyCheck, Contiguous, Members
<1>2. ASSUME ~EmptyCheck(b)
      PROVE  b.slot[b.head] # NULL
  BY <1>2 DEF EmptyCheck, Contiguous, Occupied
<1> QED BY <1>1, <1>2 DEF Members

(* svt_circular_buffer_pop_front after a failed empty check: a member is    *)
(* returned and exactly that one leaves.                                    *)
LEMMA PopFrontOK ==
    ASSUME NEW n \in Nat \ {0}, NEW S, NULL \notin S,
           NEW b, WellFormed(n, S, b), ~EmptyCheck(b)
    PROVE  /\ Front(b) \in S /\ Front(b) \in Members(b)
           /\ WellFormed(n, S, PopFront(n, b))
           /\ Members(PopFront(n, b)) = Members(b) \ {Front(b)}
<1> USE DEF WellFormed, Buffers
<1> DEFINE c == PopFront(n, b)
<1>1. /\ c.head = Succ(n, b.head) /\ c.tail = b.tail
      /\ c.slot = [b.slot EXCEPT ![b.head] = NULL]
      /\ c \in Buffers(n, S)
      /\ DOMAIN c.slot = 0..(n - 1) /\ DOMAIN b.slot = 0..(n - 1)
  BY DEF PopFront, Succ
<1>2. b.slot[b.head] # NULL
  BY DEF EmptyCheck, Contiguous, Occupied
<1>3. Front(b) \in S /\ Front(b) \in Members(b)
  BY <1>2 DEF Front, Members
<1>4. Distinct(c)
  BY <1>1 DEF Distinct
<1>5. Members(c) = Members(b) \ {Front(b)}
  BY <1>1, <1>2 DEF Members, Front, Distinct
<1>6. Contiguous(c)
  <2>1. CASE b.head = b.tail
    <3>1. \A i \in 0..(n - 1) : c.slot[i] # NULL <=> i # b.head
      BY <1>1, <1>2, <2>1 DEF Contiguous
    <3>2. CASE n = 1
      BY <1>1, <3>1, <3>2, <2>1 DEF Contiguous, Succ
    <3>3. CASE n # 1
      <4>1. c.head # c.tail
        BY <1>1, <2>1, <3>3 DEF Succ
      <4>2. \A i \in 0..(n - 1) : i \in Occupied(c) <=> i # b.head
        BY <1>1, <2>1, <3>3 DEF Succ, Occupied
      <4> QED BY <1>1, <3>1, <4>1, <4>2 DEF Contiguous
    <3> QED BY <3>2, <3>3
  <2>2. CASE b.head # b.tail
    <3>1. \A i \in 0..(n - 1) : c.slot[i] # NULL <=> i \in Occupied(b) /\ i # b.head
      BY <1>1, <2>2 DEF Contiguous
    <3>2. CASE c.head = c.tail
      <4>1. \A i \in 0..(n - 1) : i \in Occupied(b) => i = b.head
        BY <1>1, <2>2, <3>2 DEF Succ, Occupied
      <4> QED BY <1>1, <3>1, <3>2, <4>1 DEF Contiguous
    <3>3. CASE c.head # c.tail
      <4>1. \A i \in 0..(n - 1) : i \in Occupied(c) <=> i \in Occupied(b) /\ i # b.head
        BY <1>1, <2>2, <3>3 DEF Succ, Occupied
      <4> QED BY <1>1, <3>1, <3>3, <4>1 DEF Contiguous
    <3> QED BY <3>2, <3>3
  <2> QED BY <2>1, <2>2
<1> QED BY <1>1, <1>3, <1>4, <1>5, <1>6

(* There is room for a pointer that is not in the buffer when the buffer    *)
(* has a slot for every member of S.                                        *)
LEMMA Room ==
    ASSUME NEW n \in Nat \ {0}, NEW S, IsFiniteSet(S), Cardinality(S) = n, NULL \notin S,
           NEW b, WellFormed(n, S, b), NEW x \in S, x \notin Members(b)
    PROVE  \E i \in 0..(n - 1) : b.slot[i] = NULL
<1> USE DEF WellFormed, Buffers
<1> SUFFICES ASSUME \A i \in 0..(n - 1) : b.slot[i] # NULL
             PROVE  FALSE
  OBVIOUS
<1> DEFINE T == S \ {x}
<1>1. IsFiniteSet(T) /\ Cardinality(T) = n - 1
  BY FS_RemoveElement
<1>2. IsFiniteSet(0..(n - 1)) /\ Cardinality(0..(n - 1)) = n
  BY FS_Interval
<1>3. b.slot \in [0..(n - 1) -> T]
  BY DEF Members
<1>4. PICK i, j \in 0..(n - 1) : i # j /\ b.slot[i] = b.slot[j]
  <2>1. Cardinality(T) < Cardinality(0..(n - 1))
    BY <1>1, <1>2
  <2> DEFINE D == 0..(n - 1)
             f == b.slot
  <2>2. f \in [D -> T] /\ IsFiniteSet(D) /\ IsFiniteSet(T) /\ Cardinality(T) < Cardinality(D)
    BY <1>1, <1>2, <1>3, <2>1
  <2> HIDE DEF D, f, T
  <2>3. \E i, j \in D : i # j /\ f[i] = f[j]
    BY <2>2, FS_PigeonHole
  <2> QED BY <2>3 DEF D, f
<1> QED BY <1>4 DEF Distinct

(* svt_circular_buffer_push_back on a buffer with room.                     *)
LEMMA PushBackOK ==
    ASSUME NEW n \in Nat \ {0}, NEW S, NULL \notin S,
           NEW b, WellFormed(n, S, b), NEW x \in S, x \notin Members(b),
           \E i \in 0..(n - 1) : b.slot[i] = NULL
    PROVE  /\ WellFormed(n, S, PushBack(n, b, x))
           /\ Members(PushBack(n, b, x)) = Members(b) \cup {x}
<1> USE DEF WellFormed, Buffers
<1> DEFINE c == PushBack(n, b, x)
<1>1. /\ c.head = b.head /\ c.tail = Succ(n, b.tail)
      /\ c.slot = [b.slot EXCEPT ![b.tail] = x]
      /\ c \in Buffers(n, S)
      /\ DOMAIN c.slot = 0..(n - 1) /\ DOMAIN b.slot = 0..(n - 1)
  BY DEF PushBack, Succ
<1>2. b.slot[b.tail] = NULL
  BY DEF Contiguous, Occupied
<1>3. Distinct(c)
  BY <1>1, <1>2 DEF Distinct, Members
<1>4. Members(c) = Members(b) \cup {x}
  BY <1>1, <1>2 DEF Members
<1>5. Contiguous(c)
  <2>1. CASE b.head = b.tail
    <3>1. \A i \in 0..(n - 1) : c.slot[i] # NULL <=> i = b.tail
      BY <1>1, <1>2, <2>1 DEF Contiguous
    <3>2. CASE n = 1
      BY <1>1, <3>1, <3>2, <2>1 DEF Contiguous, Succ
    <3>3. CASE n # 1
      <4>1. c.head # c.tail /\ \A i \in 0..(n - 1) : i \in Occupied(c) <=> i = b.tail
        BY <1>1, <2>1, <3>3 DEF Succ, Occupied
      <4> QED BY <1>1, <3>1, <4>1 DEF Contiguous
    <3> QED BY <3>2, <3>3
  <2>2. CASE b.head # b.tail
    <3>1. \A i \in 0..(n - 1) : c.slot[i] # NULL <=> i \in Occupied(b) \/ i = b.tail
      BY <1>1, <2>2 DEF Contiguous
    <3>2. CASE c.head = c.tail
      <4>1. \A i \in 0..(n - 1) : i \in Occupied(b) \/ i = b.tail
        BY <1>1, <2>2, <3>2 DEF Succ, Occupied
      <4> QED BY <1>1, <3>1, <3>2, <4>1 DEF Contiguous
    <3>3. CASE c.head # c.tail
      <4>1. \A i \in 0..(n - 1) : i \in Occupied(c) <=> i \in Occupied(b) \/ i = b.tail
        BY <1>1, <2>2, <3>3 DEF Succ, Occupied
      <4> QED BY <1>1, <3>1, <3>3, <4>1 DEF Contiguous
    <3> QED BY <3>2, <3>3
  <2> QED BY <2>1, <2>2
<1> QED BY <1>1, <1>3, <1>4, <1>5

(* svt_circular_buffer_push_front on a buffer with room.                    *)
LEMMA PushFrontOK ==
    ASSUME NEW n \in Nat \ {0}, NEW S, NULL \notin S,
           NEW b, WellFormed(n, S, b), NEW x \in S, x \notin Members(b),
           \E i \in 0..(n - 1) : b.slot[i] = NULL
    PROVE  /\ WellFormed(n, S, PushFront(n, b, x))
           /\ Members(PushFront(n, b, x)) = Members(b) \cup {x}
<1> USE DEF WellFormed, Buffers
<1> DEFINE c == PushFront(n, b, x)
           h == Pred(n, b.head)
<1>1. /\ c.head = h /\ c.tail = b.tail /\ h \in 0..(n - 1)
      /\ c.slot = [b.slot EXCEPT ![h] = x]
      /\ c \in Buffers(n, S)
      /\ DOMAIN c.slot = 0..(n - 1) /\ DOMAIN b.slot = 0..(n - 1)
  BY DEF PushFront, Pred
<1>2. b.slot[h] = NULL
  <2>1. b.head # b.tail => h \notin Occupied(b)
    BY DEF Occupied, Pred
  <2> QED BY <1>1, <2>1 DEF Contiguous
<1>3. Distinct(c)
  BY <1>1, <1>2 DEF Distinct, Members
<1>4. Members(c) = Members(b) \cup {x}
  BY <1>1, <1>2 DEF Members
<1>5. Contiguous(c)
  <2>1. CASE b.head = b.tail
    <3>1. \A i \in 0..(n - 1) : c.slot[i] # NULL <=> i = h
      BY <1>1, <1>2, <2>1 DEF Contiguous
    <3>2. CASE n = 1
      BY <1>1, <3>1, <3>2, <2>1 DEF Contiguous, Pred
    <3>3. CASE n # 1
      <4>1. c.head # c.tail /\ \A i \in 0..(n - 1) : i \in Occupied(c) <=> i = h
        BY <1>1, <2>1, <3>3 DEF Pred, Occupied
      <4> QED BY <1>1, <3>1, <4>1 DEF Contiguous
    <3> QED BY <3>2, <3>3
  <2>2. CASE b.head # b.tail
    <3>1. \A i \in 0..(n - 1) : c.slot[i] # NULL <=> i \in Occupied(b) \/ i = h
      BY <1>1, <2>2 DEF Contiguous
    <3>2. CASE c.head = c.tail
      <4>1. \A i \in 0..(n - 1) : i \in Occupied(b) \/ i = h
        BY <1>1, <2>2, <3>2 DEF Pred, Occupied
      <4> QED BY <1>1, <3>1, <3>2, <4>1 DEF Contiguous
    <3>3. CASE c.head # c.tail
      <4>1. \A i \in 0..(n - 1) : i \in Occupied(c) <=> i \in Occupied(b) \/ i = h
        BY <1>1, <2>2, <3>3 DEF Pred, Occupied
      <4> QED BY <1>1, <3>1, <3>3, <4>1 DEF Contiguous
    <3> QED BY <3>2, <3>3
  <2> QED BY <2>1, <2>2
<1> QED BY <1>1, <1>3, <1>4, <1>5

(* A single slot may be pushed again: the pointer in it is replaced.  This  *)
(* is what makes repeated polling by the only consumer harmless.            *)
LEMMA PushSingleOK ==
    ASSUME NEW S, NULL \notin S, NEW b, WellFormed(1, S, b), NEW x \in S
    PROVE  /\ WellFormed(1, S, PushFront(1, b, x))
           /\ Members(PushFront(1, b, x)) = {x}
  BY DEF WellFormed, Buffers, PushFront, Pred, Contiguous, Distinct, Members

-----------------------------------------------------------------------------
(* The order of the members.                                                *)

(* The rollover of InOrder is that of Succ.                                 *)
LEMMA Rollover ==
    ASSUME NEW n \in Nat \ {0}, NEW i \in 0..(n + n - 1)
    PROVE  i % n = IF i < n THEN i ELSE i - n
  OBVIOUS

Count(n, b) == IF EmptyCheck(b) THEN 0
               ELSE IF b.head < b.tail THEN b.tail - b.head
               ELSE n + b.tail - b.head

Place(n, b, k) == IF b.head + k - 1 < n THEN b.head + k - 1 ELSE b.head + k - 1 - n

\* The contents of a well-formed ring in order: as many elements as are counted,
\* each of the set, from the head on with wrap-around.
LEMMA InOrderOK ==
    ASSUME NEW n \in Nat \ {0}, NEW S, NULL \notin S, NEW b, WellFormed(n, S, b)
    PROVE  /\ InOrder(n, b) \in Seq(S) /\ Count(n, b) \in 0..n
           /\ Len(InOrder(n, b)) = Count(n, b)
           /\ \A k \in 1..Count(n, b) :
                 InOrder(n, b)[k] = b.slot[Place(n, b, k)] /\ b.slot[Place(n, b, k)] \in S
<1> USE DEF WellFormed, Buffers
<1>1. Count(n, b) \in 0..n
  BY DEF Count
<1>2. ASSUME NEW k \in 1..Count(n, b)
      PROVE  (b.head + k - 1) % n = Place(n, b, k) /\ b.slot[Place(n, b, k)] \in S
  <2>1. b.head + k - 1 \in 0..(n + n - 1)
    BY <1>1
  <2>2. (b.head + k - 1) % n = Place(n, b, k)
    <3>1. PICK i \in 0..(n + n - 1) : i = b.head + k - 1
      BY <2>1
    <3>2. i % n = IF i < n THEN i ELSE i - n
      BY Rollover
    <3> QED BY <3>1, <3>2 DEF Place
  <2>3. ~EmptyCheck(b) /\ Place(n, b, k) \in 0..(n - 1)
    BY <1>1, <2>1 DEF Place, Count
  <2>4. b.slot[Place(n, b, k)] # NULL
    BY <1>1, <2>3 DEF Place, Count, Contiguous, Occupied, EmptyCheck
  <2> QED BY <2>2, <2>3, <2>4
<1>3. InOrder(n, b) = [k \in 1..Count(n, b) |-> b.slot[(b.head + k - 1) % n]]
  BY DEF InOrder, Count
<1> DEFINE m == Count(n, b)
           s == [k \in 1..m |-> b.slot[(b.head + k - 1) % n]]
<1>4. \A k \in 1..m : s[k] = b.slot[Place(n, b, k)] /\ s[k] \in S
  BY <1>2
<1>5. m \in Nat /\ s = [k \in 1..m |-> s[k]]
  BY <1>1
<1> HIDE DEF m, s
<1>6. s \in Seq(S) /\ Len(s) = m
  <2>1. s \in [1..m -> S]
    BY <1>4, <1>5
  <2>2. s \in Seq(S)
    BY <1>5, <2>1, SeqDef
  <2> QED BY <1>5, <2>1, <2>2, LenProperties
<1> QED BY <1>1, <1>2, <1>3, <1>4, <1>6 DEF m, s

(* A pop returns the first one.                                             *)
LEMMA PopFrontOrder ==
    ASSUME NEW n \in Nat \ {0}, NEW S, NULL \notin S,
           NEW b, WellFormed(n, S, b), ~EmptyCheck(b)
    PROVE  InOrder(n, b) = <<Front(b)>> \o InOrder(n, PopFront(n, b))
<1> DEFINE c == PopFront(n, b)
<1>1. WellFormed(n, S, c)
  BY PopFrontOK
<1>2. /\ b \in Buffers(n, S) /\ Contiguous(b) /\ c.head = Succ(n, b.head) /\ c.tail = b.tail
      /\ c.slot = [b.slot EXCEPT ![b.head] = NULL]
  BY DEF PopFront, WellFormed
<1>3. Count(n, b) = Count(n, c) + 1
  <2>1. /\ b.head \in 0..(n - 1) /\ b.tail \in 0..(n - 1) /\ c.head \in 0..(n - 1)
        /\ c.head = IF b.head = n - 1 THEN 0 ELSE b.head + 1
        /\ DOMAIN b.slot = 0..(n - 1)
    BY <1>2 DEF Buffers, Succ
  <2>2. b.slot[b.head] # NULL
    BY <1>2, <2>1 DEF Contiguous, Occupied, EmptyCheck
  <2>3. EmptyCheck(c) <=> c.head = b.tail
    <3>1. CASE c.head # b.tail
      BY <1>2, <3>1 DEF EmptyCheck
    <3>2. CASE c.head = b.tail /\ c.head = b.head
      BY <1>2, <2>1, <3>2 DEF EmptyCheck
    <3>3. CASE c.head = b.tail /\ c.head # b.head
      <4>1. c.head \notin Occupied(b) /\ b.head # b.tail
        BY <2>1, <3>3 DEF Occupied
      <4>2. b.slot[c.head] = NULL
        BY <1>2, <2>1, <4>1 DEF Contiguous
      <4> QED BY <1>2, <2>1, <3>3, <4>2 DEF EmptyCheck
    <3> QED BY <3>1, <3>2, <3>3
  <2> HIDE DEF c
  <2>4. /\ Count(n, b) = IF b.head < b.tail THEN b.tail - b.head ELSE n + b.tail - b.head
        /\ Count(n, c) = IF c.head = b.tail THEN 0
                         ELSE IF c.head < b.tail THEN b.tail - c.head ELSE n + b.tail - c.head
    BY <1>2, <2>3 DEF Count
  <2> QED BY <2>1, <2>4
<1>4. /\ InOrder(n, b) \in Seq(S) /\ Count(n, b) \in 0..n
      /\ Len(InOrder(n, b)) = Count(n, b)
      /\ \A k \in 1..Count(n, b) : InOrder(n, b)[k] = b.slot[Place(n, b, k)]
  BY InOrderOK
<1>5. /\ InOrder(n, c) \in Seq(S) /\ Count(n, c) \in 0..n
      /\ Len(InOrder(n, c)) = Count(n, c)
      /\ \A k \in 1..Count(n, c) :
            InOrder(n, c)[k] = c.slot[Place(n, c, k)] /\ c.slot[Place(n, c, k)] \in S
  BY <1>1, InOrderOK
<1>6. Front(b) \in S /\ InOrder(n, b)[1] = Front(b)
  <2>1. Front(b) \in S
    BY PopFrontOK
  <2>2. Place(n, b, 1) = b.head
    BY <1>2 DEF Place, Buffers
  <2> QED BY <1>3, <1>4, <1>5, <2>1, <2>2 DEF Front
<1>7. ASSUME NEW k \in 1..Count(n, c)
      PROVE  InOrder(n, b)[k + 1] = InOrder(n, c)[k]
  <2>1. Place(n, b, k + 1) = Place(n, c, k)
    BY <1>2, <1>3, <1>4, <1>5 DEF Place, Succ, Buffers
  <2>2. Place(n, c, k) # b.head
    <3>1. c.slot[b.head] = NULL
      BY <1>2 DEF Buffers
    <3> QED BY <1>5, <3>1
  <2>3. b.slot[Place(n, c, k)] = c.slot[Place(n, c, k)]
    BY <1>2, <2>2 DEF Buffers
  <2> QED BY <1>3, <1>4, <1>5, <2>1, <2>3
<1> DEFINE s == InOrder(n, b)
           r == InOrder(n, c)
           f == Front(b)
<1>8. /\ s \in Seq(S) /\ r \in Seq(S) /\ f \in S /\ Len(s) = Len(r) + 1 /\ s[1] = f
      /\ \A k \in 1..Len(r) : s[k + 1] = r[k]
  BY <1>3, <1>4, <1>5, <1>6, <1>7
<1> HIDE DEF c, s, r, f
<1>9. s = <<f>> \o r
  <2>1. /\ <<f>> \o r \in Seq(S) /\ Len(<<f>> \o r) = 1 + Len(r)
        /\ \A i \in 1..(1 + Len(r)) : (<<f>> \o r)[i] = IF i <= 1 THEN f ELSE r[i - 1]
    BY <1>8, ConcatProperties
  <2>2. ASSUME NEW i \in 1..Len(s)
        PROVE  s[i] = (<<f>> \o r)[i]
    <3>1. CASE i = 1
      BY <1>8, <2>1, <3>1
    <3>2. CASE i # 1
      <4>1. Len(r) \in Nat /\ i \in 1..(Len(r) + 1)
        BY <1>8
      <4>2. i - 1 \in 1..Len(r) /\ (i - 1) + 1 = i
        BY <3>2, <4>1
      <4>3. s[(i - 1) + 1] = r[i - 1]
        BY <1>8, <4>2
      <4> QED BY <1>8, <2>1, <3>2, <4>2, <4>3
    <3> QED BY <3>1, <3>2
  <2> QED BY <1>8, <2>1, <2>2, SeqEqual
<1> QED BY <1>9 DEF s, r, f, c

(* A push at the back adds the last one.                                    *)
LEMMA PushBackOrder ==
    ASSUME NEW n \in Nat \ {0}, NEW S, NULL \notin S,
           NEW b, WellFormed(n, S, b), NEW x \in S, x \notin Members(b),
           \E i \in 0..(n - 1) : b.slot[i] = NULL
    PROVE  InOrder(n, PushBack(n, b, x)) = Append(InOrder(n, b), x)
<1> DEFINE c == PushBack(n, b, x)
<1>1. WellFormed(n, S, c)
  BY PushBackOK
<1>2. /\ b \in Buffers(n, S) /\ Contiguous(b) /\ c.head = b.head /\ c.tail = Succ(n, b.tail)
      /\ c.slot = [b.slot EXCEPT ![b.tail] = x]
  BY DEF PushBack, WellFormed
<1>3. Count(n, c) = Count(n, b) + 1
  <2>1. b.slot[b.tail] = NULL
    BY <1>2 DEF Contiguous, Occupied, Buffers
  <2>2. EmptyCheck(b) <=> b.head = b.tail
    BY <2>1 DEF EmptyCheck
  <2>3. ~EmptyCheck(c)
    <3>1. Members(c) # {}
      BY PushBackOK
    <3> QED BY <1>1, <3>1, EmptyCheckOK
  <2>4. PICK h \in 0..(n - 1), t \in 0..(n - 1), u \in 0..(n - 1) :
          /\ h = b.head /\ h = c.head /\ t = b.tail /\ u = c.tail
          /\ u = IF t = n - 1 THEN 0 ELSE t + 1
    BY <1>2 DEF Succ, Buffers
  <2>5. Count(n, c) = IF h < u THEN u - h ELSE n + u - h
    BY <2>3, <2>4 DEF Count
  <2>6. Count(n, b) = IF h = t THEN 0 ELSE IF h < t THEN t - h ELSE n + t - h
    BY <2>2, <2>4 DEF Count
  <2> QED BY <2>4, <2>5, <2>6
<1>4. /\ InOrder(n, b) \in Seq(S) /\ Count(n, b) \in 0..n
      /\ Len(InOrder(n, b)) = Count(n, b)
      /\ \A k \in 1..Count(n, b) :
            InOrder(n, b)[k] = b.slot[Place(n, b, k)] /\ b.slot[Place(n, b, k)] \in S
  BY InOrderOK
<1>5. /\ InOrder(n, c) \in Seq(S) /\ Count(n, c) \in 0..n
      /\ Len(InOrder(n, c)) = Count(n, c)
      /\ \A k \in 1..Count(n, c) : InOrder(n, c)[k] = c.slot[Place(n, c, k)]
  BY <1>1, InOrderOK
<1>6. b.slot[b.tail] = NULL
  BY <1>2 DEF Contiguous, Occupied, Buffers
<1>7. ASSUME NEW k \in 1..Count(n, b)
      PROVE  InOrder(n, c)[k] = InOrder(n, b)[k]
  <2>1. Place(n, b, k) = Place(n, c, k)
    BY <1>2 DEF Place
  <2>2. Place(n, b, k) # b.tail
    BY <1>4, <1>6
  <2>3. b.slot[Place(n, c, k)] = c.slot[Place(n, c, k)]
    BY <1>2, <2>1, <2>2 DEF Buffers
  <2> QED BY <1>3, <1>4, <1>5, <2>1, <2>3
<1>8. InOrder(n, c)[Count(n, c)] = x
  <2>1. Place(n, c, Count(n, c)) = b.tail
    BY <1>2, <1>3, <1>6 DEF Place, Count, EmptyCheck, Buffers, Contiguous, Occupied
  <2> QED BY <1>2, <1>3, <1>4, <1>5, <2>1 DEF Buffers
<1> DEFINE s == InOrder(n, b)
           r == InOrder(n, c)
<1>9. /\ s \in Seq(S) /\ r \in Seq(S) /\ Len(r) = Len(s) + 1 /\ r[Len(r)] = x
      /\ \A k \in 1..Len(s) : r[k] = s[k]
  BY <1>3, <1>4, <1>5, <1>7, <1>8
<1> HIDE DEF c, s, r
<1>10. r = Append(s, x)
  <2>1. /\ Append(s, x) \in Seq(S) /\ Len(Append(s, x)) = Len(s) + 1
        /\ \A i \in 1..Len(s) : Append(s, x)[i] = s[i]
        /\ Append(s, x)[Len(s) + 1] = x
    BY <1>9, AppendProperties
  <2>2. \A i \in 1..Len(r) : r[i] = Append(s, x)[i]
    BY <1>9, <2>1
  <2> QED BY <1>9, <2>1, <2>2, SeqEqual
<1> QED BY <1>10 DEF s, r, c

-----------------------------------------------------------------------------
(* The inductive invariant.                                                 *)

\* The threads served by a queue.
Processes(q) == IF q = "empty" THEN Producers ELSE Consumers

(* t is somewhere in svt_get_empty_object or svt_get_full_object, or gone.  *)
Asking(t) == \/ pc[t] \in {"wait", "pop", "exited"}
             \/ pc[t] \in {"assign", "signal"} /\ op[t] = "get"

\* A thread is in a process ring.
Registered(t) == \E q \in Queues : t \in Members(processQueue[q])

\* A thread is about to be posted by the thread that assigned it an object.
Signalled(t) == \E u \in Threads : pc[u] = "signal" /\ target[u] = t

\* The rings are well formed: none ever overflowed.
BufInv ==
    \A q \in Queues :
        /\ WellFormed(ObjectSlots, Objects, objectQueue[q])
        /\ WellFormed(ProcessSlots(q), Processes(q), processQueue[q])

\* What a program counter says about locks, targets and the kind of thread.
RoleInv ==
    /\ \A t \in Threads :
          /\ pc[t] \in {"assign", "signal"} => qlock[QueueOf(t)] = t
          /\ pc[t] = "signal" => target[t] \in Processes(QueueOf(t))
          /\ pc[t] \in {"unpin", "check", "drop"} => t \in Pinners /\ target[t] \in Objects
          /\ pc[t] \in {"assign", "signal"} /\ op[t] = "poll" => t \in Pollers
          /\ pc[t] \in {"peek", "again"} => t \in Pollers
          /\ pc[t] = "exited" => t \in Consumers
          /\ quit[t] => t \in Consumers
    /\ posting # NULL => quit[posting]

\* A semaphore counts the objects in its fifo, but for those whose post is under way
\* and those whose pop is: the pop finds an object.
SemInv ==
    \A t \in Threads : ~quit[t] =>
        Len(fifo[t]) = sem[t] + (IF pc[t] = "pop" THEN 1 ELSE 0)
                              + (IF Signalled(t) THEN 1 ELSE 0)

\* A thread that does not poll has an object or a registration only while it asks.
AskInv ==
    \A t \in Threads \ Pollers :
        /\ ~Asking(t) => fifo[t] = <<>> /\ ~Registered(t)
        /\ Registered(t) => fifo[t] = <<>>
        /\ Len(fifo[t]) =< 1

\* No object is twice in a fifo.
FifoInv ==
    \A t \in Threads : \A i, j \in 1..Len(fifo[t]) : fifo[t][i] = fifo[t][j] => i = j

\* Each wrapper is in one place, and has no references while it waits to be received.
PlaceInv ==
    /\ Queued("empty") \cap Queued("full") = {}
    /\ \A t, u \in Threads : t # u => Linked(t) \cap Linked(u) = {}
    /\ \A t \in Threads, q \in Queues : Linked(t) \cap Queued(q) = {}
    /\ \A o \in Objects : InClient(o) =>
          /\ \A q \in Queues : o \notin Queued(q)
          /\ \A t \in Threads : o \notin Linked(t)
    /\ \A o \in Objects :
          \/ InClient(o)
          \/ \E q \in Queues : o \in Queued(q)
          \/ \E t \in Threads : o \in Linked(t)
    /\ \A o \in Objects :
          (o \in Queued("full") \/ \E c \in Consumers : o \in Linked(c)) => liveCount[o] = 0

\* The number of threads that hold a wrapper.
Users(o) == Cardinality(HoldersOf(o))

\* What a live count stands for, during resource coordination's drop of a wrapper too.
LiveInv ==
    /\ LiveCountAgrees
    /\ \A p \in Pinners, o \in Objects :
          /\ active[p] = o => liveCount[o] = Users(o) /\ ~releaseEnable[o]
          /\ target[p] = o /\ pc[p] \in {"unpin", "check", "drop"} => active[p] # o
          /\ target[p] = o /\ pc[p] = "unpin" => liveCount[o] = Users(o) /\ ~releaseEnable[o]
          /\ target[p] = o /\ pc[p] = "check" =>
                /\ releaseEnable[o]
                /\ liveCount[o] = Users(o) \/ (liveCount[o] = Released /\ Users(o) = 0)
          /\ target[p] = o /\ pc[p] = "drop" =>
                liveCount[o] = 0 /\ Users(o) = 0 /\ releaseEnable[o]
    /\ \A o \in Objects : ~releaseEnable[o] =>
          \E p \in Pinners : active[p] = o \/ (pc[p] = "unpin" /\ target[p] = o)
    /\ \A p \in Pinners, o \in Objects : o \in held[p] => liveCount[o] = 0 /\ active[p] # o

\* The inductive invariant.
IInv == TypeOK /\ BufInv /\ RoleInv /\ SemInv /\ AskInv /\ FifoInv /\ PlaceInv /\ LiveInv

-----------------------------------------------------------------------------
(* What the assumptions say of the sizes of the buffers.                    *)
LEMMA Sizes ==
    /\ ObjectSlots \in Nat \ {0} /\ IsFiniteSet(Objects) /\ Cardinality(Objects) = ObjectSlots
    /\ \A q \in Queues :
          /\ ProcessSlots(q) \in Nat \ {0}
          /\ IsFiniteSet(Processes(q))
          /\ Processes(q) # {} => Cardinality(Processes(q)) = ProcessSlots(q)
          /\ NULL \notin Processes(q) /\ Processes(q) \subseteq Threads
    /\ NULL \notin Objects
<1> USE ThreadsAssumption, NullAssumption
<1>1. \A S : IsFiniteSet(S) => Cardinality(S) \in Nat /\ (Cardinality(S) = 0 <=> S = {})
  BY FS_CardinalityType, FS_EmptySet
<1>2. ASSUME NEW S, IsFiniteSet(S)
      PROVE  Slots(S) \in Nat \ {0} /\ (S # {} => Cardinality(S) = Slots(S))
  BY <1>1, <1>2 DEF Slots
<1>3. ObjectSlots \in Nat \ {0} /\ Cardinality(Objects) = ObjectSlots
  BY <1>2 DEF ObjectSlots
<1>4. ASSUME NEW q \in Queues
      PROVE  /\ ProcessSlots(q) \in Nat \ {0}
             /\ IsFiniteSet(Processes(q))
             /\ Processes(q) # {} => Cardinality(Processes(q)) = ProcessSlots(q)
             /\ NULL \notin Processes(q) /\ Processes(q) \subseteq Threads
  BY <1>2 DEF Queues, ProcessSlots, Processes, Threads
<1> QED BY <1>3, <1>4

(* The initial state: everything is in the empty queue.                     *)
LEMMA InitOK == Init => IInv
<1> SUFFICES ASSUME Init PROVE IInv
  OBVIOUS
<1>1. PICK s \in [0..(ObjectSlots - 1) -> Objects] :
          /\ {s[i] : i \in 0..(ObjectSlots - 1)} = Objects
          /\ objectQueue = [q \in Queues |->
                IF q = "empty" THEN [slot |-> s, head |-> 0, tail |-> 0]
                ELSE Ctor(ObjectSlots)]
  BY DEF Init
<1>2. /\ liveCount = [o \in Objects |-> 0] /\ releaseEnable = [o \in Objects |-> TRUE]
      /\ processQueue = [q \in Queues |-> Ctor(ProcessSlots(q))]
      /\ qlock = [q \in Queues |-> NULL]
      /\ fifo = [t \in Threads |-> <<>>] /\ sem = [t \in Threads |-> 0]
      /\ quit = [t \in Threads |-> FALSE]
      /\ pc = [t \in Threads |-> "idle"] /\ op = [t \in Threads |-> "release"]
      /\ target = [t \in Threads |-> NULL] /\ held = [t \in Threads |-> {}]
      /\ active = [t \in Pinners |-> NULL] /\ signalled = {} /\ posting = NULL
  BY DEF Init
<1> DEFINE full == [slot |-> s, head |-> 0, tail |-> 0]
<1>3. WellFormed(ObjectSlots, Objects, full) /\ Members(full) = Objects
  <2>1. IsFiniteSet(0..(ObjectSlots - 1)) /\ Cardinality(0..(ObjectSlots - 1)) = ObjectSlots
    <3>1. ObjectSlots \in Nat \ {0}
      BY Sizes
    <3> HIDE DEF full
    <3>2. ObjectSlots - 1 \in Int /\ ~(0 > ObjectSlots - 1) /\ (ObjectSlots - 1) - 0 + 1 = ObjectSlots
      BY <3>1
    <3> QED BY <3>2, FS_Interval
  <2>2. s \in Surjection(0..(ObjectSlots - 1), Objects)
    BY <1>1 DEF Surjection
  <2>3. s \in Injection(0..(ObjectSlots - 1), Objects)
    BY <2>1, <2>2, Sizes, FS_SurjSameCardinalityImpliesInj
  <2>4. \A i, j \in 0..(ObjectSlots - 1) : s[i] = s[j] => i = j
    BY <2>3 DEF Injection, IsInjective
  <2>5. ObjectSlots \in Nat \ {0} /\ NULL \notin Objects
    BY Sizes
  <2>6. full \in Buffers(ObjectSlots, Objects)
    BY <2>5 DEF Buffers
  <2>7. Contiguous(full) /\ Distinct(full)
    BY <2>4, <2>5 DEF Contiguous, Distinct
  <2>8. Members(full) = Objects
    BY <1>1, <2>5 DEF Members
  <2> QED BY <2>6, <2>7, <2>8 DEF WellFormed
<1> HIDE DEF full
<1>4. /\ Queued("empty") = Objects /\ Queued("full") = {}
      /\ \A q \in Queues : WellFormed(ObjectSlots, Objects, objectQueue[q])
  <2>1. objectQueue["empty"] = full /\ objectQueue["full"] = Ctor(ObjectSlots)
    BY <1>1 DEF full, Queues
  <2> QED BY <1>3, <2>1, CtorOK, Sizes DEF Queued, Queues
<1>5. \A q \in Queues : /\ WellFormed(ProcessSlots(q), Processes(q), processQueue[q])
                        /\ Members(processQueue[q]) = {}
  BY <1>2, CtorOK, Sizes
<1>6. BufInv
  BY <1>4, <1>5 DEF BufInv
<1>7. TypeOK
  <2>1. objectQueue \in [Queues -> Buffers(ObjectSlots, Objects)]
    BY <1>1, <1>4 DEF WellFormed
  <2>2. /\ DOMAIN processQueue = Queues
        /\ processQueue["empty"] \in Buffers(ProcessSlots("empty"), Producers)
        /\ processQueue["full"] \in Buffers(ProcessSlots("full"), Consumers)
    BY <1>2, <1>5 DEF WellFormed, Processes, Queues
  <2>3. <<>> \in Seq(Objects)
    OBVIOUS
  <2>4. /\ signalled \in SUBSET Consumers /\ posting \in Consumers \cup {NULL}
        /\ active \in [Pinners -> Objects \cup {NULL}]
        /\ held \in [Threads -> SUBSET Objects]
        /\ target \in [Threads -> Threads \cup Objects \cup {NULL}]
    BY <1>2
  <2>5. /\ liveCount \in [Objects -> Int] /\ releaseEnable \in [Objects -> BOOLEAN]
        /\ qlock \in [Queues -> Threads \cup {NULL}]
        /\ sem \in [Threads -> Nat] /\ quit \in [Threads -> BOOLEAN]
        /\ pc \in [Threads -> PCs] /\ op \in [Threads -> Ops]
        /\ fifo \in [Threads -> Seq(Objects)]
    BY <1>2, <2>3 DEF PCs, Ops
  <2> QED BY <2>1, <2>2, <2>4, <2>5 DEF TypeOK
<1>8. RoleInv
  BY <1>2 DEF RoleInv
<1>9. SemInv /\ FifoInv
  <2>1. \A t \in Threads : ~Signalled(t)
    BY <1>2 DEF Signalled
  <2>2. \A t \in Threads : fifo[t] = <<>> /\ sem[t] = 0 /\ pc[t] # "pop"
    BY <1>2
  <2> QED BY <2>1, <2>2 DEF SemInv, FifoInv
<1>10. AskInv
  BY <1>2, <1>5 DEF AskInv, Registered
<1>11. \A o \in Objects : HoldersOf(o) = {} /\ Users(o) = 0 /\ ~InClient(o)
  <2>1. \A o \in Objects : HoldersOf(o) = {}
    BY <1>2 DEF HoldersOf
  <2>2. \A p \in Pinners, o \in Objects : ~KeptBy(p, o)
    BY <1>2, ThreadsAssumption, Sizes DEF KeptBy, Threads
  <2> QED BY <2>1, <2>2, FS_EmptySet DEF Users, InClient
<1>12. PlaceInv
  BY <1>2, <1>4, <1>11 DEF PlaceInv, Linked, Queues
<1>13. LiveInv
  <2>1. \A p \in Pinners : pc[p] = "idle" /\ held[p] = {} /\ active[p] = NULL
    BY <1>2, ThreadsAssumption DEF Threads
  <2> QED BY <1>2, <1>11, <2>1, Sizes DEF LiveInv, LiveCountAgrees, Users
<1> QED BY <1>6, <1>7, <1>8, <1>9, <1>10, <1>12, <1>13 DEF IInv

-----------------------------------------------------------------------------
(* The linked list of a fifo.                                               *)

\* The elements of a sequence.
Elements(s) == {s[i] : i \in 1..Len(s)}

\* A sequence without repetition.
Injective(s) == \A i, j \in 1..Len(s) : s[i] = s[j] => i = j

(* svt_fifo_push_back.                                                      *)
LEMMA FifoPushOK ==
    ASSUME NEW S, NEW s \in Seq(S), NEW x \in S, Injective(s), x \notin Elements(s)
    PROVE  /\ Append(s, x) \in Seq(S) /\ Len(Append(s, x)) = Len(s) + 1
           /\ Elements(Append(s, x)) = Elements(s) \cup {x}
           /\ Injective(Append(s, x))
<1>1. Append(s, x) \in Seq(S) /\ Len(Append(s, x)) = Len(s) + 1
  OBVIOUS
<1>2. /\ Len(s) \in Nat
      /\ \A i \in 1..(Len(s) + 1) : Append(s, x)[i] = IF i = Len(s) + 1 THEN x ELSE s[i]
  OBVIOUS
<1>3. Elements(Append(s, x)) = Elements(s) \cup {x}
  BY <1>1, <1>2 DEF Elements
<1>4. Injective(Append(s, x))
  BY <1>1, <1>2 DEF Injective, Elements
<1> QED BY <1>1, <1>3, <1>4

(* svt_fifo_pop_front.                                                      *)
LEMMA FifoPopOK ==
    ASSUME NEW S, NEW s \in Seq(S), s # <<>>, Injective(s)
    PROVE  /\ Head(s) \in S /\ Head(s) \in Elements(s)
           /\ Tail(s) \in Seq(S) /\ Len(Tail(s)) = Len(s) - 1
           /\ Elements(Tail(s)) = Elements(s) \ {Head(s)}
           /\ Injective(Tail(s))
<1>1. /\ Len(s) \in Nat \ {0} /\ Head(s) = s[1] /\ Head(s) \in S
      /\ Tail(s) \in Seq(S) /\ Len(Tail(s)) = Len(s) - 1
      /\ \A i \in 1..(Len(s) - 1) : Tail(s)[i] = s[i + 1]
  OBVIOUS
<1>2. Head(s) \in Elements(s)
  BY <1>1 DEF Elements
<1>3. Injective(Tail(s))
  BY <1>1 DEF Injective
<1>4. ASSUME NEW x \in Elements(s), x # Head(s)
      PROVE  x \in Elements(Tail(s))
  <2>1. PICK i \in 1..Len(s) : x = s[i]
    BY <1>4 DEF Elements
  <2>2. i - 1 \in 1..(Len(s) - 1) /\ Tail(s)[i - 1] = s[i]
    BY <1>1, <1>4, <2>1
  <2> QED BY <1>1, <2>1, <2>2 DEF Elements
<1>5. ASSUME NEW x \in Elements(Tail(s))
      PROVE  x \in Elements(s) /\ x # Head(s)
  <2>1. PICK i \in 1..(Len(s) - 1) : x = s[i + 1]
    BY <1>1, <1>5 DEF Elements
  <2> QED BY <1>1, <2>1 DEF Elements, Injective
<1> QED BY <1>1, <1>2, <1>3, <1>4, <1>5

-----------------------------------------------------------------------------
(* What a step keeps because of what it leaves alone.                       *)

\* The steps of the drop of the previous sequence control set.
Pinning == {"unpin", "check", "drop"}

(* No pinner takes a step of its exchange of sequence control sets.         *)
PinnersCalm ==
    \A p \in Pinners :
        \/ pc'[p] = pc[p] /\ target'[p] = target[p]
        \/ pc[p] \notin Pinning /\ pc'[p] \notin Pinning

\* Steps that leave the clients alone keep the live counts.
LEMMA ClientFrame ==
    ASSUME IInv, held' = held, active' = active, liveCount' = liveCount,
           releaseEnable' = releaseEnable, PinnersCalm
    PROVE  LiveInv' /\ \A o \in Objects : InClient(o)' <=> InClient(o)
<1>1. \A o \in Objects : HoldersOf(o)' = HoldersOf(o) /\ Users(o)' = Users(o)
  BY DEF HoldersOf, Users
<1>2. \A p \in Pinners, o \in Objects : KeptBy(p, o)' <=> KeptBy(p, o)
  BY DEF PinnersCalm, Pinning, KeptBy
<1>3. \A o \in Objects : InClient(o)' <=> InClient(o)
  BY <1>1, <1>2 DEF InClient
<1>4. LiveCountAgrees'
  BY <1>1 DEF IInv, LiveInv, LiveCountAgrees
<1>5. \A p \in Pinners, o \in Objects :
         /\ (active[p] = o)' <=> active[p] = o
         /\ \A s \in Pinning : (target[p] = o /\ pc[p] = s)' <=> target[p] = o /\ pc[p] = s
  BY DEF PinnersCalm, Pinning
<1>6. LiveInv'
  BY <1>1, <1>4, <1>5 DEF IInv, LiveInv, Pinning
<1> QED BY <1>3, <1>6

\* Steps that leave rings and fifos alone keep every wrapper in its place.
LEMMA PlaceFrame ==
    ASSUME IInv, objectQueue' = objectQueue, fifo' = fifo,
           \A o \in Objects : InClient(o)' <=> InClient(o),
           \A o \in Objects : InClient(o) \/ liveCount'[o] = liveCount[o]
    PROVE  PlaceInv' /\ FifoInv'
<1>1. /\ \A q \in Queues : Queued(q)' = Queued(q)
      /\ Queued("empty")' = Queued("empty") /\ Queued("full")' = Queued("full")
      /\ \A t \in Threads : Linked(t)' = Linked(t)
  BY DEF Queued, Linked
<1>2. /\ Consumers \subseteq Threads
      /\ \A o \in Objects :
            InClient(o) => o \notin Queued("full") /\ \A t \in Threads : o \notin Linked(t)
  BY DEF IInv, PlaceInv, Threads, Queues
<1>3. \A o \in Objects :
         (o \in Queued("full") \/ \E c \in Consumers : o \in Linked(c)) => liveCount'[o] = liveCount[o]
  <2> SUFFICES ASSUME NEW o \in Objects, o \in Queued("full") \/ \E c \in Consumers : o \in Linked(c)
               PROVE  liveCount'[o] = liveCount[o]
    OBVIOUS
  <2>1. ~InClient(o)
    BY <1>2
  <2> QED BY <2>1
<1>4. FifoInv'
  BY DEF IInv, FifoInv
<1>5. PlaceInv'
  BY <1>1, <1>2, <1>3 DEF IInv, PlaceInv
<1> QED BY <1>4, <1>5

\* Steps that leave fifos and process rings alone keep the registrations.
LEMMA AskFrame ==
    ASSUME IInv, fifo' = fifo, processQueue' = processQueue,
           \A t \in Threads : Asking(t)' <=> Asking(t)
    PROVE  AskInv'
<1>1. \A t \in Threads : Registered(t)' <=> Registered(t)
  BY DEF Registered
<1> QED BY <1>1 DEF IInv, AskInv

(* Nobody enters or leaves a step that the semaphore count depends on.      *)
LEMMA SemFrame ==
    ASSUME IInv, fifo' = fifo, sem' = sem, quit' = quit,
           \A t \in Threads :
              /\ pc'[t] = "pop" <=> pc[t] = "pop"
              /\ \/ pc'[t] # "signal" /\ pc[t] # "signal"
                 \/ pc'[t] = pc[t] /\ target'[t] = target[t]
    PROVE  SemInv'
<1>1. \A t \in Threads : Signalled(t)' <=> Signalled(t)
  BY DEF Signalled
<1> QED BY <1>1 DEF IInv, SemInv

-----------------------------------------------------------------------------
(* The muxing queue.                                                        *)

\* The steps of a thread inside a muxing queue keep the invariant: it unlocks.
LEMMA UnlockOK ==
    ASSUME IInv, NEW t \in Threads, Unlock(t)
    PROVE  IInv'
<1> DEFINE q == QueueOf(t)
           next == CASE op[t] = "get" -> "wait" [] op[t] = "poll" -> "peek" [] OTHER -> "idle"
<1>a. /\ liveCount' = liveCount /\ releaseEnable' = releaseEnable
      /\ objectQueue' = objectQueue /\ processQueue' = processQueue
      /\ fifo' = fifo /\ sem' = sem /\ quit' = quit
      /\ op' = op /\ target' = target /\ held' = held /\ active' = active
      /\ signalled' = signalled /\ posting' = posting
      /\ pc[t] = "assign" /\ pc' = [pc EXCEPT ![t] = next]
      /\ qlock' = [qlock EXCEPT ![q] = NULL]
  BY DEF Unlock, fifos, wrappers, clients, shutdown
<1>b. q \in Queues /\ next \in {"wait", "peek", "idle"} /\ qlock[q] = t
  BY <1>a DEF QueueOf, Queues, IInv, RoleInv
<1>c. \A u \in Threads : Asking(u)' <=> Asking(u)
  BY <1>a, <1>b DEF Asking, IInv, TypeOK
<1>d. next = "peek" => t \in Pollers
  BY <1>a DEF IInv, RoleInv
<1> HIDE DEF next, q
<1>1. TypeOK'
  BY <1>a, <1>b DEF IInv, TypeOK, PCs
<1>2. BufInv'
  BY <1>a DEF IInv, BufInv
<1>3. RoleInv'
  <2>1. \A u \in Threads : QueueOf(u)' = QueueOf(u)
    BY <1>a DEF QueueOf
  <2> QED BY <1>a, <1>b, <2>1, <1>d DEF IInv, TypeOK, RoleInv
<1>4. SemInv'
  BY <1>a, <1>b, SemFrame DEF IInv, TypeOK
<1>5. AskInv'
  BY <1>a, <1>c, AskFrame
<1>6. PinnersCalm
  BY <1>a, <1>b DEF IInv, TypeOK, PinnersCalm, Pinning
<1>7. LiveInv' /\ PlaceInv' /\ FifoInv'
  BY <1>a, <1>6, ClientFrame, PlaceFrame
<1> QED BY <1>1, <1>2, <1>3, <1>4, <1>5, <1>7 DEF IInv

\* It posts the semaphore of the thread it assigned an object to.
LEMMA SignalOK ==
    ASSUME IInv, NEW t \in Threads, Signal(t)
    PROVE  IInv'
<1>f. PICK f \in Threads : f = target[t]
  BY ThreadsAssumption DEF Signal, IInv, RoleInv, Processes, Threads
<1>a. /\ liveCount' = liveCount /\ releaseEnable' = releaseEnable
      /\ objectQueue' = objectQueue /\ processQueue' = processQueue /\ qlock' = qlock
      /\ fifo' = fifo /\ quit' = quit /\ sem' = [sem EXCEPT ![f] = @ + 1]
      /\ op' = op /\ held' = held /\ active' = active
      /\ signalled' = signalled /\ posting' = posting
      /\ pc[t] = "signal" /\ pc' = [pc EXCEPT ![t] = "assign"]
      /\ target' = [target EXCEPT ![t] = NULL]
  BY <1>f DEF Signal, queues, wrappers, clients, shutdown
<1>b. f \in Threads /\ f \in Processes(QueueOf(t)) /\ qlock[QueueOf(t)] = t
  BY <1>a, <1>f DEF IInv, RoleInv
<1>c. \A u \in Threads : Asking(u)' <=> Asking(u)
  BY <1>a, <1>b DEF Asking, IInv, TypeOK
<1>1. TypeOK'
  BY <1>a, <1>b DEF IInv, TypeOK, PCs
<1>2. BufInv'
  BY <1>a DEF IInv, BufInv
<1>3. RoleInv'
  <2>1. \A u \in Threads : QueueOf(u)' = QueueOf(u)
    BY <1>a DEF QueueOf
  <2> QED BY <1>a, <1>b, <2>1 DEF IInv, TypeOK, RoleInv
<1>4. SemInv'
  <2>1. Signalled(f)
    BY <1>a, <1>f DEF Signalled
  <2>2. ~Signalled(f)'
    <3> SUFFICES ASSUME NEW u \in Threads, u # t, pc[u] = "signal", target[u] = f
                 PROVE  FALSE
      BY <1>a DEF Signalled, IInv, TypeOK
    <3>1. QueueOf(u) = QueueOf(t)
      BY <1>a, <1>b, ThreadsAssumption DEF IInv, RoleInv, Processes, QueueOf
    <3> QED BY <3>1, <1>b DEF IInv, RoleInv
  <2>3. \A g \in Threads : g # f => (Signalled(g)' <=> Signalled(g))
    BY <1>a, <1>f DEF Signalled, IInv, TypeOK
  <2>4. \A g \in Threads : (pc[g] = "pop")' <=> pc[g] = "pop"
    BY <1>a DEF IInv, TypeOK
  <2>5. sem'[f] = sem[f] + 1 /\ \A g \in Threads : sem[g] \in Nat /\ (g # f => sem'[g] = sem[g])
    BY <1>a, <1>b DEF IInv, TypeOK
  <2> QED BY <1>a, <2>1, <2>2, <2>3, <2>4, <2>5 DEF IInv, SemInv
<1>5. AskInv'
  BY <1>a, <1>c, AskFrame
<1>6. PinnersCalm
  BY <1>a DEF IInv, TypeOK, PinnersCalm, Pinning
<1>7. LiveInv' /\ PlaceInv' /\ FifoInv'
  BY <1>a, <1>6, ClientFrame, PlaceFrame
<1> QED BY <1>1, <1>2, <1>3, <1>4, <1>5, <1>7 DEF IInv

(* A poller is the only consumer, and the process queue has one slot.       *)
LEMMA OnlyPoller == \A c \in Pollers : Processes("full") = {c} /\ ProcessSlots("full") = 1
<1> SUFFICES ASSUME NEW c \in Pollers
             PROVE  Processes("full") = {c} /\ ProcessSlots("full") = 1
  OBVIOUS
<1>1. Cardinality(Consumers) = 1 /\ c \in Consumers /\ IsFiniteSet(Consumers)
  BY PollersAssumption, ThreadsAssumption
<1>2. IsFiniteSet(Consumers \ {c}) /\ Cardinality(Consumers \ {c}) = 0
  BY <1>1, FS_RemoveElement
<1>3. Consumers = {c}
  BY <1>1, <1>2, FS_EmptySet
<1> QED BY <1>1, <1>3 DEF ProcessSlots, Slots, Processes

(* svt_release_process registers a thread that is not registered, or the    *)
(* only consumer.                                                           *)
LEMMA RequestProcessOK ==
    ASSUME IInv, NEW q \in Queues, NEW t \in Processes(q), NEW what \in {"get", "poll"},
           what = "get" \/ t \in Pollers,
           pc[t] = "idle" \/ (pc[t] = "again" /\ t \in Pollers),
           RequestProcess(t, q, what)
    PROVE  IInv'
<1>z. /\ t \in Threads /\ (q = "empty" <=> t \in Producers)
      /\ Pollers \subseteq Consumers /\ (t \in Pollers => q = "full")
  BY ThreadsAssumption DEF Processes, Queues, Threads
<1>a. /\ liveCount' = liveCount /\ releaseEnable' = releaseEnable
      /\ objectQueue' = objectQueue
      /\ processQueue' = [processQueue EXCEPT ![q] = PushFront(ProcessSlots(q), @, t)]
      /\ fifo' = fifo /\ quit' = quit /\ sem' = sem
      /\ held' = held /\ active' = active
      /\ signalled' = signalled /\ posting' = posting
      /\ pc' = [pc EXCEPT ![t] = "assign"] /\ op' = [op EXCEPT ![t] = what]
      /\ target' = [target EXCEPT ![t] = NULL]
      /\ qlock[q] = NULL /\ qlock' = [qlock EXCEPT ![q] = t]
  BY DEF RequestProcess, Enter, fifos, wrappers, clients, shutdown
<1>b. /\ pc \in [Threads -> PCs] /\ op \in [Threads -> Ops] /\ qlock \in [Queues -> Threads \cup {NULL}]
      /\ target \in [Threads -> Threads \cup Objects \cup {NULL}] /\ DOMAIN processQueue = Queues
  BY DEF IInv, TypeOK
<1> DEFINE b == processQueue[q]
           n == ProcessSlots(q)
<1>c. /\ WellFormed(n, Processes(q), PushFront(n, b, t))
      /\ Members(PushFront(n, b, t)) = Members(b) \cup {t}
  <2>0. WellFormed(n, Processes(q), b)
    BY DEF IInv, BufInv
  <2>1. CASE t \in Pollers
    <3>1. n = 1 /\ Processes(q) = {t}
      BY <2>1, <1>z, OnlyPoller DEF Queues, Processes
    <3>2. Members(b) \subseteq {t}
      BY <2>0, <3>1 DEF WellFormed, Buffers, Members
    <3> QED BY <2>0, <3>1, <3>2, PushSingleOK, Sizes
  <2>2. CASE t \notin Pollers
    <3>1. t \notin Members(b)
      BY <1>z, <2>2 DEF IInv, AskInv, Asking, Registered
    <3>2. Processes(q) # {} => \E i \in 0..(n - 1) : b.slot[i] = NULL
      BY <2>0, <3>1, Room, Sizes
    <3> QED BY <2>0, <3>1, <3>2, PushFrontOK, Sizes
  <2> QED BY <2>1, <2>2
<1>d. /\ processQueue'[q] = PushFront(n, b, t)
      /\ \A r \in Queues : r # q => processQueue'[r] = processQueue[r]
      /\ DOMAIN processQueue' = Queues
  BY <1>a, <1>b
<1> HIDE DEF n, b
<1>1. TypeOK'
  BY <1>a, <1>b, <1>c, <1>d, <1>z DEF IInv, TypeOK, PCs, Ops, Queues, WellFormed, Processes, n
<1>2. BufInv'
  BY <1>a, <1>c, <1>d DEF IInv, BufInv, n
<1>3. RoleInv'
  <2>1. /\ op'[t] = what
        /\ \A u \in Threads : u # t => op'[u] = op[u]
    BY <1>a, <1>b, <1>z
  <2>5. QueueOf(t)' = q
    BY <1>z, <2>1 DEF QueueOf, Queues
  <2>6. \A u \in Threads : u # t => QueueOf(u)' = QueueOf(u)
    BY <2>1 DEF QueueOf
  <2>2. \A u \in Threads : pc[u] \in {"assign", "signal"} => qlock'[QueueOf(u)] = qlock[QueueOf(u)]
    BY <1>a, <1>b, Sizes, NullAssumption DEF IInv, RoleInv
  <2> QED BY <1>a, <1>b, <1>z, <2>1, <2>2, <2>5, <2>6 DEF IInv, TypeOK, RoleInv
<1>4. SemInv'
  BY <1>a, <1>b, SemFrame
<1>5. AskInv'
  <2>1. \A u \in Threads : Registered(u)' <=> Registered(u) \/ u = t
    BY <1>c, <1>d DEF Registered, n, b
  <2>2. \A u \in Threads : u # t => (Asking(u)' <=> Asking(u))
    BY <1>a, <1>b DEF Asking
  <2>3. what = "get" => Asking(t)'
    BY <1>a, <1>b, <1>z DEF Asking
  <2>4. t \notin Pollers => ~Asking(t)
    BY DEF Asking
  <2> QED BY <1>a, <2>1, <2>2, <2>3, <2>4 DEF IInv, AskInv
<1>6. PinnersCalm
  BY <1>a, <1>b DEF PinnersCalm, Pinning
<1>7. LiveInv' /\ PlaceInv' /\ FifoInv'
  BY <1>a, <1>6, ClientFrame, PlaceFrame
<1> QED BY <1>1, <1>2, <1>3, <1>4, <1>5, <1>7 DEF IInv

(* One iteration of the assignation: the wrapper at the head of the object  *)
(* queue moves to the fifo at the head of the process queue.                *)
LEMMA PairOK ==
    ASSUME IInv, NEW t \in Threads, Pair(t)
    PROVE  IInv'
<1>q. PICK q \in Queues : q = QueueOf(t)
  BY DEF QueueOf, Queues
<1>f. PICK f, o : f = Front(processQueue[q]) /\ o = Front(objectQueue[q])
  OBVIOUS
<1>a. /\ liveCount' = liveCount /\ releaseEnable' = releaseEnable
      /\ ~EmptyCheck(objectQueue[q]) /\ ~EmptyCheck(processQueue[q])
      /\ processQueue' = [processQueue EXCEPT ![q] = PopFront(ProcessSlots(q), @)]
      /\ objectQueue' = [objectQueue EXCEPT ![q] = PopFront(ObjectSlots, @)]
      /\ fifo' = [fifo EXCEPT ![f] = Append(@, o)]
      /\ quit' = quit /\ sem' = sem /\ qlock' = qlock
      /\ held' = held /\ active' = active /\ op' = op
      /\ signalled' = signalled /\ posting' = posting
      /\ pc[t] = "assign" /\ pc' = [pc EXCEPT ![t] = "signal"]
      /\ target' = [target EXCEPT ![t] = f]
  BY <1>q, <1>f DEF Pair, wrappers, clients, shutdown
<1>b. /\ pc \in [Threads -> PCs] /\ op \in [Threads -> Ops] /\ fifo \in [Threads -> Seq(Objects)]
      /\ target \in [Threads -> Threads \cup Objects \cup {NULL}]
      /\ DOMAIN processQueue = Queues /\ DOMAIN objectQueue = Queues
  BY DEF IInv, TypeOK
<1>c. /\ f \in Processes(q) /\ f \in Members(processQueue[q])
      /\ WellFormed(ProcessSlots(q), Processes(q), processQueue'[q])
      /\ Members(processQueue'[q]) = Members(processQueue[q]) \ {f}
  BY <1>a, <1>b, <1>f, PopFrontOK, Sizes DEF IInv, BufInv
<1>d. /\ o \in Objects /\ o \in Queued(q)
      /\ WellFormed(ObjectSlots, Objects, objectQueue'[q])
      /\ Queued(q)' = Queued(q) \ {o}
  BY <1>a, <1>b, <1>f, PopFrontOK, Sizes DEF IInv, BufInv, Queued
<1>e. \A r \in Queues : r # q =>
         processQueue'[r] = processQueue[r] /\ objectQueue'[r] = objectQueue[r] /\ Queued(r)' = Queued(r)
  BY <1>a, <1>b DEF Queued
<1>g. /\ f \in Threads
      /\ fifo'[f] \in Seq(Objects) /\ Len(fifo'[f]) = Len(fifo[f]) + 1
      /\ Linked(f)' = Linked(f) \cup {o} /\ Injective(fifo'[f])
      /\ \A u \in Threads : u # f => fifo'[u] = fifo[u] /\ Linked(u)' = Linked(u)
  <2>1. f \in Threads
    BY <1>c, Sizes
  <2>2. o \notin Elements(fifo[f]) /\ Injective(fifo[f])
    BY <1>d, <2>1 DEF IInv, PlaceInv, FifoInv, Injective, Linked, Elements
  <2>3. /\ fifo'[f] \in Seq(Objects) /\ Len(fifo'[f]) = Len(fifo[f]) + 1
        /\ Elements(fifo'[f]) = Elements(fifo[f]) \cup {o} /\ Injective(fifo'[f])
    BY <1>a, <1>b, <1>d, <2>1, <2>2, FifoPushOK
  <2>4. \A u \in Threads : u # f => fifo'[u] = fifo[u]
    BY <1>a, <1>b
  <2> QED BY <2>1, <2>3, <2>4 DEF Linked, Elements
<1>h. \A u \in Threads : u # t => pc'[u] = pc[u] /\ target'[u] = target[u]
  BY <1>a, <1>b
<1>i. pc'[t] = "signal" /\ target'[t] = f
  BY <1>a, <1>b
<1>j. qlock[q] = t
  BY <1>a, <1>q DEF IInv, RoleInv
<1>1. TypeOK'
  <2>1. fifo' \in [Threads -> Seq(Objects)]
    BY <1>a, <1>b, <1>g
  <2>2. /\ objectQueue' \in [Queues -> Buffers(ObjectSlots, Objects)]
        /\ DOMAIN processQueue' = Queues
    BY <1>a, <1>b, <1>d, <1>e DEF IInv, TypeOK, WellFormed
  <2>3. /\ processQueue'["empty"] \in Buffers(ProcessSlots("empty"), Producers)
        /\ processQueue'["full"] \in Buffers(ProcessSlots("full"), Consumers)
    BY <1>c, <1>e DEF IInv, TypeOK, WellFormed, Queues, Processes
  <2> QED BY <1>a, <1>b, <1>g, <2>1, <2>2, <2>3 DEF IInv, TypeOK, PCs
<1>2. BufInv'
  BY <1>c, <1>d, <1>e DEF IInv, BufInv
<1>3. RoleInv'
  <2>1. \A u \in Threads : QueueOf(u)' = QueueOf(u)
    BY <1>a DEF QueueOf
  <2>2. \A u \in Threads :
          /\ pc'[u] \in {"assign", "signal"} <=> pc[u] \in {"assign", "signal"}
          /\ pc'[u] = "signal" => target'[u] \in Processes(QueueOf(u))
          /\ pc'[u] \in {"unpin", "check", "drop"} => t # u
          /\ pc'[u] \in {"peek", "again", "exited"} => t # u
    BY <1>a, <1>c, <1>h, <1>i, <1>q DEF IInv, RoleInv
  <2> QED BY <1>a, <1>h, <2>1, <2>2 DEF IInv, RoleInv
<1>4. SemInv'
  <2>1. ~Signalled(f)
    <3> SUFFICES ASSUME NEW u \in Threads, pc[u] = "signal", target[u] = f
                 PROVE  FALSE
      BY DEF Signalled
    <3>1. f \in Processes(QueueOf(u)) /\ qlock[QueueOf(u)] = u
      BY DEF IInv, RoleInv
    <3>2. QueueOf(u) = q
      BY <1>c, <3>1, ThreadsAssumption DEF Processes, QueueOf, Queues
    <3> QED BY <3>1, <3>2, <1>a, <1>j
  <2>2. Signalled(f)'
    BY <1>i DEF Signalled
  <2>3. \A g \in Threads : g # f => (Signalled(g)' <=> Signalled(g))
    BY <1>a, <1>h, <1>i DEF Signalled
  <2>4. \A g \in Threads : pc'[g] = "pop" <=> pc[g] = "pop"
    BY <1>a, <1>h, <1>i
  <2>5. \A g \in Threads : sem[g] \in Nat /\ Len(fifo[g]) \in Nat
    BY <1>b DEF IInv, TypeOK
  <2> QED BY <1>a, <1>g, <2>1, <2>2, <2>3, <2>4, <2>5 DEF IInv, SemInv
<1>5. AskInv'
  <2>1. \A u \in Threads : Asking(u)' <=> Asking(u)
    BY <1>a, <1>h, <1>i DEF Asking
  <2>2. \A u \in Threads : Registered(u)' => Registered(u)
    BY <1>c, <1>e DEF Registered
  <2>3. Registered(f)
    BY <1>c DEF Registered
  <2>4. ~Registered(f)'
    <3>1. \A r \in Queues : r # q => f \notin Processes(r)
      BY <1>c, ThreadsAssumption DEF Processes, Queues
    <3>2. \A r \in Queues : r # q => f \notin Members(processQueue'[r])
      BY <1>e, <3>1, MembersIn, Sizes DEF IInv, BufInv
    <3> QED BY <1>c, <3>2 DEF Registered
  <2>5. f \notin Pollers => Len(fifo'[f]) = 1 /\ Asking(f)
    BY <1>g, <2>3 DEF IInv, AskInv
  <2> QED BY <1>g, <2>1, <2>2, <2>3, <2>4, <2>5 DEF IInv, AskInv
<1>6. FifoInv'
  BY <1>g DEF IInv, FifoInv, Injective
<1>7. PinnersCalm
  BY <1>a, <1>h, <1>i DEF PinnersCalm, Pinning
<1>8. LiveInv' /\ \A x \in Objects : InClient(x)' <=> InClient(x)
  BY <1>a, <1>7, ClientFrame
<1>9. PlaceInv'
  <2>1. \A x \in Objects :
           (x \in Queued("full")' \/ \E c \in Consumers : x \in Linked(c)') => liveCount'[x] = 0
    <3>1. f \in Consumers => q = "full"
      BY <1>c, ThreadsAssumption DEF Processes, Queues
    <3>2. Consumers \subseteq Threads
      BY DEF Threads
    <3> QED BY <1>a, <1>d, <1>e, <1>g, <3>1, <3>2 DEF IInv, PlaceInv, Queues
  <2> QED BY <1>d, <1>e, <1>g, <1>8, <2>1 DEF IInv, PlaceInv, Queues
<1> QED BY <1>1, <1>2, <1>3, <1>4, <1>5, <1>6, <1>8, <1>9 DEF IInv

(* svt_block_on_semaphore.                                                  *)
LEMMA WaitOK ==
    ASSUME IInv, NEW t \in Threads, Wait(t)
    PROVE  IInv'
<1>a. /\ liveCount' = liveCount /\ releaseEnable' = releaseEnable
      /\ objectQueue' = objectQueue /\ processQueue' = processQueue /\ qlock' = qlock
      /\ fifo' = fifo /\ quit' = quit /\ sem' = [sem EXCEPT ![t] = @ - 1] /\ sem[t] > 0
      /\ op' = op /\ held' = held /\ active' = active /\ target' = target
      /\ signalled' = signalled /\ posting' = posting
      /\ pc[t] = "wait" /\ pc' = [pc EXCEPT ![t] = "pop"]
  BY DEF Wait, queues, wrappers, clients, shutdown
<1>b. pc \in [Threads -> PCs] /\ sem \in [Threads -> Nat]
  BY DEF IInv, TypeOK
<1>1. TypeOK'
  BY <1>a, <1>b DEF IInv, TypeOK, PCs
<1>2. BufInv'
  BY <1>a DEF IInv, BufInv
<1>3. RoleInv'
  <2>1. \A u \in Threads : QueueOf(u)' = QueueOf(u)
    BY <1>a DEF QueueOf
  <2> QED BY <1>a, <1>b, <2>1 DEF IInv, RoleInv
<1>4. SemInv'
  <2>1. \A g \in Threads : Signalled(g)' <=> Signalled(g)
    BY <1>a, <1>b DEF Signalled
  <2>2. sem'[t] = sem[t] - 1 /\ sem[t] \in Nat /\ pc'[t] = "pop"
    BY <1>a, <1>b
  <2>3. \A g \in Threads : g # t => sem'[g] = sem[g] /\ pc'[g] = pc[g]
    BY <1>a, <1>b
  <2> QED BY <1>a, <1>b, <2>1, <2>2, <2>3 DEF IInv, SemInv
<1>5. AskInv'
  <2>1. \A u \in Threads : Asking(u)' <=> Asking(u)
    BY <1>a, <1>b DEF Asking
  <2> QED BY <1>a, <2>1, AskFrame
<1>6. PinnersCalm
  BY <1>a, <1>b DEF PinnersCalm, Pinning
<1>7. LiveInv' /\ PlaceInv' /\ FifoInv'
  BY <1>a, <1>6, ClientFrame, PlaceFrame
<1> QED BY <1>1, <1>2, <1>3, <1>4, <1>5, <1>7 DEF IInv

\* A thread that polls looks at its fifo.
LEMMA PeekOK ==
    ASSUME IInv, NEW t \in Threads, Peek(t)
    PROVE  IInv'
<1>a. /\ liveCount' = liveCount /\ releaseEnable' = releaseEnable
      /\ objectQueue' = objectQueue /\ processQueue' = processQueue /\ qlock' = qlock
      /\ fifo' = fifo /\ quit' = quit /\ sem' = sem
      /\ op' = op /\ held' = held /\ active' = active /\ target' = target
      /\ signalled' = signalled /\ posting' = posting
      /\ pc[t] = "peek"
      /\ \E next \in {"idle", "again"} : pc' = [pc EXCEPT ![t] = next]
  BY DEF Peek, queues, fifos, wrappers, clients, shutdown
<1>b. pc \in [Threads -> PCs] /\ t \in Pollers
  BY <1>a DEF IInv, TypeOK, RoleInv
<1>1. TypeOK'
  BY <1>a, <1>b DEF IInv, TypeOK, PCs
<1>2. BufInv'
  BY <1>a DEF IInv, BufInv
<1>3. RoleInv'
  <2>1. \A u \in Threads : QueueOf(u)' = QueueOf(u)
    BY <1>a DEF QueueOf
  <2> QED BY <1>a, <1>b, <2>1 DEF IInv, RoleInv
<1>4. SemInv'
  BY <1>a, <1>b, SemFrame
<1>5. AskInv'
  <2>1. \A u \in Threads : Asking(u)' <=> Asking(u)
    BY <1>a, <1>b DEF Asking
  <2> QED BY <1>a, <2>1, AskFrame
<1>6. PinnersCalm
  BY <1>a, <1>b DEF PinnersCalm, Pinning
<1>7. LiveInv' /\ PlaceInv' /\ FifoInv'
  BY <1>a, <1>6, ClientFrame, PlaceFrame
<1> QED BY <1>1, <1>2, <1>3, <1>4, <1>5, <1>7 DEF IInv

-----------------------------------------------------------------------------
(* The clients.                                                             *)

(* The pool that has a pinner has one producer.                             *)
LEMMA SinglePinner == \A p \in Pinners, u \in Producers : p = u
<1> SUFFICES ASSUME NEW p \in Pinners, NEW u \in Producers
             PROVE  p = u
  OBVIOUS
<1>1. IsFiniteSet(Producers) /\ Cardinality(Producers) = 1 /\ p \in Producers
  BY PinnersAssumption, ThreadsAssumption
<1> QED BY <1>1, FS_Singleton

\* The number of holders, in terms of their set.
LEMMA UsersOK ==
    ASSUME NEW o
    PROVE  /\ IsFiniteSet(HoldersOf(o)) /\ Users(o) \in Nat
           /\ Users(o) = 0 <=> HoldersOf(o) = {}
           /\ \A t : Users(o) = 1 /\ t \in HoldersOf(o) => HoldersOf(o) = {t}
<1>1. IsFiniteSet(Threads)
  <2>1. IsFiniteSet(Producers \cup Consumers)
    BY ThreadsAssumption, FS_Union
  <2> QED BY <2>1, ThreadsAssumption, FS_Union DEF Threads
<1>2. IsFiniteSet(HoldersOf(o))
  BY <1>1, FS_Subset DEF HoldersOf
<1>3. Users(o) \in Nat /\ (Users(o) = 0 <=> HoldersOf(o) = {})
  BY <1>2, FS_CardinalityType, FS_EmptySet DEF Users
<1>4. Users(o) = 1 => \E x : HoldersOf(o) = {x}
  BY <1>2, FS_Singleton DEF Users
<1> QED BY <1>2, <1>3, <1>4

(* A reference more, a reference less.                                      *)
LEMMA HoldMore ==
    ASSUME TypeOK, NEW t \in Threads, NEW o \in Objects, o \notin held[t],
           held' = [held EXCEPT ![t] = @ \cup {o}]
    PROVE  /\ HoldersOf(o)' = HoldersOf(o) \cup {t} /\ Users(o)' = Users(o) + 1
           /\ \A x \in Objects : x # o => HoldersOf(x)' = HoldersOf(x) /\ Users(x)' = Users(x)
           /\ held' \in [Threads -> SUBSET Objects]
           /\ \A u \in Threads : u # t => held'[u] = held[u]
           /\ held'[t] = held[t] \cup {o}
<1>0. held \in [Threads -> SUBSET Objects]
  BY DEF TypeOK
<1>1. HoldersOf(o)' = HoldersOf(o) \cup {t}
  BY <1>0 DEF HoldersOf
<1>2. \A x \in Objects : x # o => HoldersOf(x)' = HoldersOf(x)
  BY <1>0 DEF HoldersOf
<1>3. t \notin HoldersOf(o) /\ IsFiniteSet(HoldersOf(o))
  BY UsersOK DEF HoldersOf
<1>4. Cardinality(HoldersOf(o) \cup {t}) = Cardinality(HoldersOf(o)) + 1
  BY <1>3, FS_AddElement
<1>5. Users(o)' = Users(o) + 1
  BY <1>1, <1>4 DEF Users
<1>6. \A x \in Objects : x # o => Users(x)' = Users(x)
  BY <1>2 DEF Users
<1> QED BY <1>0, <1>1, <1>2, <1>5, <1>6

\* A thread that lets go of a wrapper takes one from its holders and no other's.
LEMMA HoldLess ==
    ASSUME TypeOK, NEW t \in Threads, NEW o \in Objects, o \in held[t],
           held' = [held EXCEPT ![t] = @ \ {o}]
    PROVE  /\ HoldersOf(o)' = HoldersOf(o) \ {t} /\ Users(o)' = Users(o) - 1
           /\ Users(o) > 0
           /\ \A x \in Objects : x # o => HoldersOf(x)' = HoldersOf(x) /\ Users(x)' = Users(x)
           /\ held' \in [Threads -> SUBSET Objects]
           /\ \A u \in Threads : u # t => held'[u] = held[u]
           /\ held'[t] = held[t] \ {o}
<1>0. held \in [Threads -> SUBSET Objects]
  BY DEF TypeOK
<1>1. HoldersOf(o)' = HoldersOf(o) \ {t}
  BY <1>0 DEF HoldersOf
<1>2. \A x \in Objects : x # o => HoldersOf(x)' = HoldersOf(x)
  BY <1>0 DEF HoldersOf
<1>3. t \in HoldersOf(o) /\ IsFiniteSet(HoldersOf(o))
  BY UsersOK DEF HoldersOf
<1>4. Cardinality(HoldersOf(o) \ {t}) = Cardinality(HoldersOf(o)) - 1
  BY <1>3, FS_RemoveElement
<1>5. Users(o)' = Users(o) - 1
  BY <1>1, <1>4 DEF Users
<1>6. \A x \in Objects : x # o => Users(x)' = Users(x)
  BY <1>2 DEF Users
<1>7. Users(o) > 0
  BY <1>3, UsersOK
<1> QED BY <1>0, <1>1, <1>2, <1>5, <1>6, <1>7

(* A step that leaves the queues, fifos and semaphores alone.               *)
LEMMA QuietOK ==
    ASSUME IInv, objectQueue' = objectQueue, processQueue' = processQueue, qlock' = qlock,
           fifo' = fifo, sem' = sem, quit' = quit, op' = op, posting' = posting,
           \A u \in Threads :
              \/ pc'[u] = pc[u] /\ target'[u] = target[u]
              \/ /\ pc[u] \in Pinning \cup {"idle"} /\ pc'[u] \in Pinning \cup {"idle"}
                 /\ pc'[u] \in Pinning => u \in Pinners /\ target'[u] \in Objects
    PROVE  BufInv' /\ RoleInv' /\ SemInv' /\ AskInv'
<1>1. BufInv'
  BY DEF IInv, BufInv
<1>2. RoleInv'
  <2>1. \A u \in Threads : QueueOf(u)' = QueueOf(u)
    BY DEF QueueOf
  <2> QED BY <2>1 DEF IInv, RoleInv, Pinning
<1>3. SemInv'
  BY SemFrame DEF Pinning
<1>4. AskInv'
  <2>1. \A u \in Threads : Asking(u)' <=> Asking(u)
    BY DEF Asking, Pinning
  <2> QED BY <2>1, AskFrame
<1> QED BY <1>1, <1>2, <1>3, <1>4

(* Entering the muxing queue to post or to release.                         *)
LEMMA EnterOK ==
    ASSUME IInv, NEW t \in Threads, NEW q \in Queues, NEW what \in {"post", "release"},
           q = "empty" <=> what = "release", pc[t] \in {"idle", "drop"}, Enter(t, q, what),
           processQueue' = processQueue, fifo' = fifo, sem' = sem, quit' = quit,
           posting' = posting
    PROVE  RoleInv' /\ SemInv' /\ AskInv'
<1>a. /\ qlock[q] = NULL /\ qlock' = [qlock EXCEPT ![q] = t]
      /\ pc' = [pc EXCEPT ![t] = "assign"] /\ op' = [op EXCEPT ![t] = what]
      /\ target' = [target EXCEPT ![t] = NULL]
  BY DEF Enter
<1>b. /\ pc \in [Threads -> PCs] /\ op \in [Threads -> Ops] /\ qlock \in [Queues -> Threads \cup {NULL}]
      /\ target \in [Threads -> Threads \cup Objects \cup {NULL}]
  BY DEF IInv, TypeOK
<1>c. /\ pc'[t] = "assign" /\ op'[t] = what
      /\ \A u \in Threads : u # t => pc'[u] = pc[u] /\ op'[u] = op[u] /\ target'[u] = target[u]
  BY <1>a, <1>b
<1>1. RoleInv'
  <2>1. QueueOf(t)' = q /\ \A u \in Threads : u # t => QueueOf(u)' = QueueOf(u)
    BY <1>c DEF QueueOf, Queues
  <2>2. \A u \in Threads : pc[u] \in {"assign", "signal"} => qlock'[QueueOf(u)] = qlock[QueueOf(u)]
    BY <1>a, <1>b, Sizes, NullAssumption DEF IInv, RoleInv
  <2>3. qlock'[q] = t
    BY <1>a, <1>b
  <2> QED BY <1>c, <2>1, <2>2, <2>3 DEF IInv, RoleInv
<1>2. SemInv'
  BY <1>c, SemFrame
<1>3. AskInv'
  <2>1. \A u \in Threads : Asking(u)' <=> Asking(u)
    BY <1>c DEF Asking
  <2> QED BY <2>1, AskFrame
<1> QED BY <1>1, <1>2, <1>3

(* A wrapper that leaves the clients goes into a queue that has room.       *)
LEMMA PushOK ==
    ASSUME IInv, NEW q \in Queues, NEW o \in Objects, NEW new,
           new = PushBack(ObjectSlots, objectQueue[q], o)
              \/ new = PushFront(ObjectSlots, objectQueue[q], o),
           objectQueue' = [objectQueue EXCEPT ![q] = new],
           processQueue' = processQueue, fifo' = fifo,
           InClient(o), ~InClient(o)',
           \A x \in Objects : x # o => (InClient(x)' <=> InClient(x)),
           \A x \in Objects : x # o => liveCount'[x] = liveCount[x],
           q = "full" => liveCount'[o] = 0
    PROVE  /\ BufInv' /\ PlaceInv' /\ FifoInv'
           /\ objectQueue' \in [Queues -> Buffers(ObjectSlots, Objects)]
<1>0. objectQueue \in [Queues -> Buffers(ObjectSlots, Objects)]
  BY DEF IInv, TypeOK
<1>1. /\ \A r \in Queues : o \notin Queued(r)
      /\ \A t \in Threads : o \notin Linked(t)
  BY DEF IInv, PlaceInv
<1>2. WellFormed(ObjectSlots, Objects, new) /\ Members(new) = Queued(q) \cup {o}
  <2>1. WellFormed(ObjectSlots, Objects, objectQueue[q]) /\ o \notin Members(objectQueue[q])
    BY <1>1 DEF IInv, BufInv, Queued
  <2>2. \E i \in 0..(ObjectSlots - 1) : objectQueue[q].slot[i] = NULL
    BY <2>1, Room, Sizes
  <2>3. /\ WellFormed(ObjectSlots, Objects, PushBack(ObjectSlots, objectQueue[q], o))
        /\ Members(PushBack(ObjectSlots, objectQueue[q], o)) = Queued(q) \cup {o}
    BY <2>1, <2>2, PushBackOK, Sizes DEF Queued
  <2>4. /\ WellFormed(ObjectSlots, Objects, PushFront(ObjectSlots, objectQueue[q], o))
        /\ Members(PushFront(ObjectSlots, objectQueue[q], o)) = Queued(q) \cup {o}
    BY <2>1, <2>2, PushFrontOK, Sizes DEF Queued
  <2> QED BY <2>3, <2>4
<1>3. /\ objectQueue'[q] = new
      /\ \A r \in Queues : r # q => objectQueue'[r] = objectQueue[r]
  BY <1>0
<1>4. /\ Queued(q)' = Queued(q) \cup {o}
      /\ \A r \in Queues : r # q => Queued(r)' = Queued(r)
      /\ \A t \in Threads : Linked(t)' = Linked(t)
  BY <1>2, <1>3 DEF Queued, Linked
<1>5. objectQueue' \in [Queues -> Buffers(ObjectSlots, Objects)]
  BY <1>0, <1>2, <1>3 DEF WellFormed
<1>6. BufInv'
  BY <1>2, <1>3 DEF IInv, BufInv
<1>7. FifoInv'
  BY DEF IInv, FifoInv
<1>8. PlaceInv'
  <2>1. /\ "empty" \in Queues /\ "full" \in Queues /\ "empty" # "full"
        /\ \A r \in Queues : r = "empty" \/ r = "full"
        /\ Consumers \subseteq Threads
    BY DEF Queues, Threads
  <2>2. (Queued("empty") \cap Queued("full") = {})'
    BY <1>1, <1>4, <2>1 DEF IInv, PlaceInv
  <2>3. \A x \in Objects :
           (x \in Queued("full")' \/ \E c \in Consumers : x \in Linked(c)') => liveCount'[x] = 0
    BY <1>1, <1>4, <2>1 DEF IInv, PlaceInv
  <2> QED BY <1>1, <1>4, <2>2, <2>3 DEF IInv, PlaceInv
<1> QED BY <1>5, <1>6, <1>7, <1>8

(* svt_get_empty_object, the object: nobody had a reference to it.          *)
LEMMA PopEmptyOK ==
    ASSUME IInv, NEW p \in Threads, PopEmpty(p)
    PROVE  IInv'
<1>o. PICK o : o = Head(fifo[p])
  OBVIOUS
<1>a. /\ liveCount' = [liveCount EXCEPT ![o] = 0]
      /\ releaseEnable' = [releaseEnable EXCEPT ![o] = TRUE]
      /\ objectQueue' = objectQueue /\ processQueue' = processQueue /\ qlock' = qlock
      /\ fifo' = [fifo EXCEPT ![p] = Tail(@)] /\ quit' = quit /\ sem' = sem
      /\ op' = op /\ held' = [held EXCEPT ![p] = @ \cup {o}] /\ active' = active
      /\ target' = target /\ signalled' = signalled /\ posting' = posting
      /\ pc[p] = "pop" /\ p \in Producers /\ pc' = [pc EXCEPT ![p] = "idle"]
  BY <1>o DEF PopEmpty, PopFifo, queues, shutdown
<1>b. /\ pc \in [Threads -> PCs] /\ fifo \in [Threads -> Seq(Objects)]
      /\ sem \in [Threads -> Nat] /\ quit \in [Threads -> BOOLEAN]
      /\ liveCount \in [Objects -> Int] /\ releaseEnable \in [Objects -> BOOLEAN]
  BY DEF IInv, TypeOK
<1>c. /\ o \in Objects /\ o \in Linked(p) /\ fifo'[p] \in Seq(Objects)
      /\ Len(fifo'[p]) = Len(fifo[p]) - 1
      /\ Linked(p)' = Linked(p) \ {o} /\ Injective(fifo'[p])
      /\ \A u \in Threads : u # p => fifo'[u] = fifo[u] /\ Linked(u)' = Linked(u)
      /\ ~quit[p]
  <2>1. ~quit[p]
    BY <1>a, ThreadsAssumption DEF IInv, RoleInv
  <2>2. fifo[p] # <<>> /\ Injective(fifo[p])
    <3>1. Len(fifo[p]) = sem[p] + 1 + (IF Signalled(p) THEN 1 ELSE 0) /\ sem[p] \in Nat
      BY <1>a, <1>b, <2>1 DEF IInv, SemInv
    <3>2. Injective(fifo[p])
      BY DEF IInv, FifoInv, Injective
    <3> QED BY <3>1, <3>2
  <2>3. /\ Head(fifo[p]) \in Objects /\ Head(fifo[p]) \in Elements(fifo[p])
        /\ Tail(fifo[p]) \in Seq(Objects) /\ Len(Tail(fifo[p])) = Len(fifo[p]) - 1
        /\ Elements(Tail(fifo[p])) = Elements(fifo[p]) \ {Head(fifo[p])}
        /\ Injective(Tail(fifo[p]))
    BY <1>b, <2>2, FifoPopOK
  <2>4. fifo'[p] = Tail(fifo[p]) /\ \A u \in Threads : u # p => fifo'[u] = fifo[u]
    BY <1>a, <1>b
  <2> QED BY <1>o, <2>1, <2>3, <2>4 DEF Linked, Elements
<1>d. /\ ~InClient(o) /\ HoldersOf(o) = {} /\ Users(o) = 0 /\ \A u \in Threads : o \notin held[u]
      /\ \A q \in Queues : o \notin Queued(q)
      /\ \A u \in Threads : u # p => o \notin Linked(u)
  <2>1. ~InClient(o) /\ HoldersOf(o) = {}
    BY <1>c DEF IInv, PlaceInv, InClient
  <2> QED BY <1>c, <2>1, UsersOK DEF IInv, PlaceInv, HoldersOf
<1>e. /\ HoldersOf(o)' = {p} /\ Users(o)' = 1
      /\ \A x \in Objects : x # o => HoldersOf(x)' = HoldersOf(x) /\ Users(x)' = Users(x)
      /\ held' \in [Threads -> SUBSET Objects]
      /\ \A u \in Threads : u # p => held'[u] = held[u]
      /\ held'[p] = held[p] \cup {o}
  <2>1. TypeOK /\ o \notin held[p] /\ held' = [held EXCEPT ![p] = @ \cup {o}]
    BY <1>a, <1>d DEF IInv
  <2>2. /\ HoldersOf(o)' = HoldersOf(o) \cup {p} /\ Users(o)' = Users(o) + 1
        /\ \A x \in Objects : x # o => HoldersOf(x)' = HoldersOf(x) /\ Users(x)' = Users(x)
        /\ held' \in [Threads -> SUBSET Objects]
        /\ \A u \in Threads : u # p => held'[u] = held[u]
        /\ held'[p] = held[p] \cup {o}
    <3>1. o \in Objects
      BY <1>c
    <3> QED BY <2>1, <3>1, HoldMore
  <2>3. HoldersOf(o)' = {p} /\ Users(o)' = 1
    BY <1>d, <2>2
  <2> QED BY <2>2, <2>3
<1>f. /\ liveCount'[o] = 0 /\ releaseEnable'[o] = TRUE
      /\ \A x \in Objects : x # o => liveCount'[x] = liveCount[x] /\ releaseEnable'[x] = releaseEnable[x]
  BY <1>a, <1>b, <1>c
<1>g. pc'[p] = "idle" /\ \A u \in Threads : u # p => pc'[u] = pc[u]
  BY <1>a, <1>b
<1>h. \A q \in Pinners : q = p
  BY <1>a, SinglePinner
<1>i. \A q \in Pinners : active[q] # o
  BY <1>d DEF InClient, KeptBy
<1>1. TypeOK'
  <2>1. fifo' \in [Threads -> Seq(Objects)]
    BY <1>a, <1>b, <1>c
  <2> QED BY <1>a, <1>b, <1>e, <2>1 DEF IInv, TypeOK, PCs
<1>2. BufInv'
  BY <1>a DEF IInv, BufInv
<1>3. RoleInv'
  <2>1. \A u \in Threads : QueueOf(u)' = QueueOf(u)
    BY <1>a DEF QueueOf
  <2> QED BY <1>a, <1>g, <2>1 DEF IInv, RoleInv
<1>4. SemInv'
  <2>1. \A g \in Threads : Signalled(g)' <=> Signalled(g)
    BY <1>a, <1>g DEF Signalled
  <2>2. Len(fifo[p]) \in Nat
    BY <1>b
  <2> QED BY <1>a, <1>b, <1>c, <1>g, <2>1, <2>2 DEF IInv, SemInv
<1>5. AskInv'
  <2>1. \A u \in Threads : Registered(u)' <=> Registered(u)
    BY <1>a DEF Registered
  <2>2. \A u \in Threads : u # p => (Asking(u)' <=> Asking(u))
    BY <1>a, <1>g DEF Asking
  <2>3. p \notin Pollers
    BY <1>a, ThreadsAssumption
  <2>4. fifo'[p] = <<>> /\ ~Registered(p)
    <3>1. Len(fifo[p]) =< 1 /\ fifo[p] # <<>> /\ ~Registered(p)
      BY <1>c, <2>3 DEF IInv, AskInv, Linked
    <3> QED BY <1>b, <1>c, <3>1
  <2> QED BY <1>c, <2>1, <2>2, <2>3, <2>4 DEF IInv, AskInv
<1>6. FifoInv'
  BY <1>c DEF IInv, FifoInv, Injective
<1>7. \A x \in Objects : InClient(x)' <=> InClient(x) \/ x = o
  <2>1. \A q \in Pinners, x \in Objects : x # o => (KeptBy(q, x)' <=> KeptBy(q, x))
    BY <1>a, <1>f, <1>g, <1>h DEF KeptBy
  <2> QED BY <1>d, <1>e, <2>1 DEF InClient
<1>8. PlaceInv'
  <2>1. \A q \in Queues : Queued(q)' = Queued(q)
    BY <1>a DEF Queued
  <2>2. "empty" \in Queues /\ "full" \in Queues /\ Consumers \subseteq Threads
    BY DEF Queues, Threads
  <2> QED BY <1>c, <1>d, <1>f, <1>7, <2>1, <2>2 DEF IInv, PlaceInv
<1>9. LiveInv'
  <2>1. LiveCountAgrees'
    <3>1. \A x \in Objects : Users(x)' = Cardinality(HoldersOf(x)') /\ Users(x) = Cardinality(HoldersOf(x))
      BY DEF Users
    <3> QED BY <1>a, <1>e, <1>f, <1>i, <3>1 DEF IInv, LiveInv, LiveCountAgrees
  <2>2. \A q \in Pinners : pc[q] = "pop" /\ pc'[q] = "idle" /\ active'[q] = active[q]
    BY <1>a, <1>g, <1>h
  <2>3. \A q \in Pinners, x \in Objects :
           active'[q] = x => liveCount'[x] = Users(x)' /\ ~releaseEnable'[x]
    BY <1>e, <1>f, <1>i, <2>2 DEF IInv, LiveInv
  <2>4. \A x \in Objects : ~releaseEnable'[x] => \E q \in Pinners : active'[q] = x
    BY <1>f, <2>2 DEF IInv, LiveInv
  <2>5. \A q \in Pinners, x \in Objects : x \in held'[q] => liveCount'[x] = 0 /\ active'[q] # x
    BY <1>e, <1>f, <1>h, <1>i, <2>2 DEF IInv, LiveInv
  <2> QED BY <2>1, <2>2, <2>3, <2>4, <2>5 DEF LiveInv
<1> QED BY <1>1, <1>2, <1>3, <1>4, <1>5, <1>6, <1>8, <1>9 DEF IInv

(* svt_get_full_object, the object: posted by the only one who had a        *)
(* reference.                                                               *)
LEMMA PopFullOK ==
    ASSUME IInv, NEW c \in Threads, PopFull(c)
    PROVE  IInv'
<1>a. /\ liveCount' = liveCount /\ releaseEnable' = releaseEnable
      /\ objectQueue' = objectQueue /\ processQueue' = processQueue /\ qlock' = qlock
      /\ quit' = quit /\ sem' = sem /\ op' = op /\ active' = active
      /\ target' = target /\ signalled' = signalled /\ posting' = posting
      /\ pc[c] = "pop" /\ c \in Consumers
  BY DEF PopFull, queues, wrappers, shutdown
<1>b. /\ pc \in [Threads -> PCs] /\ fifo \in [Threads -> Seq(Objects)]
      /\ sem \in [Threads -> Nat] /\ quit \in [Threads -> BOOLEAN]
      /\ liveCount \in [Objects -> Int]
  BY DEF IInv, TypeOK
<1>h. \A q \in Pinners : q # c
  BY <1>a, ThreadsAssumption
<1>q. \A u \in Threads : QueueOf(u)' = QueueOf(u)
  BY <1>a DEF QueueOf
<1>r. \A u \in Threads : Registered(u)' <=> Registered(u)
  BY <1>a DEF Registered
<1>2. BufInv'
  BY <1>a DEF IInv, BufInv
<1>3. CASE quit[c]
  <2>a. pc' = [pc EXCEPT ![c] = "exited"] /\ fifo' = fifo /\ held' = held
    BY <1>3 DEF PopFull
  <2>b. pc'[c] = "exited" /\ \A u \in Threads : u # c => pc'[u] = pc[u]
    BY <1>b, <2>a
  <2>1. TypeOK'
    BY <1>a, <1>b, <2>a DEF IInv, TypeOK, PCs
  <2>3. RoleInv'
    BY <1>a, <1>q, <2>b DEF IInv, RoleInv
  <2>4. SemInv'
    <3>1. \A g \in Threads : Signalled(g)' <=> Signalled(g)
      BY <1>a, <2>b DEF Signalled
    <3> QED BY <1>3, <1>a, <2>a, <2>b, <3>1 DEF IInv, SemInv
  <2>5. AskInv'
    <3>1. \A u \in Threads : Asking(u)' <=> Asking(u)
      BY <1>a, <2>b DEF Asking
    <3> QED BY <1>a, <2>a, <3>1, AskFrame
  <2>6. PinnersCalm
    BY <1>a, <2>b, <1>h, ThreadsAssumption DEF PinnersCalm, Pinning, Threads
  <2>7. LiveInv' /\ PlaceInv' /\ FifoInv'
    BY <1>a, <2>a, <2>6, ClientFrame, PlaceFrame
  <2> QED BY <1>2, <2>1, <2>3, <2>4, <2>5, <2>7 DEF IInv
<1>4. CASE ~quit[c]
  <2>o. PICK o : o = Head(fifo[c])
    OBVIOUS
  <2>a. /\ fifo' = [fifo EXCEPT ![c] = Tail(@)] /\ held' = [held EXCEPT ![c] = @ \cup {o}]
        /\ pc' = [pc EXCEPT ![c] = "idle"]
    BY <1>4, <2>o DEF PopFull, PopFifo
  <2>b. pc'[c] = "idle" /\ \A u \in Threads : u # c => pc'[u] = pc[u]
    BY <1>b, <2>a
  <2>c. /\ o \in Objects /\ o \in Linked(c) /\ fifo'[c] \in Seq(Objects)
        /\ Len(fifo'[c]) = Len(fifo[c]) - 1
        /\ Linked(c)' = Linked(c) \ {o} /\ Injective(fifo'[c])
        /\ \A u \in Threads : u # c => fifo'[u] = fifo[u] /\ Linked(u)' = Linked(u)
    <3>2. fifo[c] # <<>> /\ Injective(fifo[c])
      <4>1. Len(fifo[c]) = sem[c] + 1 + (IF Signalled(c) THEN 1 ELSE 0) /\ sem[c] \in Nat
        BY <1>4, <1>a, <1>b DEF IInv, SemInv
      <4>2. Injective(fifo[c])
        BY DEF IInv, FifoInv, Injective
      <4> QED BY <4>1, <4>2
    <3>3. /\ Head(fifo[c]) \in Objects /\ Head(fifo[c]) \in Elements(fifo[c])
          /\ Tail(fifo[c]) \in Seq(Objects) /\ Len(Tail(fifo[c])) = Len(fifo[c]) - 1
          /\ Elements(Tail(fifo[c])) = Elements(fifo[c]) \ {Head(fifo[c])}
          /\ Injective(Tail(fifo[c]))
      BY <1>b, <3>2, FifoPopOK
    <3>4. fifo'[c] = Tail(fifo[c]) /\ \A u \in Threads : u # c => fifo'[u] = fifo[u]
      BY <1>b, <2>a
    <3> QED BY <2>o, <3>3, <3>4 DEF Linked, Elements
  <2>d. /\ ~InClient(o) /\ HoldersOf(o) = {} /\ Users(o) = 0 /\ o \notin held[c]
        /\ \A q \in Queues : o \notin Queued(q)
        /\ \A u \in Threads : u # c => o \notin Linked(u)
        /\ liveCount[o] = 0
    <3>1. ~InClient(o) /\ HoldersOf(o) = {}
      BY <2>c DEF IInv, PlaceInv, InClient
    <3>2. liveCount[o] = 0
      BY <1>a, <2>c DEF IInv, PlaceInv
    <3> QED BY <2>c, <3>1, <3>2, UsersOK DEF IInv, PlaceInv, HoldersOf
  <2>e. /\ HoldersOf(o)' = {c} /\ Users(o)' = 1
        /\ \A x \in Objects : x # o => HoldersOf(x)' = HoldersOf(x) /\ Users(x)' = Users(x)
        /\ held' \in [Threads -> SUBSET Objects]
        /\ \A u \in Threads : u # c => held'[u] = held[u]
    <3>1. TypeOK /\ o \notin held[c] /\ held' = [held EXCEPT ![c] = @ \cup {o}] /\ o \in Objects
      BY <2>a, <2>c, <2>d DEF IInv
    <3>2. /\ HoldersOf(o)' = HoldersOf(o) \cup {c} /\ Users(o)' = Users(o) + 1
          /\ \A x \in Objects : x # o => HoldersOf(x)' = HoldersOf(x) /\ Users(x)' = Users(x)
          /\ held' \in [Threads -> SUBSET Objects]
          /\ \A u \in Threads : u # c => held'[u] = held[u]
      BY <3>1, HoldMore
    <3>3. HoldersOf(o)' = {c} /\ Users(o)' = 1
      BY <2>d, <3>2
    <3> QED BY <3>2, <3>3
  <2>f. \A q \in Pinners : pc'[q] = pc[q] /\ target'[q] = target[q] /\ active'[q] = active[q] /\ held'[q] = held[q]
    BY <1>a, <1>h, <2>b, <2>e, ThreadsAssumption DEF Threads
  <2>g. \A q \in Pinners : active[q] # o /\ (target[q] = o => pc[q] \notin Pinning)
    BY <2>d DEF InClient, KeptBy, Pinning
  <2>1. TypeOK'
    <3>1. fifo' \in [Threads -> Seq(Objects)]
      BY <2>a, <1>b, <2>c
    <3> QED BY <1>a, <1>b, <2>a, <2>e, <3>1 DEF IInv, TypeOK, PCs
  <2>3. RoleInv'
    BY <1>a, <1>q, <2>b DEF IInv, RoleInv
  <2>4. SemInv'
    <3>1. \A g \in Threads : Signalled(g)' <=> Signalled(g)
      BY <1>a, <2>b DEF Signalled
    <3>2. Len(fifo[c]) \in Nat
      BY <1>b
    <3>3. /\ Len(fifo[c]) = sem[c] + 1 + (IF Signalled(c) THEN 1 ELSE 0) /\ sem[c] \in Nat
          /\ pc'[c] # "pop" /\ Len(fifo'[c]) = Len(fifo[c]) - 1
      BY <1>4, <1>a, <1>b, <2>b, <2>c DEF IInv, SemInv
    <3>4. \A g \in Threads : g # c => Len(fifo'[g]) = Len(fifo[g]) /\ pc'[g] = pc[g]
      BY <2>b, <2>c
    <3> QED BY <1>a, <3>1, <3>3, <3>4 DEF IInv, SemInv
  <2>5. AskInv'
    <3>2. \A u \in Threads : u # c => (Asking(u)' <=> Asking(u))
      BY <1>a, <2>b DEF Asking
    <3>3. CASE c \in Pollers
      BY <1>r, <2>c, <3>2, <3>3 DEF IInv, AskInv
    <3>4. CASE c \notin Pollers
      <4>1. Len(fifo[c]) =< 1 /\ fifo[c] # <<>> /\ ~Registered(c)
        BY <2>c, <3>4 DEF IInv, AskInv, Linked
      <4>2. fifo'[c] = <<>>
        BY <1>b, <2>c, <4>1
      <4> QED BY <1>r, <2>c, <3>2, <4>1, <4>2 DEF IInv, AskInv
    <3> QED BY <3>3, <3>4
  <2>6. FifoInv'
    BY <2>c DEF IInv, FifoInv, Injective
  <2>7. \A x \in Objects : InClient(x)' <=> InClient(x) \/ x = o
    <3>1. \A q \in Pinners, x \in Objects : x # o => (KeptBy(q, x)' <=> KeptBy(q, x))
      BY <1>a, <2>f DEF KeptBy
    <3> QED BY <2>d, <2>e, <3>1 DEF InClient
  <2>8. PlaceInv'
    <3>1. \A q \in Queues : Queued(q)' = Queued(q)
      BY <1>a DEF Queued
    <3>2. "empty" \in Queues /\ "full" \in Queues /\ Consumers \subseteq Threads
      BY DEF Queues, Threads
    <3> QED BY <1>a, <2>c, <2>d, <2>7, <3>1, <3>2 DEF IInv, PlaceInv
  <2>9. LiveInv'
    <3>1. LiveCountAgrees'
      <4>1. \A x \in Objects : Users(x)' = Cardinality(HoldersOf(x)') /\ Users(x) = Cardinality(HoldersOf(x))
        BY DEF Users
      <4> QED BY <1>a, <2>d, <2>e, <2>g, <4>1 DEF IInv, LiveInv, LiveCountAgrees
    <3> QED BY <1>a, <2>e, <2>f, <2>g, <3>1 DEF IInv, LiveInv, Pinning
  <2> QED BY <1>2, <2>1, <2>3, <2>4, <2>5, <2>6, <2>8, <2>9 DEF IInv
<1> QED BY <1>3, <1>4

(* A thread that sees a live count of zero is the only user.                *)
LEMMA OnlyUser ==
    ASSUME IInv, NEW t \in Threads, NEW o \in Objects, o \in held[t]
    PROVE  /\ Users(o) > 0 /\ InClient(o)
           /\ liveCount[o] = Users(o) \/ (liveCount[o] = 0 /\ Users(o) = 1)
           /\ Users(o) = 1 => HoldersOf(o) = {t}
<1>1. t \in HoldersOf(o)
  BY DEF HoldersOf
<1>2. Users(o) \in Nat /\ Users(o) # 0 /\ InClient(o)
  BY <1>1, UsersOK DEF InClient
<1>3. liveCount[o] = Users(o) \/ (liveCount[o] = 0 /\ Users(o) = 1)
  BY <1>2 DEF IInv, LiveInv, LiveCountAgrees, Users
<1> QED BY <1>1, <1>2, <1>3, UsersOK

(* svt_post_full_object.                                                    *)
LEMMA PostOK ==
    ASSUME IInv, NEW p \in Threads, NEW o \in Objects, Post(p, o)
    PROVE  IInv'
<1>a. /\ liveCount' = liveCount /\ releaseEnable' = releaseEnable
      /\ objectQueue' = [objectQueue EXCEPT !["full"] = PushBack(ObjectSlots, @, o)]
      /\ processQueue' = processQueue /\ fifo' = fifo /\ quit' = quit /\ sem' = sem
      /\ held' = [held EXCEPT ![p] = @ \ {o}] /\ active' = active
      /\ signalled' = signalled /\ posting' = posting
      /\ pc[p] = "idle" /\ p \in Producers /\ p \notin Pinners /\ o \in held[p]
      /\ liveCount[o] = 0 /\ Enter(p, "full", "post")
  BY DEF Post, fifos, wrappers, shutdown
<1>b. /\ qlock' = [qlock EXCEPT !["full"] = p] /\ pc' = [pc EXCEPT ![p] = "assign"]
      /\ op' = [op EXCEPT ![p] = "post"] /\ target' = [target EXCEPT ![p] = NULL]
  BY <1>a DEF Enter
<1>c. Pinners = {}
  BY <1>a, SinglePinner
<1>d. Users(o) = 1 /\ HoldersOf(o) = {p} /\ InClient(o)
  BY <1>a, OnlyUser
<1>e. /\ HoldersOf(o)' = {} /\ Users(o)' = 0
      /\ \A x \in Objects : x # o => HoldersOf(x)' = HoldersOf(x) /\ Users(x)' = Users(x)
      /\ held' \in [Threads -> SUBSET Objects]
  <2>1. /\ HoldersOf(o)' = HoldersOf(o) \ {p} /\ Users(o)' = Users(o) - 1
        /\ \A x \in Objects : x # o => HoldersOf(x)' = HoldersOf(x) /\ Users(x)' = Users(x)
        /\ held' \in [Threads -> SUBSET Objects]
    BY <1>a, HoldLess DEF IInv
  <2> QED BY <1>d, <2>1
<1>f. ~InClient(o)' /\ \A x \in Objects : x # o => (InClient(x)' <=> InClient(x))
  BY <1>c, <1>e DEF InClient
<1>1. BufInv' /\ PlaceInv' /\ FifoInv' /\ objectQueue' \in [Queues -> Buffers(ObjectSlots, Objects)]
  <2>1. PICK new : new = PushBack(ObjectSlots, objectQueue["full"], o)
    OBVIOUS
  <2>2. objectQueue' = [objectQueue EXCEPT !["full"] = new]
    BY <1>a, <2>1
  <2> QED BY <1>a, <1>d, <1>f, <2>1, <2>2, PushOK DEF Queues
<1>2. TypeOK'
  BY <1>a, <1>b, <1>e, <1>1 DEF IInv, TypeOK, PCs, Ops, Queues
<1>3. RoleInv' /\ SemInv' /\ AskInv'
  BY <1>a, EnterOK DEF Queues
<1>4. LiveInv'
  <2>1. \A x \in Objects : Users(x)' = Cardinality(HoldersOf(x)') /\ Users(x) = Cardinality(HoldersOf(x))
    BY DEF Users
  <2> QED BY <1>a, <1>c, <1>e, <2>1 DEF IInv, LiveInv, LiveCountAgrees
<1> QED BY <1>1, <1>2, <1>3, <1>4 DEF IInv

(* svt_release_object.  The last reference puts the wrapper back; another   *)
(* one only lowers the count, and then somebody still has the wrapper.      *)
LEMMA ReleaseOK ==
    ASSUME IInv, NEW t \in Threads, NEW o \in Objects, Release(t, o)
    PROVE  IInv'
<1>a. /\ releaseEnable' = releaseEnable /\ processQueue' = processQueue
      /\ fifo' = fifo /\ quit' = quit /\ sem' = sem
      /\ held' = [held EXCEPT ![t] = @ \ {o}] /\ active' = active
      /\ signalled' = signalled /\ posting' = posting
      /\ pc[t] = "idle" /\ t \notin Pinners /\ o \in held[t]
  BY DEF Release, ReleaseBody, fifos, shutdown
<1>b. /\ liveCount \in [Objects -> Int] /\ pc \in [Threads -> PCs]
      /\ target \in [Threads -> Threads \cup Objects \cup {NULL}]
  BY DEF IInv, TypeOK
<1>d. /\ Users(o) > 0 /\ InClient(o) /\ Users(o) \in Nat
      /\ liveCount[o] = Users(o) \/ (liveCount[o] = 0 /\ Users(o) = 1)
      /\ Users(o) = 1 => HoldersOf(o) = {t}
  BY <1>a, OnlyUser, UsersOK
<1>e. /\ HoldersOf(o)' = HoldersOf(o) \ {t} /\ Users(o)' = Users(o) - 1
      /\ \A x \in Objects : x # o => HoldersOf(x)' = HoldersOf(x) /\ Users(x)' = Users(x)
      /\ held' \in [Threads -> SUBSET Objects]
      /\ \A u \in Threads : u # t => held'[u] = held[u]
  BY <1>a, HoldLess DEF IInv
<1>g. \A p \in Pinners : p \in Threads /\ p # t
  BY <1>a, ThreadsAssumption DEF Threads
<1>k. \A p \in Pinners :
         /\ active[p] = o => liveCount[o] = Users(o) /\ ~releaseEnable[o]
         /\ target[p] = o /\ pc[p] = "unpin" => liveCount[o] = Users(o) /\ ~releaseEnable[o]
         /\ target[p] = o /\ pc[p] = "check" => liveCount[o] = Users(o) /\ releaseEnable[o]
         /\ ~(target[p] = o /\ pc[p] = "drop")
  BY <1>d DEF IInv, LiveInv
<1>u. \A x \in Objects : Users(x)' = Cardinality(HoldersOf(x)') /\ Users(x) = Cardinality(HoldersOf(x))
  BY DEF Users
<1>1. CASE releaseEnable[o] /\ DecLive(liveCount[o]) = 0
  <2>a. /\ liveCount' = [liveCount EXCEPT ![o] = Released]
        /\ objectQueue' = [objectQueue EXCEPT !["empty"] = PushFront(ObjectSlots, @, o)]
        /\ Enter(t, "empty", "release")
    BY <1>1 DEF Release, ReleaseBody
  <2>b. /\ qlock' = [qlock EXCEPT !["empty"] = t] /\ pc' = [pc EXCEPT ![t] = "assign"]
        /\ op' = [op EXCEPT ![t] = "release"] /\ target' = [target EXCEPT ![t] = NULL]
    BY <2>a DEF Enter
  <2>c. /\ liveCount'[o] = -1
        /\ \A x \in Objects : x # o => liveCount'[x] = liveCount[x]
    BY <1>b, <2>a DEF Released
  <2>d. Users(o) = 1 /\ HoldersOf(o)' = {} /\ Users(o)' = 0
    BY <1>1, <1>b, <1>d, <1>e DEF DecLive
  <2>e. \A p \in Pinners : pc'[p] = pc[p] /\ target'[p] = target[p] /\ active'[p] = active[p] /\ held'[p] = held[p]
    BY <1>a, <1>b, <1>e, <1>g, <2>b
  <2>f. ~InClient(o)' /\ \A x \in Objects : x # o => (InClient(x)' <=> InClient(x))
    <3>1. \A p \in Pinners : ~KeptBy(p, o)'
      BY <1>1, <1>k, <2>c, <2>e DEF KeptBy
    <3>2. \A p \in Pinners, x \in Objects : x # o => (KeptBy(p, x)' <=> KeptBy(p, x))
      BY <2>c, <2>e DEF KeptBy
    <3> QED BY <1>e, <2>d, <3>1, <3>2 DEF InClient
  <2>1. BufInv' /\ PlaceInv' /\ FifoInv' /\ objectQueue' \in [Queues -> Buffers(ObjectSlots, Objects)]
    <3>1. PICK new : new = PushFront(ObjectSlots, objectQueue["empty"], o)
      OBVIOUS
    <3>2. objectQueue' = [objectQueue EXCEPT !["empty"] = new]
      BY <2>a, <3>1
    <3> QED BY <1>a, <1>d, <2>c, <2>f, <3>1, <3>2, PushOK DEF Queues
  <2>2. TypeOK'
    BY <1>a, <1>e, <2>a, <2>b, <2>1 DEF IInv, TypeOK, PCs, Ops, Queues, Released
  <2>3. RoleInv' /\ SemInv' /\ AskInv'
    BY <1>a, <2>a, EnterOK DEF Queues
  <2>4. LiveInv'
    <3>1. LiveCountAgrees'
      BY <1>1, <1>a, <1>e, <1>k, <1>u, <2>c, <2>d, <2>e DEF IInv, LiveInv, LiveCountAgrees
    <3>2. \A p \in Pinners, x \in Objects : x \in held'[p] => liveCount'[x] = 0 /\ active'[p] # x
      <4>1. \A p \in Pinners : o \notin held'[p]
        BY <1>g, <2>d DEF HoldersOf
      <4> QED BY <2>c, <2>e, <4>1 DEF IInv, LiveInv
    <3>3. \A x \in Objects : ~releaseEnable'[x] =>
             \E p \in Pinners : active'[p] = x \/ (pc'[p] = "unpin" /\ target'[p] = x)
      BY <1>a, <2>e DEF IInv, LiveInv
    <3>4. \A p \in Pinners, x \in Objects :
             /\ active'[p] = x => liveCount'[x] = Users(x)' /\ ~releaseEnable'[x]
             /\ target'[p] = x /\ pc'[p] \in {"unpin", "check", "drop"} => active'[p] # x
             /\ target'[p] = x /\ pc'[p] = "unpin" => liveCount'[x] = Users(x)' /\ ~releaseEnable'[x]
             /\ target'[p] = x /\ pc'[p] = "check" =>
                   /\ releaseEnable'[x]
                   /\ liveCount'[x] = Users(x)' \/ (liveCount'[x] = Released /\ Users(x)' = 0)
             /\ target'[p] = x /\ pc'[p] = "drop" =>
                   liveCount'[x] = 0 /\ Users(x)' = 0 /\ releaseEnable'[x]
      BY <1>1, <1>a, <1>e, <1>k, <2>c, <2>d, <2>e DEF IInv, LiveInv, Released
    <3> QED BY <3>1, <3>2, <3>3, <3>4 DEF LiveInv
  <2> QED BY <2>1, <2>2, <2>3, <2>4 DEF IInv
<1>2. CASE ~(releaseEnable[o] /\ DecLive(liveCount[o]) = 0)
  <2>a. /\ liveCount' = [liveCount EXCEPT ![o] = DecLive(@)]
        /\ objectQueue' = objectQueue /\ qlock' = qlock /\ op' = op
        /\ pc' = [pc EXCEPT ![t] = "idle"] /\ target' = [target EXCEPT ![t] = NULL]
    BY <1>2 DEF Release, ReleaseBody
  <2>c. liveCount[o] = Users(o) /\ (Users(o) = 1 => ~releaseEnable[o])
    <3>1. ~releaseEnable[o] => liveCount[o] = Users(o)
      BY <1>k DEF IInv, LiveInv
    <3> QED BY <1>2, <1>d, <3>1 DEF DecLive
  <2>d. /\ liveCount'[o] = Users(o) - 1 /\ liveCount'[o] = Users(o)'
        /\ \A x \in Objects : x # o => liveCount'[x] = liveCount[x]
    BY <1>b, <1>d, <1>e, <2>a, <2>c DEF DecLive
  <2>e. \A p \in Pinners : pc'[p] = pc[p] /\ target'[p] = target[p] /\ active'[p] = active[p] /\ held'[p] = held[p]
    BY <1>a, <1>b, <1>e, <1>g, <2>a
  <2>f. \A x \in Objects : InClient(x)' <=> InClient(x)
    <3>1. \A p \in Pinners, x \in Objects : x # o => (KeptBy(p, x)' <=> KeptBy(p, x))
      BY <2>d, <2>e DEF KeptBy
    <3>2. InClient(o)'
      <4>1. CASE Users(o) = 1
        <5>1. PICK p \in Pinners : active[p] = o \/ (pc[p] = "unpin" /\ target[p] = o)
          BY <2>c, <4>1 DEF IInv, LiveInv
        <5>2. KeptBy(p, o)'
          BY <5>1, <2>e DEF KeptBy
        <5> QED BY <5>2 DEF InClient
      <4>2. CASE Users(o) # 1
        <5>1. HoldersOf(o) # {t}
          BY <4>2, FS_Singleton DEF Users
        <5>2. HoldersOf(o) # {}
          BY <1>d, UsersOK
        <5> QED BY <1>e, <5>1, <5>2 DEF InClient
      <4> QED BY <4>1, <4>2
    <3> QED BY <1>d, <1>e, <3>1, <3>2 DEF InClient
  <2>1. PlaceInv' /\ FifoInv'
    <3>1. \A x \in Objects : InClient(x) \/ liveCount'[x] = liveCount[x]
      BY <1>d, <2>d
    <3> QED BY <1>a, <2>a, <2>f, <3>1, PlaceFrame
  <2>2. TypeOK'
    <3>1. liveCount' \in [Objects -> Int]
      BY <1>b, <2>a DEF DecLive
    <3> QED BY <1>a, <1>e, <2>a, <3>1 DEF IInv, TypeOK, PCs
  <2>3. BufInv' /\ RoleInv' /\ SemInv' /\ AskInv'
    <3>1. \A u \in Threads :
             \/ pc'[u] = pc[u] /\ target'[u] = target[u]
             \/ pc[u] = "idle" /\ pc'[u] = "idle"
      BY <1>a, <1>b, <2>a
    <3> QED BY <1>a, <2>a, <3>1, QuietOK DEF Pinning
  <2>4. LiveInv'
    <3>1. LiveCountAgrees'
      BY <1>a, <1>e, <1>u, <2>d, <2>e DEF IInv, LiveInv, LiveCountAgrees
    <3>2. \A p \in Pinners, x \in Objects : x \in held'[p] => liveCount'[x] = 0 /\ active'[p] # x
      <4>1. \A p \in Pinners : o \notin held[p]
        BY <1>d, <2>c DEF IInv, LiveInv
      <4> QED BY <2>d, <2>e, <4>1 DEF IInv, LiveInv
    <3>3. \A x \in Objects : ~releaseEnable'[x] =>
             \E p \in Pinners : active'[p] = x \/ (pc'[p] = "unpin" /\ target'[p] = x)
      BY <1>a, <2>e DEF IInv, LiveInv
    <3>4. \A p \in Pinners, x \in Objects :
             /\ active'[p] = x => liveCount'[x] = Users(x)' /\ ~releaseEnable'[x]
             /\ target'[p] = x /\ pc'[p] \in {"unpin", "check", "drop"} => active'[p] # x
             /\ target'[p] = x /\ pc'[p] = "unpin" => liveCount'[x] = Users(x)' /\ ~releaseEnable'[x]
             /\ target'[p] = x /\ pc'[p] = "check" =>
                   /\ releaseEnable'[x]
                   /\ liveCount'[x] = Users(x)' \/ (liveCount'[x] = Released /\ Users(x)' = 0)
             /\ target'[p] = x /\ pc'[p] = "drop" =>
                   liveCount'[x] = 0 /\ Users(x)' = 0 /\ releaseEnable'[x]
      BY <1>a, <1>e, <1>k, <2>d, <2>e DEF IInv, LiveInv
    <3> QED BY <3>1, <3>2, <3>3, <3>4 DEF LiveInv
  <2> QED BY <2>1, <2>2, <2>3, <2>4 DEF IInv
<1> QED BY <1>1, <1>2

(* The producer's own reference becomes a counted one.                      *)
LEMMA ClaimOK ==
    ASSUME IInv, NEW p \in Threads, NEW o \in Objects, Claim(p, o)
    PROVE  IInv'
<1>a. /\ releaseEnable' = releaseEnable /\ processQueue' = processQueue
      /\ objectQueue' = objectQueue /\ qlock' = qlock
      /\ fifo' = fifo /\ quit' = quit /\ sem' = sem
      /\ pc' = pc /\ op' = op /\ target' = target
      /\ held' = held /\ active' = active /\ signalled' = signalled /\ posting' = posting
      /\ p \in Producers /\ p \notin Pinners /\ o \in held[p] /\ liveCount[o] = 0
      /\ liveCount' = [liveCount EXCEPT ![o] = @ + 1]
  BY DEF Claim, queues, fifos, threads, clients, shutdown
<1>b. liveCount \in [Objects -> Int]
  BY DEF IInv, TypeOK
<1>c. Pinners = {}
  BY <1>a, SinglePinner
<1>d. Users(o) = 1 /\ InClient(o)
  BY <1>a, OnlyUser
<1>e. \A x \in Objects : /\ HoldersOf(x)' = HoldersOf(x) /\ Users(x)' = Users(x)
                         /\ InClient(x)' <=> InClient(x)
  BY <1>a, <1>c DEF HoldersOf, Users, InClient
<1>f. liveCount'[o] = 1 /\ \A x \in Objects : x # o => liveCount'[x] = liveCount[x]
  BY <1>a, <1>b
<1>1. TypeOK'
  <2>1. liveCount' \in [Objects -> Int]
    BY <1>a, <1>b
  <2> QED BY <1>a, <2>1 DEF IInv, TypeOK
<1>2. BufInv' /\ RoleInv' /\ SemInv' /\ AskInv'
  BY <1>a, QuietOK
<1>3. PlaceInv' /\ FifoInv'
  BY <1>a, <1>d, <1>e, <1>f, PlaceFrame
<1>4. LiveInv'
  BY <1>a, <1>c, <1>d, <1>e, <1>f DEF IInv, LiveInv, LiveCountAgrees, Users
<1> QED BY <1>1, <1>2, <1>3, <1>4 DEF IInv

\* A stage that adds a reference for another (svt_object_inc_live_count).
LEMMA ShareOK ==
    ASSUME IInv, NEW p \in Threads, NEW u \in Threads, NEW o \in Objects, Share(p, u, o)
    PROVE  IInv'
<1>a. /\ releaseEnable' = releaseEnable /\ processQueue' = processQueue
      /\ objectQueue' = objectQueue /\ qlock' = qlock
      /\ fifo' = fifo /\ quit' = quit /\ sem' = sem
      /\ pc' = pc /\ op' = op /\ target' = target
      /\ active' = active /\ signalled' = signalled /\ posting' = posting
      /\ p \in Producers /\ o \in held[p] /\ o \notin held[u] /\ liveCount[o] > 0
      /\ liveCount' = [liveCount EXCEPT ![o] = @ + 1]
      /\ held' = [held EXCEPT ![u] = @ \cup {o}]
  BY DEF Share, queues, fifos, threads, shutdown
<1>b. liveCount \in [Objects -> Int]
  BY DEF IInv, TypeOK
<1>c. Pinners = {}
  <2>1. p \notin Pinners
    BY <1>a DEF IInv, LiveInv
  <2> QED BY <1>a, <2>1, SinglePinner
<1>d. liveCount[o] = Users(o) /\ InClient(o)
  BY <1>a, OnlyUser
<1>e. /\ HoldersOf(o)' = HoldersOf(o) \cup {u} /\ Users(o)' = Users(o) + 1
      /\ \A x \in Objects : x # o => HoldersOf(x)' = HoldersOf(x) /\ Users(x)' = Users(x)
      /\ held' \in [Threads -> SUBSET Objects]
  BY <1>a, HoldMore DEF IInv
<1>f. /\ liveCount'[o] = Users(o)'
      /\ \A x \in Objects : x # o => liveCount'[x] = liveCount[x]
  BY <1>a, <1>b, <1>d, <1>e
<1>g. \A x \in Objects : InClient(x)' <=> InClient(x)
  BY <1>c, <1>d, <1>e DEF InClient
<1>1. TypeOK'
  <2>1. liveCount' \in [Objects -> Int]
    BY <1>a, <1>b
  <2> QED BY <1>a, <1>e, <2>1 DEF IInv, TypeOK
<1>2. BufInv' /\ RoleInv' /\ SemInv' /\ AskInv'
  BY <1>a, QuietOK
<1>3. PlaceInv' /\ FifoInv'
  BY <1>a, <1>d, <1>f, <1>g, PlaceFrame
<1>4. LiveInv'
  <2>1. \A x \in Objects : Users(x)' = Cardinality(HoldersOf(x)') /\ Users(x) = Cardinality(HoldersOf(x))
    BY DEF Users
  <2> QED BY <1>a, <1>c, <1>e, <1>f, <2>1 DEF IInv, LiveInv, LiveCountAgrees
<1> QED BY <1>1, <1>2, <1>3, <1>4 DEF IInv

-----------------------------------------------------------------------------
(* The exchange of the active sequence control set.                         *)

(* A new one becomes active; the previous one is still the pinner's.        *)
LEMMA PinOK ==
    ASSUME IInv, NEW p \in Threads, NEW o \in Objects, Pin(p, o)
    PROVE  IInv'
<1>z. PICK old : old = active[p]
  OBVIOUS
<1>a. /\ liveCount' = liveCount /\ processQueue' = processQueue
      /\ objectQueue' = objectQueue /\ qlock' = qlock
      /\ fifo' = fifo /\ quit' = quit /\ sem' = sem /\ op' = op
      /\ signalled' = signalled /\ posting' = posting
      /\ pc[p] = "idle" /\ p \in Pinners /\ o \in held[p] /\ liveCount[o] = 0 /\ old # o
      /\ releaseEnable' = [releaseEnable EXCEPT ![o] = FALSE]
      /\ held' = [held EXCEPT ![p] = @ \ {o}]
      /\ active' = [active EXCEPT ![p] = o]
      /\ target' = [target EXCEPT ![p] = old]
      /\ pc' = [pc EXCEPT ![p] = IF old = NULL THEN "idle" ELSE "unpin"]
  BY <1>z DEF Pin, queues, fifos, shutdown
<1>b. /\ releaseEnable \in [Objects -> BOOLEAN] /\ pc \in [Threads -> PCs]
      /\ active \in [Pinners -> Objects \cup {NULL}]
      /\ target \in [Threads -> Threads \cup Objects \cup {NULL}]
      /\ old \in Objects \cup {NULL} /\ NULL \notin Objects
  BY <1>a, <1>z, Sizes DEF IInv, TypeOK
<1>c. \A q \in Pinners : q = p
  BY <1>a, SinglePinner, ThreadsAssumption
<1>d. Users(o) = 1 /\ HoldersOf(o) = {p} /\ InClient(o)
  BY <1>a, OnlyUser
<1>e. /\ HoldersOf(o)' = {} /\ Users(o)' = 0
      /\ \A x \in Objects : x # o => HoldersOf(x)' = HoldersOf(x) /\ Users(x)' = Users(x)
      /\ held' \in [Threads -> SUBSET Objects] /\ held'[p] = held[p] \ {o}
  <2>1. /\ HoldersOf(o)' = HoldersOf(o) \ {p} /\ Users(o)' = Users(o) - 1
        /\ \A x \in Objects : x # o => HoldersOf(x)' = HoldersOf(x) /\ Users(x)' = Users(x)
        /\ held' \in [Threads -> SUBSET Objects] /\ held'[p] = held[p] \ {o}
    BY <1>a, HoldLess DEF IInv
  <2> QED BY <1>d, <2>1
<1>f. /\ active'[p] = o /\ target'[p] = old /\ pc'[p] = IF old = NULL THEN "idle" ELSE "unpin"
      /\ \A u \in Threads : u # p => pc'[u] = pc[u] /\ target'[u] = target[u]
      /\ releaseEnable'[o] = FALSE
      /\ \A x \in Objects : x # o => releaseEnable'[x] = releaseEnable[x]
  BY <1>a, <1>b
<1>g. \A x \in Objects : InClient(x)' <=> InClient(x)
  <2>1. KeptBy(p, o)'
    BY <1>f DEF KeptBy
  <2>2. \A x \in Objects : x # o => (KeptBy(p, x)' <=> KeptBy(p, x))
    BY <1>a, <1>b, <1>f, <1>z DEF KeptBy
  <2> QED BY <1>a, <1>c, <1>d, <1>e, <2>1, <2>2 DEF InClient
<1>1. TypeOK'
  BY <1>a, <1>b, <1>e DEF IInv, TypeOK, PCs
<1>2. BufInv' /\ RoleInv' /\ SemInv' /\ AskInv'
  <2>1. \A u \in Threads :
           \/ pc'[u] = pc[u] /\ target'[u] = target[u]
           \/ /\ pc[u] \in Pinning \cup {"idle"} /\ pc'[u] \in Pinning \cup {"idle"}
              /\ pc'[u] \in Pinning => u \in Pinners /\ target'[u] \in Objects
    BY <1>a, <1>b, <1>f DEF Pinning
  <2> QED BY <1>a, <2>1, QuietOK
<1>3. PlaceInv' /\ FifoInv'
  BY <1>a, <1>g, PlaceFrame
<1>4. LiveInv'
  <2>1. LiveCountAgrees'
    <3>1. \A x \in Objects : Users(x)' = Cardinality(HoldersOf(x)') /\ Users(x) = Cardinality(HoldersOf(x))
      BY DEF Users
    <3> QED BY <1>a, <1>c, <1>e, <1>f, <3>1 DEF IInv, LiveInv, LiveCountAgrees
  <2>2. \A x \in Objects : old = x => liveCount[x] = Users(x) /\ ~releaseEnable[x]
    BY <1>a, <1>z DEF IInv, LiveInv
  <2>3. \A x \in Objects : ~releaseEnable'[x] => active'[p] = x \/ (pc'[p] = "unpin" /\ target'[p] = x)
    <3> SUFFICES ASSUME NEW x \in Objects, ~releaseEnable'[x], x # o
                 PROVE  pc'[p] = "unpin" /\ target'[p] = x
      BY <1>f
    <3>1. active[p] = x
      BY <1>a, <1>c, <1>f DEF IInv, LiveInv
    <3> QED BY <1>b, <1>f, <1>z, <3>1
  <2>4. \A x \in Objects : x \in held'[p] => liveCount'[x] = 0 /\ active'[p] # x
    BY <1>a, <1>e, <1>f DEF IInv, LiveInv
  <2>5. \A x \in Objects :
           /\ active'[p] = x => liveCount'[x] = Users(x)' /\ ~releaseEnable'[x]
           /\ target'[p] = x => /\ active'[p] # x
                                /\ liveCount'[x] = Users(x)' /\ ~releaseEnable'[x]
           /\ pc'[p] # "check" /\ pc'[p] # "drop"
    BY <1>a, <1>e, <1>f, <2>2
  <2> QED BY <1>a, <1>c, <2>1, <2>3, <2>4, <2>5 DEF LiveInv
<1> QED BY <1>1, <1>2, <1>3, <1>4 DEF IInv

(* The previous one may be released again: by its last user, or by the      *)
(* pinner if it has none.                                                   *)
LEMMA UnpinOK ==
    ASSUME IInv, NEW p \in Pinners, Unpin(p)
    PROVE  IInv'
<1>t. p \in Threads /\ \A q \in Pinners : q = p
  BY SinglePinner, ThreadsAssumption DEF Threads
<1>o. PICK o \in Objects : o = target[p]
  BY <1>t DEF Unpin, IInv, RoleInv
<1>a. /\ liveCount' = liveCount /\ processQueue' = processQueue
      /\ objectQueue' = objectQueue /\ qlock' = qlock
      /\ fifo' = fifo /\ quit' = quit /\ sem' = sem /\ op' = op /\ target' = target
      /\ held' = held /\ active' = active /\ signalled' = signalled /\ posting' = posting
      /\ pc[p] = "unpin" /\ pc' = [pc EXCEPT ![p] = "check"]
      /\ releaseEnable' = [releaseEnable EXCEPT ![o] = TRUE]
  BY <1>o DEF Unpin, queues, fifos, clients, shutdown
<1>b. releaseEnable \in [Objects -> BOOLEAN] /\ pc \in [Threads -> PCs]
  BY DEF IInv, TypeOK
<1>c. /\ pc'[p] = "check" /\ \A u \in Threads : u # p => pc'[u] = pc[u]
      /\ releaseEnable'[o] = TRUE
      /\ \A x \in Objects : x # o => releaseEnable'[x] = releaseEnable[x]
  BY <1>a, <1>b, <1>t
<1>d. liveCount[o] = Users(o) /\ active[p] # o
  BY <1>a, <1>o DEF IInv, LiveInv
<1>e. \A x \in Objects : HoldersOf(x)' = HoldersOf(x) /\ Users(x)' = Users(x)
  BY <1>a DEF HoldersOf, Users
<1>g. \A x \in Objects : InClient(x)' <=> InClient(x)
  <2>1. InClient(o)' /\ InClient(o)
    <3>1. HoldersOf(o) # {} \/ liveCount[o] = 0
      BY <1>d, UsersOK
    <3>2. KeptBy(p, o) /\ (liveCount[o] = 0 => KeptBy(p, o)')
      BY <1>a, <1>c, <1>o DEF KeptBy
    <3> QED BY <1>e, <3>1, <3>2 DEF InClient
  <2>2. \A x \in Objects : x # o => (KeptBy(p, x)' <=> KeptBy(p, x))
    BY <1>a, <1>c, <1>o DEF KeptBy
  <2> QED BY <1>e, <1>t, <2>1, <2>2 DEF InClient
<1>1. TypeOK'
  BY <1>a, <1>b DEF IInv, TypeOK, PCs
<1>2. BufInv' /\ RoleInv' /\ SemInv' /\ AskInv'
  <2>1. \A u \in Threads :
           \/ pc'[u] = pc[u] /\ target'[u] = target[u]
           \/ /\ pc[u] \in Pinning \cup {"idle"} /\ pc'[u] \in Pinning \cup {"idle"}
              /\ pc'[u] \in Pinning => u \in Pinners /\ target'[u] \in Objects
    BY <1>a, <1>c, <1>o DEF Pinning
  <2> QED BY <1>a, <2>1, QuietOK
<1>3. PlaceInv' /\ FifoInv'
  BY <1>a, <1>g, PlaceFrame
<1>4. LiveInv'
  <2>1. LiveCountAgrees'
    BY <1>a, <1>e DEF IInv, LiveInv, LiveCountAgrees
  <2>2. \A x \in Objects :
           /\ active'[p] = x => liveCount'[x] = Users(x)' /\ ~releaseEnable'[x]
           /\ target'[p] = x => x = o /\ releaseEnable'[x] /\ liveCount'[x] = Users(x)'
           /\ active'[p] # o
           /\ ~releaseEnable'[x] => active'[p] = x
           /\ x \in held'[p] => liveCount'[x] = 0 /\ active'[p] # x
    BY <1>a, <1>c, <1>d, <1>e, <1>o, <1>t DEF IInv, LiveInv
  <2> QED BY <1>c, <1>t, <2>1, <2>2 DEF LiveInv
<1> QED BY <1>1, <1>2, <1>3, <1>4 DEF IInv

(* A live count of zero means that nobody else has it, now and later.       *)
LEMMA CheckPreviousOK ==
    ASSUME IInv, NEW p \in Pinners, CheckPrevious(p)
    PROVE  IInv'
<1>t. p \in Threads /\ \A q \in Pinners : q = p
  BY SinglePinner, ThreadsAssumption DEF Threads
<1>o. PICK o \in Objects : o = target[p]
  BY <1>t DEF CheckPrevious, IInv, RoleInv
<1>a. /\ liveCount' = liveCount /\ releaseEnable' = releaseEnable
      /\ processQueue' = processQueue /\ objectQueue' = objectQueue /\ qlock' = qlock
      /\ fifo' = fifo /\ quit' = quit /\ sem' = sem /\ op' = op
      /\ held' = held /\ active' = active /\ signalled' = signalled /\ posting' = posting
      /\ pc[p] = "check"
  BY DEF CheckPrevious, wrappers, queues, fifos, clients, shutdown
<1>b. /\ pc \in [Threads -> PCs]
      /\ target \in [Threads -> Threads \cup Objects \cup {NULL}]
  BY DEF IInv, TypeOK
<1>c. /\ liveCount[o] = 0 => pc' = [pc EXCEPT ![p] = "drop"] /\ target' = target
      /\ liveCount[o] # 0 => pc' = [pc EXCEPT ![p] = "idle"] /\ target' = [target EXCEPT ![p] = NULL]
  BY <1>o DEF CheckPrevious
<1>d. /\ liveCount[o] = 0 => pc'[p] = "drop" /\ target'[p] = o
      /\ liveCount[o] # 0 => pc'[p] = "idle"
      /\ \A u \in Threads : u # p => pc'[u] = pc[u] /\ target'[u] = target[u]
      /\ target' \in [Threads -> Threads \cup Objects \cup {NULL}]
      /\ pc' \in [Threads -> PCs]
  BY <1>b, <1>c, <1>o, <1>t DEF PCs
<1>e. \A x \in Objects : HoldersOf(x)' = HoldersOf(x) /\ Users(x)' = Users(x)
  BY <1>a DEF HoldersOf, Users
<1>f. /\ active[p] # o /\ releaseEnable[o]
      /\ liveCount[o] = 0 => Users(o) = 0
  BY <1>a, <1>o DEF IInv, LiveInv, Released
<1>g. \A x \in Objects : InClient(x)' <=> InClient(x)
  <2>1. \A x \in Objects : KeptBy(p, x)' <=> KeptBy(p, x)
    BY <1>a, <1>d, <1>o DEF KeptBy
  <2> QED BY <1>e, <1>t, <2>1 DEF InClient
<1>1. TypeOK'
  BY <1>a, <1>d DEF IInv, TypeOK
<1>2. BufInv' /\ RoleInv' /\ SemInv' /\ AskInv'
  <2>1. \A u \in Threads :
           \/ pc'[u] = pc[u] /\ target'[u] = target[u]
           \/ /\ pc[u] \in Pinning \cup {"idle"} /\ pc'[u] \in Pinning \cup {"idle"}
              /\ pc'[u] \in Pinning => u \in Pinners /\ target'[u] \in Objects
    BY <1>a, <1>d DEF Pinning
  <2> QED BY <1>a, <2>1, QuietOK
<1>3. PlaceInv' /\ FifoInv'
  BY <1>a, <1>g, PlaceFrame
<1>4. LiveInv'
  <2>1. LiveCountAgrees'
    BY <1>a, <1>e DEF IInv, LiveInv, LiveCountAgrees
  <2>2. \A x \in Objects :
           /\ active'[p] = x => liveCount'[x] = Users(x)' /\ ~releaseEnable'[x]
           /\ ~releaseEnable'[x] => active'[p] = x
           /\ x \in held'[p] => liveCount'[x] = 0 /\ active'[p] # x
    BY <1>a, <1>e, <1>t DEF IInv, LiveInv
  <2>3. \A x \in Objects :
           target'[p] = x /\ pc'[p] = "drop" =>
              x = o /\ active'[p] # x /\ liveCount'[x] = 0 /\ Users(x)' = 0 /\ releaseEnable'[x]
    BY <1>a, <1>d, <1>e, <1>f
  <2> QED BY <1>d, <1>t, <2>1, <2>2, <2>3 DEF LiveInv
<1> QED BY <1>1, <1>2, <1>3, <1>4 DEF IInv

(* The previous one goes back to the pool.                                  *)
LEMMA DropPreviousOK ==
    ASSUME IInv, NEW p \in Pinners, DropPrevious(p)
    PROVE  IInv'
<1>t. p \in Threads /\ \A q \in Pinners : q = p
  BY SinglePinner, ThreadsAssumption DEF Threads
<1>o. PICK o \in Objects : o = target[p]
  BY <1>t DEF DropPrevious, IInv, RoleInv
<1>d. liveCount[o] = 0 /\ Users(o) = 0 /\ releaseEnable[o] /\ active[p] # o
  BY <1>o DEF DropPrevious, IInv, LiveInv
<1>a. /\ releaseEnable' = releaseEnable /\ processQueue' = processQueue
      /\ fifo' = fifo /\ quit' = quit /\ sem' = sem
      /\ held' = held /\ active' = active
      /\ signalled' = signalled /\ posting' = posting /\ pc[p] = "drop"
      /\ liveCount' = [liveCount EXCEPT ![o] = Released]
      /\ objectQueue' = [objectQueue EXCEPT !["empty"] = PushFront(ObjectSlots, @, o)]
      /\ Enter(p, "empty", "release")
  BY <1>d, <1>o DEF DropPrevious, ReleaseBody, fifos, clients, shutdown, DecLive
<1>b. /\ qlock' = [qlock EXCEPT !["empty"] = p] /\ pc' = [pc EXCEPT ![p] = "assign"]
      /\ op' = [op EXCEPT ![p] = "release"] /\ target' = [target EXCEPT ![p] = NULL]
      /\ liveCount \in [Objects -> Int] /\ pc \in [Threads -> PCs]
  BY <1>a DEF Enter, IInv, TypeOK
<1>c. /\ pc'[p] = "assign" /\ liveCount'[o] = -1
      /\ \A x \in Objects : x # o => liveCount'[x] = liveCount[x]
  BY <1>a, <1>b, <1>t DEF Released
<1>e. \A x \in Objects : HoldersOf(x)' = HoldersOf(x) /\ Users(x)' = Users(x)
  BY <1>a DEF HoldersOf, Users
<1>f. InClient(o) /\ ~InClient(o)' /\ \A x \in Objects : x # o => (InClient(x)' <=> InClient(x))
  <2>1. HoldersOf(o) = {} /\ KeptBy(p, o)
    BY <1>a, <1>d, <1>o, UsersOK DEF KeptBy
  <2>2. ~KeptBy(p, o)'
    BY <1>a, <1>c, <1>d DEF KeptBy
  <2>3. \A x \in Objects : x # o => (KeptBy(p, x)' <=> KeptBy(p, x))
    BY <1>a, <1>c, <1>o DEF KeptBy
  <2> QED BY <1>e, <1>t, <2>1, <2>2, <2>3 DEF InClient
<1>1. BufInv' /\ PlaceInv' /\ FifoInv' /\ objectQueue' \in [Queues -> Buffers(ObjectSlots, Objects)]
  <2>1. PICK new : new = PushFront(ObjectSlots, objectQueue["empty"], o)
    OBVIOUS
  <2>2. objectQueue' = [objectQueue EXCEPT !["empty"] = new]
    BY <1>a, <2>1
  <2> QED BY <1>a, <1>c, <1>f, <2>1, <2>2, PushOK DEF Queues
<1>2. TypeOK'
  BY <1>a, <1>b, <1>t, <1>1 DEF IInv, TypeOK, PCs, Ops, Queues, Released
<1>3. RoleInv' /\ SemInv' /\ AskInv'
  BY <1>a, <1>t, EnterOK DEF Queues
<1>4. LiveInv'
  <2>1. LiveCountAgrees'
    <3>1. \A x \in Objects : Users(x)' = Cardinality(HoldersOf(x)') /\ Users(x) = Cardinality(HoldersOf(x))
      BY DEF Users
    <3> QED BY <1>a, <1>c, <1>d, <1>e, <1>t, <3>1 DEF IInv, LiveInv, LiveCountAgrees
  <2>2. \A x \in Objects :
           /\ active'[p] = x => liveCount'[x] = Users(x)' /\ ~releaseEnable'[x]
           /\ ~releaseEnable'[x] => active'[p] = x
    BY <1>a, <1>c, <1>d, <1>e, <1>t DEF IInv, LiveInv
  <2>3. \A x \in Objects : x \in held'[p] => liveCount'[x] = 0 /\ active'[p] # x
    <3>1. o \notin held[p]
      BY <1>d, <1>t, OnlyUser
    <3> QED BY <1>a, <1>c, <3>1 DEF IInv, LiveInv
  <2> QED BY <1>c, <1>t, <2>1, <2>2, <2>3 DEF LiveInv
<1> QED BY <1>1, <1>2, <1>3, <1>4 DEF IInv

\* Resource coordination adds a reference to the active sequence control set.
LEMMA ShareActiveOK ==
    ASSUME IInv, NEW p \in Threads, NEW u \in Threads, ShareActive(p, u)
    PROVE  IInv'
<1>o. PICK o \in Objects : o = active[p]
  BY DEF ShareActive, IInv, TypeOK
<1>a. /\ releaseEnable' = releaseEnable /\ processQueue' = processQueue
      /\ objectQueue' = objectQueue /\ qlock' = qlock
      /\ fifo' = fifo /\ quit' = quit /\ sem' = sem
      /\ pc' = pc /\ op' = op /\ target' = target
      /\ active' = active /\ signalled' = signalled /\ posting' = posting
      /\ p \in Pinners /\ pc[p] = "idle" /\ o \notin held[u] /\ u \in Holders
      /\ liveCount' = [liveCount EXCEPT ![o] = @ + 1]
      /\ held' = [held EXCEPT ![u] = @ \cup {o}]
  BY <1>o DEF ShareActive, queues, fifos, threads, shutdown
<1>b. liveCount \in [Objects -> Int]
  BY DEF IInv, TypeOK
<1>c. \A q \in Pinners : q = p /\ q # u
  BY <1>a, SinglePinner, ThreadsAssumption
<1>d. liveCount[o] = Users(o) /\ ~releaseEnable[o]
  BY <1>a, <1>o DEF IInv, LiveInv
<1>e. /\ HoldersOf(o)' = HoldersOf(o) \cup {u} /\ Users(o)' = Users(o) + 1
      /\ \A x \in Objects : x # o => HoldersOf(x)' = HoldersOf(x) /\ Users(x)' = Users(x)
      /\ held' \in [Threads -> SUBSET Objects]
      /\ \A v \in Threads : v # u => held'[v] = held[v]
  BY <1>a, HoldMore DEF IInv
<1>f. /\ liveCount'[o] = Users(o)'
      /\ \A x \in Objects : x # o => liveCount'[x] = liveCount[x]
  BY <1>a, <1>b, <1>d, <1>e
<1>g. InClient(o) /\ \A x \in Objects : InClient(x)' <=> InClient(x)
  <2>1. \A x \in Objects : KeptBy(p, x)' <=> KeptBy(p, x)
    BY <1>a DEF KeptBy
  <2>2. KeptBy(p, o)
    BY <1>o DEF KeptBy
  <2> QED BY <1>a, <1>c, <1>e, <2>1, <2>2 DEF InClient
<1>1. TypeOK'
  <2>1. liveCount' \in [Objects -> Int]
    BY <1>a, <1>b
  <2> QED BY <1>a, <1>e, <2>1 DEF IInv, TypeOK
<1>2. BufInv' /\ RoleInv' /\ SemInv' /\ AskInv'
  BY <1>a, QuietOK
<1>3. PlaceInv' /\ FifoInv'
  BY <1>a, <1>f, <1>g, PlaceFrame
<1>4. LiveInv'
  <2>1. LiveCountAgrees'
    <3>1. \A x \in Objects : Users(x)' = Cardinality(HoldersOf(x)') /\ Users(x) = Cardinality(HoldersOf(x))
      BY DEF Users
    <3> QED BY <1>a, <1>c, <1>e, <1>f, <1>o, <3>1 DEF IInv, LiveInv, LiveCountAgrees
  <2>2. \A x \in Objects :
           /\ active'[p] = x => liveCount'[x] = Users(x)' /\ ~releaseEnable'[x]
           /\ ~releaseEnable'[x] => active'[p] = x
           /\ x \in held'[p] => liveCount'[x] = 0 /\ active'[p] # x
    <3>1. \A x \in Objects : x \in held'[p] => x \in held[p]
      BY <1>a, <1>c, <1>e, ThreadsAssumption
    <3> QED BY <1>a, <1>c, <1>d, <1>e, <1>f, <1>o, <3>1 DEF IInv, LiveInv
  <2> QED BY <1>a, <1>c, <2>1, <2>2 DEF LiveInv
<1> QED BY <1>1, <1>2, <1>3, <1>4 DEF IInv

-----------------------------------------------------------------------------
(* svt_fifo_shutdown.                                                       *)

\* Shutdown marks a consumer's fifo.
LEMMA SetQuitOK ==
    ASSUME IInv, NEW c \in Consumers, SetQuit(c)
    PROVE  IInv'
<1>a. /\ liveCount' = liveCount /\ releaseEnable' = releaseEnable
      /\ objectQueue' = objectQueue /\ processQueue' = processQueue /\ qlock' = qlock
      /\ fifo' = fifo /\ sem' = sem /\ pc' = pc /\ op' = op /\ target' = target
      /\ held' = held /\ active' = active
      /\ quit' = [quit EXCEPT ![c] = TRUE]
      /\ signalled' = signalled \cup {c} /\ posting' = c
  BY DEF SetQuit, wrappers, queues, threads, clients
<1>b. quit \in [Threads -> BOOLEAN] /\ c \in Threads
  BY DEF IInv, TypeOK, Threads
<1>c. quit'[c] /\ \A t \in Threads : t # c => quit'[t] = quit[t]
  BY <1>a, <1>b
<1>1. TypeOK'
  BY <1>a, <1>b DEF IInv, TypeOK
<1>2. BufInv'
  BY <1>a DEF IInv, BufInv
<1>3. RoleInv'
  <2>1. \A u \in Threads : QueueOf(u)' = QueueOf(u)
    BY <1>a DEF QueueOf
  <2> QED BY <1>a, <1>c, <2>1 DEF IInv, RoleInv
<1>4. SemInv'
  <2>1. \A t \in Threads : Signalled(t)' <=> Signalled(t)
    BY <1>a DEF Signalled
  <2> QED BY <1>a, <1>c, <2>1 DEF IInv, SemInv
<1>5. AskInv'
  <2>1. \A u \in Threads : Asking(u)' <=> Asking(u)
    BY <1>a DEF Asking
  <2> QED BY <1>a, <2>1, AskFrame
<1>6. PinnersCalm
  BY <1>a DEF PinnersCalm
<1>7. LiveInv' /\ PlaceInv' /\ FifoInv'
  BY <1>a, <1>6, ClientFrame, PlaceFrame
<1> QED BY <1>1, <1>2, <1>3, <1>4, <1>5, <1>7 DEF IInv

(* The extra post goes to a thread that no longer relies on the count.      *)
LEMMA PostQuitOK ==
    ASSUME IInv, PostQuit
    PROVE  IInv'
<1>c. PICK c \in Consumers : c = posting /\ quit[c]
  BY DEF PostQuit, IInv, TypeOK, RoleInv
<1>a. /\ liveCount' = liveCount /\ releaseEnable' = releaseEnable
      /\ objectQueue' = objectQueue /\ processQueue' = processQueue /\ qlock' = qlock
      /\ fifo' = fifo /\ quit' = quit /\ pc' = pc /\ op' = op /\ target' = target
      /\ held' = held /\ active' = active
      /\ sem' = [sem EXCEPT ![c] = @ + 1]
      /\ signalled' = signalled /\ posting' = NULL
  BY <1>c DEF PostQuit, wrappers, queues, threads, clients
<1>b. sem \in [Threads -> Nat] /\ c \in Threads
  BY DEF IInv, TypeOK, Threads
<1>1. TypeOK'
  BY <1>a, <1>b DEF IInv, TypeOK
<1>2. BufInv'
  BY <1>a DEF IInv, BufInv
<1>3. RoleInv'
  <2>1. \A u \in Threads : QueueOf(u)' = QueueOf(u)
    BY <1>a DEF QueueOf
  <2> QED BY <1>a, <2>1 DEF IInv, RoleInv
<1>4. SemInv'
  <2>1. \A t \in Threads : Signalled(t)' <=> Signalled(t)
    BY <1>a DEF Signalled
  <2>2. \A t \in Threads : ~quit[t] => sem'[t] = sem[t]
    BY <1>a, <1>b, <1>c
  <2> QED BY <1>a, <2>1, <2>2 DEF IInv, SemInv
<1>5. AskInv'
  <2>1. \A u \in Threads : Asking(u)' <=> Asking(u)
    BY <1>a DEF Asking
  <2> QED BY <1>a, <2>1, AskFrame
<1>6. PinnersCalm
  BY <1>a DEF PinnersCalm
<1>7. LiveInv' /\ PlaceInv' /\ FifoInv'
  BY <1>a, <1>6, ClientFrame, PlaceFrame
<1> QED BY <1>1, <1>2, <1>3, <1>4, <1>5, <1>7 DEF IInv

-----------------------------------------------------------------------------
(* Putting it together.                                                     *)

\* A step that changes nothing.
LEMMA StutterOK ==
    ASSUME IInv, UNCHANGED vars
    PROVE  IInv'
<1>a. /\ liveCount' = liveCount /\ releaseEnable' = releaseEnable
      /\ objectQueue' = objectQueue /\ processQueue' = processQueue /\ qlock' = qlock
      /\ fifo' = fifo /\ sem' = sem /\ quit' = quit
      /\ pc' = pc /\ op' = op /\ target' = target
      /\ held' = held /\ active' = active /\ signalled' = signalled /\ posting' = posting
  BY DEF vars, wrappers, queues, fifos, threads, clients, shutdown
<1>1. TypeOK'
  BY <1>a DEF IInv, TypeOK
<1>2. BufInv' /\ RoleInv' /\ SemInv' /\ AskInv'
  BY <1>a, QuietOK
<1>3. PinnersCalm
  BY <1>a DEF PinnersCalm
<1>4. LiveInv' /\ PlaceInv' /\ FifoInv'
  BY <1>a, <1>3, ClientFrame, PlaceFrame
<1> QED BY <1>1, <1>2, <1>4 DEF IInv

\* A thread asks for an object, blocking or polling.
LEMMA RequestOK ==
    ASSUME IInv, NEW t \in Threads, Request(t)
    PROVE  IInv'
<1>1. CASE RequestEmpty(t)
  BY <1>1, RequestProcessOK DEF RequestEmpty, Queues, Processes
<1>2. CASE RequestFull(t)
  <2>1. pc[t] = "again" => t \in Pollers
    BY DEF IInv, RoleInv
  <2> QED BY <1>2, <2>1, RequestProcessOK DEF RequestFull, Queues, Processes
<1>3. CASE Poll(t)
  BY <1>3, ThreadsAssumption, RequestProcessOK DEF Poll, Queues, Processes
<1> QED BY <1>1, <1>2, <1>3 DEF Request

(* IInv is inductive.                                                       *)
LEMMA NextOK ==
    ASSUME IInv, [Next]_vars
    PROVE  IInv'
<1>1. ASSUME NEW t \in Threads, Internal(t)
      PROVE  IInv'
  BY <1>1, PairOK, SignalOK, UnlockOK, WaitOK, PopEmptyOK, PopFullOK, PeekOK, CheckPreviousOK
     DEF Internal
<1>2. ASSUME NEW t \in Threads, LetGo(t)
      PROVE  IInv'
  BY <1>2, PostOK, ReleaseOK, PinOK, UnpinOK, DropPreviousOK DEF LetGo
<1>3. ASSUME NEW t \in Threads, Spread(t)
      PROVE  IInv'
  <2>1. Holders \subseteq Threads
    BY DEF Threads
  <2> QED BY <1>3, <2>1, ClaimOK, ShareOK, ShareActiveOK DEF Spread
<1>4. ASSUME Shutdown
      PROVE  IInv'
  BY <1>4, SetQuitOK, PostQuitOK DEF Shutdown
<1> QED BY <1>1, <1>2, <1>3, <1>4, RequestOK, StutterOK DEF Next

\* Every reachable state of a system resource satisfies the inductive invariant
\* (sys_resource_manager.c).
THEOREM Invariance == Spec => []IInv
<1>1. Init => IInv
  BY InitOK
<1>2. IInv /\ [Next]_vars => IInv'
  BY NextOK
<1> QED BY <1>1, <1>2, PTL DEF Spec

(* The indices of the circular buffers stay within their arrays, and what   *)
(* svt_muxing_queue_assignation moves to a fifo is never NULL, for any      *)
(* number of wrappers and threads.                                          *)
THEOREM TypeCorrect == Spec => []TypeOK
<1>1. IInv => TypeOK
  BY DEF IInv
<1> QED BY <1>1, Invariance, PTL

(* No wrapper is lost or duplicated by svt_get_empty_object,                *)
(* svt_post_full_object, svt_get_full_object, svt_release_object and the    *)
(* muxing queues between them.                                              *)
THEOREM WrappersConserved == Spec => []ObjectConservation
<1>1. IInv => ObjectConservation
  <2> SUFFICES ASSUME IInv PROVE ObjectConservation
    OBVIOUS
  <2>1. \A q \in Queues : Distinct(objectQueue[q])
    BY DEF IInv, BufInv, WellFormed
  <2>2. \A t \in Threads : \A i, j \in 1..Len(fifo[t]) : fifo[t][i] = fifo[t][j] => i = j
    BY DEF IInv, FifoInv
  <2>3. ASSUME NEW o \in Objects
        PROVE  \E x \in Places(o) : Places(o) = {x}
    <3>1. CASE InClient(o)
      <4>1. /\ {<<"queue", q>> : q \in {r \in Queues : o \in Queued(r)}} = {}
            /\ {<<"fifo", t>> : t \in {u \in Threads : o \in Linked(u)}} = {}
            /\ {<<"client", x>> : x \in IF InClient(o) THEN {NULL} ELSE {}} = {<<"client", NULL>>}
        BY <3>1 DEF IInv, PlaceInv
      <4>2. Places(o) = {<<"client", NULL>>}
        BY <4>1 DEF Places
      <4> QED BY <4>2
    <3>2. CASE ~InClient(o) /\ \E q \in Queues : o \in Queued(q)
      <4>1. PICK q \in Queues : o \in Queued(q)
        BY <3>2
      <4>2. \A r \in Queues : o \in Queued(r) => r = q
        BY <4>1 DEF IInv, PlaceInv, Queues
      <4>3. /\ {<<"queue", r>> : r \in {r \in Queues : o \in Queued(r)}} = {<<"queue", q>>}
            /\ {<<"fifo", t>> : t \in {u \in Threads : o \in Linked(u)}} = {}
            /\ {<<"client", x>> : x \in IF InClient(o) THEN {NULL} ELSE {}} = {}
        BY <3>2, <4>1, <4>2 DEF IInv, PlaceInv
      <4>4. Places(o) = {<<"queue", q>>}
        BY <4>3 DEF Places
      <4> QED BY <4>4
    <3>3. CASE ~InClient(o) /\ ~\E q \in Queues : o \in Queued(q)
      <4>1. PICK t \in Threads : o \in Linked(t)
        BY <3>3 DEF IInv, PlaceInv
      <4>2. \A u \in Threads : o \in Linked(u) => u = t
        BY <4>1 DEF IInv, PlaceInv
      <4>3. /\ {<<"queue", r>> : r \in {r \in Queues : o \in Queued(r)}} = {}
            /\ {<<"fifo", u>> : u \in {u \in Threads : o \in Linked(u)}} = {<<"fifo", t>>}
            /\ {<<"client", x>> : x \in IF InClient(o) THEN {NULL} ELSE {}} = {}
        BY <3>3, <4>1, <4>2
      <4>4. Places(o) = {<<"fifo", t>>}
        BY <4>3 DEF Places
      <4> QED BY <4>4
    <3> QED BY <3>1, <3>2, <3>3
  <2> QED BY <2>1, <2>2, <2>3 DEF ObjectConservation
<1> QED BY <1>1, Invariance, PTL

(* live_count is the number of references whenever a wrapper is shared.     *)
THEOREM LiveCountsAgree == Spec => []LiveCountAgrees
<1>1. IInv => LiveCountAgrees
  BY DEF IInv, LiveInv
<1> QED BY <1>1, Invariance, PTL

(* Whoever passes its semaphore finds a wrapper in its fifo or was told to  *)
(* quit: svt_fifo_pop_front does not dereference NULL.                      *)
THEOREM PopFindsObject == Spec => []NoNullPop
<1>1. IInv => NoNullPop
  <2> SUFFICES ASSUME IInv, NEW t \in Threads, pc[t] = "pop", ~quit[t]
               PROVE  fifo[t] # <<>>
    BY DEF NoNullPop
  <2>1. sem[t] \in Nat /\ fifo[t] \in Seq(Objects)
    BY DEF IInv, TypeOK
  <2>2. Len(fifo[t]) = sem[t] + 1 + (IF Signalled(t) THEN 1 ELSE 0)
    BY DEF IInv, SemInv
  <2> QED BY <2>1, <2>2
<1> QED BY <1>1, Invariance, PTL

(* The unlocked test of the previous sequence control set's live count      *)
(* cannot go stale before the release it decides.                           *)
THEOREM DropStaysCurrent == Spec => []DropIsCurrent
<1>1. IInv => DropIsCurrent
  <2> SUFFICES ASSUME IInv, NEW p \in Pinners, pc[p] = "drop"
               PROVE  liveCount[target[p]] = 0 /\ HoldersOf(target[p]) = {}
    BY DEF DropIsCurrent
  <2>1. p \in Threads
    BY ThreadsAssumption DEF Threads
  <2>2. target[p] \in Objects
    BY <2>1 DEF IInv, RoleInv
  <2>3. liveCount[target[p]] = 0 /\ Users(target[p]) = 0
    BY <2>2 DEF IInv, LiveInv
  <2> QED BY <2>3, UsersOK
<1> QED BY <1>1, Invariance, PTL

-----------------------------------------------------------------------------
(* No lost wakeup.  NoLostWakeup compares a sleeper with the object queue.  *)
(* What makes it inductive is the process queue between them: whoever       *)
(* leaves the muxing queue leaves one of its two buffers empty, and a       *)
(* thread that has asked stays registered until the wrapper is in its fifo. *)

(* t is in svt_get_empty_object or svt_get_full_object, past its            *)
(* svt_release_process and not yet past its semaphore.                      *)
Waiting(t) == pc[t] = "wait" \/ (pc[t] \in {"assign", "signal"} /\ op[t] = "get")

\* Unless its mutex is held, a muxing queue has an empty ring: no object or nobody to
\* give it to.  A thread that waits is registered, or its fifo was filled.
WakeInv ==
    /\ \A q \in Queues :
          qlock[q] = NULL => EmptyCheck(objectQueue[q]) \/ EmptyCheck(processQueue[q])
    /\ \A t \in Threads :
          /\ pc[t] = "wait" => op[t] = "get"
          /\ Waiting(t) => t \in Members(processQueue[QueueOf(t)]) \/ fifo[t] # <<>>

-----------------------------------------------------------------------------
(* Who does not wait may do what it likes outside the muxing queue.         *)
LEMMA WakeFrame ==
    ASSUME WakeInv, objectQueue' = objectQueue, processQueue' = processQueue,
           qlock' = qlock, op' = op,
           \A t \in Threads : pc'[t] = "wait" => pc[t] = "wait",
           \A t \in Threads : Waiting(t)' => Waiting(t) /\ fifo'[t] = fifo[t]
    PROVE  WakeInv'
<1>1. \A t \in Threads : QueueOf(t)' = QueueOf(t)
  BY DEF QueueOf
<1> QED BY <1>1 DEF WakeInv

(* Entering the muxing queue to post or to release disturbs no sleeper.     *)
LEMMA WakeEnter ==
    ASSUME IInv, WakeInv, NEW t \in Threads, NEW q \in Queues, NEW what \in {"post", "release"},
           Enter(t, q, what), processQueue' = processQueue, fifo' = fifo,
           \A r \in Queues : r # q => objectQueue'[r] = objectQueue[r]
    PROVE  WakeInv'
<1>a. /\ qlock' = [qlock EXCEPT ![q] = t] /\ t # NULL
      /\ pc' = [pc EXCEPT ![t] = "assign"] /\ op' = [op EXCEPT ![t] = what]
  BY NullAssumption DEF Enter
<1>b. /\ pc \in [Threads -> PCs] /\ op \in [Threads -> Ops]
      /\ qlock \in [Queues -> Threads \cup {NULL}]
  BY DEF IInv, TypeOK
<1>c. /\ pc'[t] = "assign" /\ op'[t] = what
      /\ \A u \in Threads : u # t => pc'[u] = pc[u] /\ op'[u] = op[u]
  BY <1>a, <1>b
<1>1. \A r \in Queues : qlock'[r] = NULL => r # q /\ qlock[r] = NULL
  BY <1>a, <1>b
<1>2. \A u \in Threads : u # t => QueueOf(u)' = QueueOf(u) /\ (Waiting(u)' <=> Waiting(u))
  BY <1>c DEF QueueOf, Waiting
<1>3. ~Waiting(t)' /\ pc'[t] # "wait"
  BY <1>c DEF Waiting
<1> QED BY <1>1, <1>2, <1>3, <1>c DEF WakeInv

(* svt_release_process registers the caller, a poller's second time too.    *)
LEMMA WakeRequest ==
    ASSUME IInv, IInv', WakeInv, NEW q \in Queues, NEW t \in Processes(q), NEW what \in {"get", "poll"},
           t \in Pollers \/ ~Registered(t), t \in Pollers => q = "full",
           RequestProcess(t, q, what)
    PROVE  WakeInv'
<1>a. /\ objectQueue' = objectQueue /\ fifo' = fifo
      /\ processQueue' = [processQueue EXCEPT ![q] = PushFront(ProcessSlots(q), @, t)]
      /\ pc' = [pc EXCEPT ![t] = "assign"] /\ op' = [op EXCEPT ![t] = what]
      /\ qlock' = [qlock EXCEPT ![q] = t]
  BY DEF RequestProcess, Enter, fifos
<1>b. /\ pc \in [Threads -> PCs] /\ op \in [Threads -> Ops]
      /\ qlock \in [Queues -> Threads \cup {NULL}] /\ DOMAIN processQueue = Queues
      /\ t \in Threads /\ t # NULL
  BY Sizes DEF IInv, TypeOK
<1>c. /\ pc'[t] = "assign" /\ op'[t] = what
      /\ \A u \in Threads : u # t => pc'[u] = pc[u] /\ op'[u] = op[u]
      /\ processQueue'[q] = PushFront(ProcessSlots(q), processQueue[q], t)
      /\ \A r \in Queues : r # q => processQueue'[r] = processQueue[r]
  BY <1>a, <1>b
<1>1. \A r \in Queues : qlock'[r] = NULL => r # q /\ qlock[r] = NULL
  BY <1>a, <1>b
<1>2. \A u \in Threads : u # t => QueueOf(u)' = QueueOf(u) /\ (Waiting(u)' <=> Waiting(u))
  BY <1>c DEF QueueOf, Waiting
<1>3. what = "get" => QueueOf(t)' = q
  BY <1>b, <1>c, ThreadsAssumption DEF QueueOf, Queues, Processes
<1>4. /\ t \in Members(processQueue'[q])
      /\ Members(processQueue[q]) \subseteq Members(processQueue'[q])
  <2>1. WellFormed(ProcessSlots(q), Processes(q), processQueue[q])
    BY DEF IInv, BufInv
  <2>2. CASE t \in Pollers
    <3>1. Processes(q) = {t} /\ ProcessSlots(q) = 1
      BY <2>2, OnlyPoller DEF Queues
    <3>2. /\ Members(processQueue[q]) \subseteq {t}
          /\ Members(PushFront(1, processQueue[q], t)) = {t}
      BY <2>1, <3>1, MembersIn, PushSingleOK, Sizes
    <3> QED BY <1>c, <3>1, <3>2
  <2>3. CASE t \notin Pollers
    <3>1. t \notin Members(processQueue[q])
      BY <2>3 DEF Registered
    <3>2. Members(PushFront(ProcessSlots(q), processQueue[q], t)) = Members(processQueue[q]) \cup {t}
      BY <2>1, <3>1, Room, PushFrontOK, Sizes
    <3> QED BY <1>c, <3>2
  <2> QED BY <2>2, <2>3
<1>5. \A u \in Threads : QueueOf(u) \in Queues
  BY DEF QueueOf, Queues
<1>6. ~(pc'[t] = "wait") /\ (Waiting(t)' => t \in Members(processQueue'[QueueOf(t)']))
  BY <1>c, <1>3, <1>4 DEF Waiting
<1>7. ASSUME NEW u \in Threads, u # t, Waiting(u)'
      PROVE  u \in Members(processQueue'[QueueOf(u)']) \/ fifo'[u] # <<>>
  BY <1>a, <1>c, <1>2, <1>4, <1>5, <1>7 DEF WakeInv
<1> QED BY <1>a, <1>c, <1>1, <1>6, <1>7 DEF WakeInv

(* The assignation moves a thread's wait from the process queue to its fifo. *)
LEMMA WakePair ==
    ASSUME IInv, WakeInv, NEW t \in Threads, Pair(t)
    PROVE  WakeInv'
<1>q. PICK q \in Queues : q = QueueOf(t)
  BY DEF QueueOf, Queues
<1>f. PICK f, o : f = Front(processQueue[q]) /\ o = Front(objectQueue[q])
  OBVIOUS
<1>a. /\ ~EmptyCheck(objectQueue[q]) /\ ~EmptyCheck(processQueue[q])
      /\ processQueue' = [processQueue EXCEPT ![q] = PopFront(ProcessSlots(q), @)]
      /\ objectQueue' = [objectQueue EXCEPT ![q] = PopFront(ObjectSlots, @)]
      /\ fifo' = [fifo EXCEPT ![f] = Append(@, o)]
      /\ qlock' = qlock /\ op' = op
      /\ pc[t] = "assign" /\ pc' = [pc EXCEPT ![t] = "signal"]
  BY <1>q, <1>f DEF Pair
<1>b. /\ pc \in [Threads -> PCs] /\ fifo \in [Threads -> Seq(Objects)]
      /\ DOMAIN processQueue = Queues /\ DOMAIN objectQueue = Queues
      /\ qlock[q] = t /\ t # NULL
  BY <1>a, <1>q, NullAssumption DEF IInv, TypeOK, RoleInv
<1>c. /\ f \in Threads
      /\ Members(processQueue'[q]) = Members(processQueue[q]) \ {f}
      /\ \A r \in Queues : r # q =>
            processQueue'[r] = processQueue[r] /\ objectQueue'[r] = objectQueue[r]
  <2>1. f \in Processes(q) /\ Members(processQueue'[q]) = Members(processQueue[q]) \ {f}
    BY <1>a, <1>b, <1>f, PopFrontOK, Sizes DEF IInv, BufInv
  <2> QED BY <1>a, <1>b, <2>1, Sizes
<1>d. /\ fifo'[f] # <<>>
      /\ \A u \in Threads : u # f => fifo'[u] = fifo[u]
  BY <1>a, <1>b, <1>c
<1>e. \A u \in Threads : /\ QueueOf(u)' = QueueOf(u) /\ QueueOf(u) \in Queues
                         /\ Waiting(u)' <=> Waiting(u)
                         /\ pc'[u] = "wait" <=> pc[u] = "wait"
  BY <1>a, <1>b DEF QueueOf, Queues, Waiting
<1>1. \A r \in Queues : qlock'[r] = NULL => r # q /\ qlock[r] = NULL
  BY <1>a, <1>b
<1>2. ASSUME NEW u \in Threads, Waiting(u)', u # f
      PROVE  u \in Members(processQueue'[QueueOf(u)']) \/ fifo'[u] # <<>>
  BY <1>2, <1>c, <1>d, <1>e DEF WakeInv
<1> QED BY <1>a, <1>c, <1>d, <1>e, <1>1, <1>2 DEF WakeInv

(* Whoever leaves the muxing queue has found one of its buffers empty.      *)
LEMMA WakeUnlock ==
    ASSUME IInv, WakeInv, NEW t \in Threads, Unlock(t)
    PROVE  WakeInv'
<1>q. PICK q \in Queues : q = QueueOf(t)
  BY DEF QueueOf, Queues
<1>a. /\ objectQueue' = objectQueue /\ processQueue' = processQueue
      /\ fifo' = fifo /\ op' = op /\ pc[t] = "assign"
      /\ EmptyCheck(objectQueue[q]) \/ EmptyCheck(processQueue[q])
      /\ qlock' = [qlock EXCEPT ![q] = NULL]
      /\ pc' = [pc EXCEPT ![t] = CASE op[t] = "get" -> "wait"
                                   [] op[t] = "poll" -> "peek"
                                   [] OTHER -> "idle"]
  BY <1>q DEF Unlock, fifos
<1>b. /\ pc \in [Threads -> PCs] /\ qlock \in [Queues -> Threads \cup {NULL}]
  BY DEF IInv, TypeOK
<1>1. \A r \in Queues : r # q => qlock'[r] = qlock[r]
  BY <1>a, <1>b
<1>2. /\ \A u \in Threads : u # t => pc'[u] = pc[u]
      /\ pc'[t] \in {"wait", "peek", "idle"} /\ (pc'[t] = "wait" => op[t] = "get")
  BY <1>a, <1>b
<1>3. \A u \in Threads : QueueOf(u)' = QueueOf(u) /\ (Waiting(u)' => Waiting(u))
  BY <1>a, <1>2 DEF QueueOf, Waiting
<1> QED BY <1>a, <1>1, <1>2, <1>3 DEF WakeInv

\* Asking registers the thread before it waits.
LEMMA WakeRequestOK ==
    ASSUME IInv, IInv', WakeInv, NEW t \in Threads, Request(t)
    PROVE  WakeInv'
<1>1. pc[t] = "idle" => t \in Pollers \/ ~Registered(t)
  BY DEF IInv, AskInv, Asking
<1>2. pc[t] = "again" => t \in Pollers
  BY DEF IInv, RoleInv
<1>3. Pollers \subseteq Consumers /\ Consumers \cap Producers = {}
  BY ThreadsAssumption
<1>4. CASE RequestEmpty(t)
  BY <1>4, <1>1, <1>3, WakeRequest DEF RequestEmpty, Queues, Processes
<1>5. CASE RequestFull(t)
  BY <1>5, <1>1, <1>2, <1>3, WakeRequest DEF RequestFull, Queues, Processes
<1>6. CASE Poll(t)
  BY <1>6, <1>1, <1>3, WakeRequest DEF Poll, Queues, Processes
<1> QED BY <1>4, <1>5, <1>6 DEF Request

(* The body of svt_release_object, whether or not it pushes the wrapper.    *)
LEMMA WakeRelease ==
    ASSUME IInv, WakeInv, NEW t \in Threads, NEW o \in Objects, ReleaseBody(t, o),
           pc[t] \in {"idle", "drop"}
    PROVE  WakeInv'
<1>a. processQueue' = processQueue /\ fifo' = fifo
  BY DEF ReleaseBody, fifos
<1>b. DOMAIN objectQueue = Queues /\ pc \in [Threads -> PCs]
  BY DEF IInv, TypeOK
<1>1. CASE releaseEnable[o] /\ DecLive(liveCount[o]) = 0
  <2>1. /\ objectQueue' = [objectQueue EXCEPT !["empty"] = PushFront(ObjectSlots, @, o)]
        /\ Enter(t, "empty", "release")
    BY <1>1 DEF ReleaseBody
  <2>2. \A r \in Queues : r # "empty" => objectQueue'[r] = objectQueue[r]
    BY <2>1, <1>b
  <2> QED BY <1>a, <2>1, <2>2, WakeEnter DEF Queues
<1>2. CASE ~(releaseEnable[o] /\ DecLive(liveCount[o]) = 0)
  <2>1. /\ objectQueue' = objectQueue /\ qlock' = qlock /\ op' = op
        /\ pc' = [pc EXCEPT ![t] = "idle"]
    BY <1>2 DEF ReleaseBody
  <2>2. \A u \in Threads : /\ pc'[u] = "wait" => pc[u] = "wait"
                           /\ Waiting(u)' => Waiting(u)
    BY <1>b, <2>1 DEF Waiting
  <2> QED BY <1>a, <2>1, <2>2, WakeFrame
<1> QED BY <1>1, <1>2

\* Posting takes the mutex: the object is assigned before it is free again.
LEMMA WakePost ==
    ASSUME IInv, WakeInv, NEW t \in Threads, NEW o \in Objects, Post(t, o)
    PROVE  WakeInv'
<1>1. /\ Enter(t, "full", "post") /\ processQueue' = processQueue /\ fifo' = fifo
      /\ objectQueue' = [objectQueue EXCEPT !["full"] = PushBack(ObjectSlots, @, o)]
  BY DEF Post, fifos
<1>2. DOMAIN objectQueue = Queues
  BY DEF IInv, TypeOK
<1>3. \A r \in Queues : r # "full" => objectQueue'[r] = objectQueue[r]
  BY <1>1, <1>2
<1> QED BY <1>1, <1>3, WakeEnter DEF Queues

(* A step that keeps the queues and the operations, moves at most thread t, *)
(* to a place that is not a waiting one, and touches no other fifo.         *)
LEMMA WakeCalm ==
    ASSUME IInv, WakeInv, NEW t \in Threads, NEW next, next # "wait",
           queues' = queues, op' = op, pc' = [pc EXCEPT ![t] = next],
           next \in {"assign", "signal"} => pc[t] \in {"assign", "signal"} /\ fifo'[t] = fifo[t],
           \A u \in Threads : u # t => fifo'[u] = fifo[u]
    PROVE  WakeInv'
<1>1. pc \in [Threads -> PCs]
  BY DEF IInv, TypeOK
<1>2. \A u \in Threads : u # t => pc'[u] = pc[u]
  BY <1>1
<1>3. pc'[t] = next
  BY <1>1
<1>4. \A u \in Threads : Waiting(u)' => Waiting(u) /\ fifo'[u] = fifo[u]
  BY <1>2, <1>3 DEF Waiting
<1>5. \A u \in Threads : pc'[u] = "wait" => pc[u] = "wait"
  BY <1>2, <1>3
<1> QED BY <1>4, <1>5, WakeFrame DEF queues

\* A thread inside a muxing queue leaves it when one of its rings is empty.
LEMMA WakeInternal ==
    ASSUME IInv, WakeInv, NEW t \in Threads, Internal(t)
    PROVE  WakeInv'
<1>b. fifo \in [Threads -> Seq(Objects)]
  BY DEF IInv, TypeOK
<1>1. CASE Signal(t)
  BY <1>1, WakeCalm DEF Signal
<1>2. CASE Wait(t)
  BY <1>2, WakeCalm DEF Wait
<1>3. CASE PopEmpty(t)
  <2>1. /\ queues' = queues /\ op' = op /\ pc' = [pc EXCEPT ![t] = "idle"]
        /\ \A u \in Threads : u # t => fifo'[u] = fifo[u]
    BY <1>3, <1>b DEF PopEmpty, PopFifo
  <2> QED BY <2>1, WakeCalm
<1>4. CASE PopFull(t)
  <2>1. PICK next \in {"exited", "idle"} :
          /\ queues' = queues /\ op' = op /\ pc' = [pc EXCEPT ![t] = next]
          /\ \A u \in Threads : u # t => fifo'[u] = fifo[u]
    BY <1>4, <1>b DEF PopFull, PopFifo
  <2> QED BY <2>1, WakeCalm
<1>5. CASE Peek(t)
  <2>1. PICK next \in {"idle", "again"} :
          queues' = queues /\ op' = op /\ pc' = [pc EXCEPT ![t] = next] /\ fifo' = fifo
    BY <1>5 DEF Peek, fifos
  <2> QED BY <2>1, WakeCalm
<1>6. CASE CheckPrevious(t)
  <2>1. PICK next \in {"drop", "idle"} :
          queues' = queues /\ op' = op /\ pc' = [pc EXCEPT ![t] = next] /\ fifo' = fifo
    BY <1>6 DEF CheckPrevious, fifos
  <2> QED BY <2>1, WakeCalm
<1> QED BY <1>1, <1>2, <1>3, <1>4, <1>5, <1>6, WakePair, WakeUnlock DEF Internal

\* Giving a wrapper back takes the mutex of the empty queue, or touches no ring.
LEMMA WakeLetGo ==
    ASSUME IInv, WakeInv, NEW t \in Threads, LetGo(t)
    PROVE  WakeInv'
<1>1. ASSUME NEW o \in Objects, Release(t, o)
      PROVE  WakeInv'
  BY <1>1, WakeRelease DEF Release
<1>2. ASSUME NEW o \in Objects, Pin(t, o)
      PROVE  WakeInv'
  <2>1. PICK next \in {"idle", "unpin"} :
          queues' = queues /\ op' = op /\ pc' = [pc EXCEPT ![t] = next] /\ fifo' = fifo
    BY <1>2 DEF Pin, fifos
  <2> QED BY <2>1, WakeCalm
<1>3. CASE Unpin(t)
  BY <1>3, WakeCalm DEF Unpin, fifos
<1>4. CASE t \in Pinners /\ DropPrevious(t)
  <2>1. target[t] \in Objects
    BY <1>4 DEF DropPrevious, IInv, RoleInv
  <2> QED BY <1>4, <2>1, WakeRelease DEF DropPrevious
<1> QED BY <1>1, <1>2, <1>3, <1>4, WakePost DEF LetGo

(* Steps that move no thread and touch no queue.                            *)
LEMMA WakeStill ==
    ASSUME WakeInv, queues' = queues, pc' = pc, op' = op, fifo' = fifo
    PROVE  WakeInv'
<1>1. \A t \in Threads : Waiting(t)' <=> Waiting(t)
  BY DEF Waiting
<1> QED BY <1>1, WakeFrame DEF queues

\* References touch no ring.
LEMMA WakeSpread ==
    ASSUME WakeInv, NEW t \in Threads, Spread(t)
    PROVE  WakeInv'
<1>1. queues' = queues /\ pc' = pc /\ op' = op /\ fifo' = fifo
  BY DEF Spread, Claim, Share, ShareActive, threads, fifos
<1> QED BY <1>1, WakeStill

\* Shutdown touches no ring.
LEMMA WakeShutdown ==
    ASSUME WakeInv, Shutdown
    PROVE  WakeInv'
<1>1. queues' = queues /\ pc' = pc /\ op' = op /\ fifo' = fifo
  BY DEF Shutdown, SetQuit, PostQuit, threads, fifos
<1> QED BY <1>1, WakeStill

\* Every step keeps WakeInv.
LEMMA WakeNext ==
    ASSUME IInv, IInv', WakeInv, [Next]_vars
    PROVE  WakeInv'
<1>1. CASE UNCHANGED vars
  BY <1>1, WakeStill DEF vars, threads, fifos
<1> QED BY <1>1, WakeInternal, WakeRequestOK, WakeLetGo, WakeSpread, WakeShutdown DEF Next

\* Nobody waits at first.
LEMMA WakeInit == Init => WakeInv
<1> SUFFICES ASSUME Init PROVE WakeInv
  OBVIOUS
<1>1. /\ processQueue = [q \in Queues |-> Ctor(ProcessSlots(q))]
      /\ pc = [t \in Threads |-> "idle"]
  BY DEF Init
<1>2. \A q \in Queues : EmptyCheck(processQueue[q])
  BY <1>1, CtorOK, EmptyCheckOK, Sizes
<1> QED BY <1>1, <1>2 DEF WakeInv, Waiting

\* WakeInv is inductive with IInv (svt_muxing_queue_assignation).
THEOREM WakeInvariance == Spec => [](IInv /\ WakeInv)
<1>1. Init => WakeInv
  BY WakeInit
<1>2. IInv /\ IInv' /\ WakeInv /\ [Next]_vars => WakeInv'
  BY WakeNext
<1> QED BY <1>1, <1>2, Invariance, PTL DEF Spec

(* A thread that sleeps in svt_get_empty_object or svt_get_full_object with *)
(* an empty fifo while nobody is in svt_muxing_queue_assignation has no     *)
(* wrapper waiting for it in the object queue, whatever the number of       *)
(* threads and the order in which they posted, released and polled.         *)
THEOREM SleepersHaveNothing == Spec => []NoLostWakeup
<1>1. IInv /\ WakeInv => NoLostWakeup
  <2> SUFFICES ASSUME IInv, WakeInv, NEW t \in Threads,
                      pc[t] = "wait", fifo[t] = <<>>, qlock[QueueOf(t)] = NULL
               PROVE  EmptyCheck(objectQueue[QueueOf(t)])
    BY DEF NoLostWakeup
  <2>1. PICK q \in Queues : q = QueueOf(t)
    BY DEF QueueOf, Queues
  <2>2. Members(processQueue[q]) # {}
    BY <2>1 DEF WakeInv, Waiting
  <2>3. ~EmptyCheck(processQueue[q])
    BY <2>2, EmptyCheckOK, Sizes DEF IInv, BufInv
  <2> QED BY <2>1, <2>3 DEF WakeInv
<1> QED BY <1>1, WakeInvariance, PTL

-----------------------------------------------------------------------------
(* The refinement: an EbSystemResource implements ObjectPool, for any       *)
(* number of wrappers and threads: a step of the queues, fifos, semaphores  *)
(* and live counts is a step of the pool or leaves the pool as it is.  With *)
(* one consumer its full queue implements ObjectChannel.                    *)
(*                                                                          *)
(* Free, Posted and Has are the mapping of ImplementsPool.  IInv says where *)
(* a wrapper is before the step and what its live count counts; each lemma  *)
(* below says which abstract step a concrete one is.                        *)

\* The wrappers in the pool, the posted ones, and who has each of the others.
Free == Queued("empty") \cup UNION {Linked(p) : p \in Producers}

Posted == Queued("full") \cup UNION {Linked(c) : c \in Consumers}

(* The threads that have a reference to o, counted or kept.                 *)
HavingIt(o) == HoldersOf(o) \cup {p \in Pinners : KeptBy(p, o)}

Has == [o \in Objects |-> HavingIt(o)]

\* The contract's state does not change.
PoolStays == Free' = Free /\ Posted' = Posted /\ Has' = Has

-----------------------------------------------------------------------------
(* The steps of the pool in terms of the mapping.                           *)

\* The steps of the contract, from their effect on its state: take a wrapper.
LEMMA PoolTake ==
    ASSUME NEW t \in Threads, NEW o \in Objects, o \in Free, Free' = Free \ {o},
           Posted' = Posted, Has' = [Has EXCEPT ![o] = {t}]
    PROVE  Pool!Next
<1>1. Pool!Take(t, o)
  BY DEF Pool!Take, Free, Posted, Has, HavingIt
<1> QED BY <1>1 DEF Pool!Next

\* Post it.
LEMMA PoolPublish ==
    ASSUME NEW t \in Threads, NEW o \in Objects, HavingIt(o) = {t}, Free' = Free,
           Posted' = Posted \cup {o}, Has' = [Has EXCEPT ![o] = {}]
    PROVE  Pool!Next
<1>1. Pool!Publish(t, o)
  BY DEF Pool!Publish, Free, Posted, Has, HavingIt
<1> QED BY <1>1 DEF Pool!Next

\* Receive it.
LEMMA PoolReceive ==
    ASSUME NEW t \in Threads, NEW o \in Objects, o \in Posted, Posted' = Posted \ {o},
           Free' = Free, Has' = [Has EXCEPT ![o] = {t}]
    PROVE  Pool!Next
<1>1. Pool!Receive(t, o)
  BY DEF Pool!Receive, Free, Posted, Has, HavingIt
<1> QED BY <1>1 DEF Pool!Next

\* Let another thread have it too.
LEMMA PoolLend ==
    ASSUME NEW t \in Threads, NEW u \in Threads, NEW o \in Objects,
           t \in HavingIt(o), u \notin HavingIt(o), Free' = Free, Posted' = Posted,
           Has' = [Has EXCEPT ![o] = @ \cup {u}]
    PROVE  Pool!Next
<1>1. Pool!Lend(t, u, o)
  BY DEF Pool!Lend, Free, Posted, Has, HavingIt
<1> QED BY <1>1 DEF Pool!Next

\* Let go of it; with the last thread it is back in the pool.
LEMMA PoolLetGo ==
    ASSUME NEW t \in Threads, NEW o \in Objects, t \in HavingIt(o), Posted' = Posted,
           Has' = [Has EXCEPT ![o] = @ \ {t}],
           Free' = IF HavingIt(o) = {t} THEN Free \cup {o} ELSE Free
    PROVE  Pool!Next
<1>1. Pool!LetGo(t, o)
  BY DEF Pool!LetGo, Free, Posted, Has, HavingIt
<1> QED BY <1>1 DEF Pool!Next

\* Nothing changes.
LEMMA PoolStutter ==
    ASSUME PoolStays
    PROVE  UNCHANGED Pool!vars
  BY DEF Pool!vars, PoolStays, Free, Posted, Has, HavingIt

(* Has changes at one wrapper at most.                                      *)
LEMMA HasOne ==
    ASSUME NEW o \in Objects, NEW s, HavingIt(o)' = s,
           \A x \in Objects : x # o => HavingIt(x)' = HavingIt(x)
    PROVE  Has' = [Has EXCEPT ![o] = s]
  BY DEF Has

-----------------------------------------------------------------------------
(* What a step keeps of the mapping because of what it leaves alone.        *)

\* Steps that leave rings and fifos alone leave pool and posted wrappers alone.
LEMMA QueuesFrame ==
    ASSUME objectQueue' = objectQueue, fifo' = fifo
    PROVE  Free' = Free /\ Posted' = Posted
<1>1. /\ Queued("empty")' = Queued("empty") /\ Queued("full")' = Queued("full")
      /\ \A t : Linked(t)' = Linked(t)
  BY DEF Queued, Linked
<1> QED BY <1>1 DEF Free, Posted

\* Steps that leave the clients alone leave wrappers with who has them.
LEMMA HasFrame ==
    ASSUME held' = held, active' = active, liveCount' = liveCount, PinnersCalm
    PROVE  Has' = Has
<1>1. \A o \in Objects : HoldersOf(o)' = HoldersOf(o)
  BY DEF HoldersOf
<1>2. \A p \in Pinners, o \in Objects : KeptBy(p, o)' <=> KeptBy(p, o)
  BY DEF PinnersCalm, Pinning, KeptBy
<1>3. \A o \in Objects : HavingIt(o)' = HavingIt(o)
  BY <1>1, <1>2 DEF HavingIt
<1> QED BY <1>3 DEF Has

-----------------------------------------------------------------------------
(* Steps the pool does not see.                                             *)

\* Steps inside the queues that move no wrapper are not seen.
LEMMA Unseen ==
    ASSUME IInv, NEW t \in Threads, NEW next, pc[t] \notin Pinning, next \notin Pinning,
           objectQueue' = objectQueue, fifo' = fifo, wrappers' = wrappers, clients' = clients,
           pc' = [pc EXCEPT ![t] = next],
           target' = target \/ target' = [target EXCEPT ![t] = NULL]
    PROVE  PoolStays
<1>1. /\ pc \in [Threads -> PCs] /\ Pinners \subseteq Threads
      /\ target \in [Threads -> Threads \cup Objects \cup {NULL}]
  BY ThreadsAssumption DEF IInv, TypeOK, Threads
<1>2. PinnersCalm
  BY <1>1 DEF PinnersCalm
<1>3. held' = held /\ active' = active /\ liveCount' = liveCount
  BY DEF clients, wrappers
<1> QED BY <1>2, <1>3, QueuesFrame, HasFrame DEF PoolStays

\* Asking is not seen.
LEMMA RequestUnseen ==
    ASSUME IInv, NEW t \in Threads, Request(t)
    PROVE  PoolStays
<1>1. PICK q, what : RequestProcess(t, q, what) /\ pc[t] \in {"idle", "again"}
  BY DEF Request, RequestEmpty, RequestFull, Poll
<1>2. /\ objectQueue' = objectQueue /\ fifo' = fifo /\ wrappers' = wrappers /\ clients' = clients
      /\ pc' = [pc EXCEPT ![t] = "assign"] /\ target' = [target EXCEPT ![t] = NULL]
  BY <1>1 DEF RequestProcess, Enter, fifos
<1> QED BY <1>1, <1>2, Unseen DEF Pinning

(* A wrapper that moves from a queue to a fifo stays free, or stays posted. *)
LEMMA PairUnseen ==
    ASSUME IInv, NEW t \in Threads, Pair(t)
    PROVE  PoolStays
<1>q. PICK q \in Queues : q = QueueOf(t)
  BY DEF QueueOf, Queues
<1>f. PICK f, o : f = Front(processQueue[q]) /\ o = Front(objectQueue[q])
  OBVIOUS
<1>a. /\ ~EmptyCheck(objectQueue[q]) /\ ~EmptyCheck(processQueue[q])
      /\ objectQueue' = [objectQueue EXCEPT ![q] = PopFront(ObjectSlots, @)]
      /\ fifo' = [fifo EXCEPT ![f] = Append(@, o)]
      /\ liveCount' = liveCount /\ held' = held /\ active' = active
      /\ pc[t] = "assign" /\ pc' = [pc EXCEPT ![t] = "signal"]
      /\ target' = [target EXCEPT ![t] = f]
  BY <1>q, <1>f DEF Pair, wrappers, clients
<1>b. /\ pc \in [Threads -> PCs] /\ fifo \in [Threads -> Seq(Objects)]
      /\ target \in [Threads -> Threads \cup Objects \cup {NULL}]
      /\ DOMAIN objectQueue = Queues
  BY DEF IInv, TypeOK
<1>c. f \in Processes(q) /\ f \in Threads
  BY <1>a, <1>f, PopFrontOK, Sizes DEF IInv, BufInv
<1>d. /\ o \in Objects /\ o \in Queued(q) /\ Queued(q)' = Queued(q) \ {o}
      /\ \A r \in Queues : r # q => Queued(r)' = Queued(r)
  BY <1>a, <1>b, <1>f, PopFrontOK, Sizes DEF IInv, BufInv, Queued
<1>e. /\ Linked(f)' = Linked(f) \cup {o}
      /\ \A u \in Threads : u # f => Linked(u)' = Linked(u)
  <2>1. o \notin Elements(fifo[f]) /\ Injective(fifo[f])
    BY <1>c, <1>d DEF IInv, PlaceInv, FifoInv, Injective, Linked, Elements
  <2>2. Elements(Append(fifo[f], o)) = Elements(fifo[f]) \cup {o}
    BY <1>b, <1>c, <1>d, <2>1, FifoPushOK
  <2>3. /\ fifo'[f] = Append(fifo[f], o)
        /\ \A u \in Threads : u # f => fifo'[u] = fifo[u]
    BY <1>a, <1>b, <1>c
  <2> QED BY <2>2, <2>3 DEF Linked, Elements
<1>1. Free' = Free /\ Posted' = Posted
  <2>1. /\ Producers \subseteq Threads /\ Consumers \subseteq Threads
        /\ Producers \cap Consumers = {}
        /\ q = "empty" => f \in Producers
        /\ q = "full" => f \in Consumers
        /\ "empty" \in Queues /\ "full" \in Queues /\ (q = "empty" \/ q = "full")
    BY <1>c, ThreadsAssumption DEF Threads, Processes, Queues
  <2>2. CASE q = "empty"
    <3>1. /\ Queued("empty")' = Queued("empty") \ {o} /\ Queued("full")' = Queued("full")
          /\ f \in Producers /\ f \notin Consumers /\ o \in Queued("empty")
      BY <1>d, <2>1, <2>2
    <3> QED BY <1>e, <2>1, <3>1 DEF Free, Posted
  <2>3. CASE q = "full"
    <3>1. /\ Queued("full")' = Queued("full") \ {o} /\ Queued("empty")' = Queued("empty")
          /\ f \in Consumers /\ f \notin Producers /\ o \in Queued("full")
      BY <1>d, <2>1, <2>3
    <3> QED BY <1>e, <2>1, <3>1 DEF Free, Posted
  <2> QED BY <2>1, <2>2, <2>3
<1>2. PinnersCalm
  <2>1. Pinners \subseteq Threads
    BY ThreadsAssumption DEF Threads
  <2> QED BY <1>a, <1>b, <2>1 DEF PinnersCalm, Pinning
<1> QED BY <1>a, <1>1, <1>2, HasFrame DEF PoolStays

-----------------------------------------------------------------------------
(* svt_fifo_pop_front takes a wrapper that nobody has.                      *)
LEMMA PopFifoOK ==
    ASSUME IInv, NEW t \in Threads, NEW o, o = Head(fifo[t]), pc[t] = "pop", ~quit[t],
           fifo' = [fifo EXCEPT ![t] = Tail(@)], held' = [held EXCEPT ![t] = @ \cup {o}]
    PROVE  /\ o \in Objects /\ o \in Linked(t) /\ Linked(t)' = Linked(t) \ {o}
           /\ \A u \in Threads : u # t => Linked(u)' = Linked(u) /\ o \notin Linked(u)
           /\ \A q \in Queues : o \notin Queued(q)
           /\ ~InClient(o) /\ HoldersOf(o)' = {t}
           /\ \A x \in Objects : x # o => HoldersOf(x)' = HoldersOf(x)
<1>a. fifo \in [Threads -> Seq(Objects)] /\ sem[t] \in Nat
  BY DEF IInv, TypeOK
<1>1. Len(fifo[t]) = sem[t] + 1 + (IF Signalled(t) THEN 1 ELSE 0)
  BY DEF IInv, SemInv
<1>2. fifo[t] # <<>> /\ Injective(fifo[t])
  BY <1>a, <1>1 DEF IInv, FifoInv, Injective
<1>3. /\ Head(fifo[t]) \in Objects /\ Head(fifo[t]) \in Elements(fifo[t])
      /\ Elements(Tail(fifo[t])) = Elements(fifo[t]) \ {Head(fifo[t])}
  BY <1>a, <1>2, FifoPopOK
<1>4. fifo'[t] = Tail(fifo[t]) /\ \A u \in Threads : u # t => fifo'[u] = fifo[u]
  BY <1>a
<1>5. /\ o \in Objects /\ o \in Linked(t) /\ Linked(t)' = Linked(t) \ {o}
      /\ \A u \in Threads : u # t => Linked(u)' = Linked(u)
  BY <1>3, <1>4 DEF Linked, Elements
<1>6. /\ \A u \in Threads : u # t => o \notin Linked(u)
      /\ \A q \in Queues : o \notin Queued(q)
      /\ ~InClient(o)
  BY <1>5 DEF IInv, PlaceInv
<1>7. HoldersOf(o) = {}
  BY <1>6 DEF InClient
<1>8. /\ HoldersOf(o)' = HoldersOf(o) \cup {t}
      /\ \A x \in Objects : x # o => HoldersOf(x)' = HoldersOf(x)
  <2>1. TypeOK /\ o \notin held[t]
    BY <1>7 DEF IInv, HoldersOf
  <2> QED BY <1>5, <2>1, HoldMore
<1> QED BY <1>5, <1>6, <1>7, <1>8

(* svt_get_empty_object returns a free wrapper to its new, only holder.     *)
LEMMA PopEmptyTakes ==
    ASSUME IInv, NEW p \in Threads, PopEmpty(p)
    PROVE  Pool!Next
<1>o. PICK o : o = Head(fifo[p])
  OBVIOUS
<1>a. /\ liveCount' = [liveCount EXCEPT ![o] = 0]
      /\ objectQueue' = objectQueue /\ fifo' = [fifo EXCEPT ![p] = Tail(@)]
      /\ held' = [held EXCEPT ![p] = @ \cup {o}] /\ active' = active /\ target' = target
      /\ pc[p] = "pop" /\ p \in Producers /\ pc' = [pc EXCEPT ![p] = "idle"]
  BY <1>o DEF PopEmpty, PopFifo, queues
<1>b. /\ pc \in [Threads -> PCs] /\ liveCount \in [Objects -> Int] /\ ~quit[p]
  BY <1>a, ThreadsAssumption DEF IInv, TypeOK, RoleInv
<1>c. /\ o \in Objects /\ o \in Linked(p) /\ Linked(p)' = Linked(p) \ {o}
      /\ \A u \in Threads : u # p => Linked(u)' = Linked(u) /\ o \notin Linked(u)
      /\ \A q \in Queues : o \notin Queued(q)
      /\ ~InClient(o) /\ HoldersOf(o)' = {p}
      /\ \A x \in Objects : x # o => HoldersOf(x)' = HoldersOf(x)
  BY <1>a, <1>b, <1>o, PopFifoOK
<1>d. /\ Queued("empty")' = Queued("empty") /\ Queued("full")' = Queued("full")
      /\ o \notin Queued("empty")
  BY <1>a, <1>c DEF Queued, Queues
<1>e. Producers \subseteq Threads /\ Consumers \subseteq Threads /\ p \notin Consumers
  BY <1>a, ThreadsAssumption DEF Threads
<1>1. o \in Free /\ Free' = Free \ {o}
  BY <1>a, <1>c, <1>d, <1>e DEF Free
<1>2. Posted' = Posted
  BY <1>c, <1>d, <1>e DEF Posted
<1>3. \A q \in Pinners : pc[q] = "pop" /\ pc'[q] = "idle" /\ active'[q] = active[q]
  BY <1>a, <1>b, SinglePinner
<1>4. \A q \in Pinners : active[q] # o
  BY <1>c DEF InClient, KeptBy
<1>5. \A q \in Pinners, x \in Objects : KeptBy(q, x)' <=> KeptBy(q, x)
  BY <1>3 DEF KeptBy
<1>6. HavingIt(o)' = {p} /\ \A x \in Objects : x # o => HavingIt(x)' = HavingIt(x)
  BY <1>c, <1>3, <1>4, <1>5 DEF HavingIt, KeptBy
<1>7. Has' = [Has EXCEPT ![o] = {p}]
  BY <1>c, <1>6, HasOne
<1> QED BY <1>c, <1>1, <1>2, <1>7, PoolTake

(* svt_get_full_object returns a posted wrapper, or the thread quits.       *)
LEMMA PopFullReceives ==
    ASSUME IInv, NEW c \in Threads, PopFull(c)
    PROVE  Pool!Next \/ PoolStays
<1>a. /\ wrappers' = wrappers /\ objectQueue' = objectQueue
      /\ active' = active /\ target' = target /\ pc[c] = "pop" /\ c \in Consumers
  BY DEF PopFull, queues
<1>1. CASE quit[c]
  <2>1. pc' = [pc EXCEPT ![c] = "exited"] /\ fifo' = fifo /\ clients' = clients
    BY <1>1 DEF PopFull, clients
  <2> QED BY <1>a, <2>1, Unseen DEF Pinning
<1>2. CASE ~quit[c]
  <2>o. PICK o : o = Head(fifo[c])
    OBVIOUS
  <2>a. /\ pc' = [pc EXCEPT ![c] = "idle"] /\ fifo' = [fifo EXCEPT ![c] = Tail(@)]
        /\ held' = [held EXCEPT ![c] = @ \cup {o}]
    BY <1>2, <2>o DEF PopFull, PopFifo
  <2>c. /\ o \in Objects /\ o \in Linked(c) /\ Linked(c)' = Linked(c) \ {o}
        /\ \A u \in Threads : u # c => Linked(u)' = Linked(u) /\ o \notin Linked(u)
        /\ \A q \in Queues : o \notin Queued(q)
        /\ ~InClient(o) /\ HoldersOf(o)' = {c}
        /\ \A x \in Objects : x # o => HoldersOf(x)' = HoldersOf(x)
    BY <1>2, <1>a, <2>a, <2>o, PopFifoOK
  <2>d. /\ Queued("empty")' = Queued("empty") /\ Queued("full")' = Queued("full")
        /\ o \notin Queued("full")
    BY <1>a, <2>c DEF Queued, Queues
  <2>e. Producers \subseteq Threads /\ Consumers \subseteq Threads /\ c \notin Producers
    BY <1>a, ThreadsAssumption DEF Threads
  <2>1. o \in Posted /\ Posted' = Posted \ {o}
    BY <1>a, <2>c, <2>d, <2>e DEF Posted
  <2>2. Free' = Free
    BY <2>c, <2>d, <2>e DEF Free
  <2>3. \A q \in Pinners : pc'[q] = pc[q]
    <3>1. pc \in [Threads -> PCs] /\ c \notin Pinners /\ Pinners \subseteq Threads
      BY <2>e, ThreadsAssumption DEF IInv, TypeOK
    <3> QED BY <2>a, <3>1
  <2>4. \A q \in Pinners, x \in Objects : KeptBy(q, x)' <=> KeptBy(q, x)
    BY <1>a, <2>3 DEF KeptBy, wrappers
  <2>5. \A q \in Pinners : ~KeptBy(q, o)
    BY <2>c DEF InClient
  <2>6. HavingIt(o)' = {c} /\ \A x \in Objects : x # o => HavingIt(x)' = HavingIt(x)
    BY <2>c, <2>4, <2>5 DEF HavingIt
  <2>7. Has' = [Has EXCEPT ![o] = {c}]
    BY <2>c, <2>6, HasOne
  <2> QED BY <2>c, <2>1, <2>2, <2>7, PoolReceive
<1> QED BY <1>1, <1>2

-----------------------------------------------------------------------------
(* svt_circular_buffer_push_front and _back of a wrapper the clients had.   *)
LEMMA PushedOK ==
    ASSUME IInv, NEW q \in Queues, NEW o \in Objects, InClient(o), NEW new,
           new = PushBack(ObjectSlots, objectQueue[q], o)
              \/ new = PushFront(ObjectSlots, objectQueue[q], o),
           objectQueue' = [objectQueue EXCEPT ![q] = new]
    PROVE  /\ Queued(q)' = Queued(q) \cup {o}
           /\ \A r \in Queues : r # q => Queued(r)' = Queued(r)
<1>1. WellFormed(ObjectSlots, Objects, objectQueue[q]) /\ o \notin Members(objectQueue[q])
  BY DEF IInv, BufInv, PlaceInv, Queued
<1>2. \E i \in 0..(ObjectSlots - 1) : objectQueue[q].slot[i] = NULL
  BY <1>1, Room, Sizes
<1>3. /\ Members(PushBack(ObjectSlots, objectQueue[q], o)) = Members(objectQueue[q]) \cup {o}
      /\ Members(PushFront(ObjectSlots, objectQueue[q], o)) = Members(objectQueue[q]) \cup {o}
  BY <1>1, <1>2, PushBackOK, PushFrontOK, Sizes
<1>4. DOMAIN objectQueue = Queues
  BY DEF IInv, TypeOK
<1>5. objectQueue'[q] = new /\ \A r \in Queues : r # q => objectQueue'[r] = objectQueue[r]
  BY <1>4
<1> QED BY <1>3, <1>5 DEF Queued

(* svt_release_object pushes on the empty queue.                            *)
LEMMA FreedOK ==
    ASSUME IInv, NEW o \in Objects, InClient(o), fifo' = fifo,
           objectQueue' = [objectQueue EXCEPT !["empty"] = PushFront(ObjectSlots, @, o)]
    PROVE  Free' = Free \cup {o} /\ Posted' = Posted
<1>1. PICK new : new = PushFront(ObjectSlots, objectQueue["empty"], o)
  OBVIOUS
<1>2. objectQueue' = [objectQueue EXCEPT !["empty"] = new]
  BY <1>1
<1>3. "full" \in Queues /\ "empty" \in Queues
  BY DEF Queues
<1>4. /\ Queued("empty")' = Queued("empty") \cup {o} /\ Queued("full")' = Queued("full")
      /\ \A u : Linked(u)' = Linked(u)
  BY <1>1, <1>2, <1>3, PushedOK DEF Linked
<1> QED BY <1>4 DEF Free, Posted

(* svt_post_full_object publishes a wrapper of which the caller has the     *)
(* only reference.                                                          *)
LEMMA PostPublishes ==
    ASSUME IInv, NEW p \in Threads, NEW o \in Objects, Post(p, o)
    PROVE  Pool!Next
<1>a. /\ objectQueue' = [objectQueue EXCEPT !["full"] = PushBack(ObjectSlots, @, o)]
      /\ fifo' = fifo /\ held' = [held EXCEPT ![p] = @ \ {o}]
      /\ p \in Producers \ Pinners /\ o \in held[p] /\ liveCount[o] = 0
  BY DEF Post, fifos
<1>b. Pinners = {}
  BY <1>a, SinglePinner
<1>c. HoldersOf(o) = {p} /\ InClient(o)
  BY <1>a, OnlyUser
<1>d. HoldersOf(o)' = {} /\ \A x \in Objects : x # o => HoldersOf(x)' = HoldersOf(x)
  <2>1. TypeOK
    BY DEF IInv
  <2>2. /\ HoldersOf(o)' = HoldersOf(o) \ {p}
        /\ \A x \in Objects : x # o => HoldersOf(x)' = HoldersOf(x)
    BY <1>a, <2>1, HoldLess
  <2> QED BY <1>c, <2>2
<1>e. /\ Queued("full")' = Queued("full") \cup {o} /\ Queued("empty")' = Queued("empty")
      /\ \A u \in Threads : Linked(u)' = Linked(u)
  <2>1. PICK new : new = PushBack(ObjectSlots, objectQueue["full"], o)
    OBVIOUS
  <2>2. objectQueue' = [objectQueue EXCEPT !["full"] = new]
    BY <1>a, <2>1
  <2>3. "full" \in Queues /\ "empty" \in Queues
    BY DEF Queues
  <2> QED BY <1>a, <1>c, <2>1, <2>2, <2>3, PushedOK DEF Linked
<1>1. Free' = Free /\ Posted' = Posted \cup {o}
  <2>1. Producers \subseteq Threads /\ Consumers \subseteq Threads
    BY DEF Threads
  <2> QED BY <1>e, <2>1 DEF Free, Posted
<1>2. HavingIt(o) = {p} /\ HavingIt(o)' = {} /\ \A x \in Objects : x # o => HavingIt(x)' = HavingIt(x)
  BY <1>b, <1>c, <1>d DEF HavingIt
<1>3. Has' = [Has EXCEPT ![o] = {}]
  BY <1>2, HasOne
<1> QED BY <1>1, <1>2, <1>3, PoolPublish

(* svt_release_object: the holder lets go, and the wrapper becomes free     *)
(* exactly when nobody else has it, a pinner included.                      *)
LEMMA ReleaseLetsGo ==
    ASSUME IInv, NEW t \in Threads, NEW o \in Objects, Release(t, o)
    PROVE  Pool!Next
<1>a. /\ fifo' = fifo /\ held' = [held EXCEPT ![t] = @ \ {o}] /\ active' = active
      /\ pc[t] = "idle" /\ t \notin Pinners /\ o \in held[t]
  BY DEF Release, ReleaseBody, fifos
<1>b. /\ liveCount \in [Objects -> Int] /\ pc \in [Threads -> PCs]
      /\ target \in [Threads -> Threads \cup Objects \cup {NULL}]
  BY DEF IInv, TypeOK
<1>d. /\ Users(o) > 0 /\ InClient(o) /\ Users(o) \in Nat
      /\ liveCount[o] = Users(o) \/ (liveCount[o] = 0 /\ Users(o) = 1)
      /\ Users(o) = 1 => HoldersOf(o) = {t}
      /\ t \in HoldersOf(o)
  BY <1>a, OnlyUser, UsersOK DEF HoldersOf
<1>e. /\ HoldersOf(o)' = HoldersOf(o) \ {t}
      /\ \A x \in Objects : x # o => HoldersOf(x)' = HoldersOf(x)
  BY <1>a, HoldLess DEF IInv
<1>g. \A p \in Pinners : p \in Threads /\ p # t
  BY <1>a, ThreadsAssumption DEF Threads
<1>h. /\ liveCount'[o] = IF releaseEnable[o] /\ DecLive(liveCount[o]) = 0 THEN Released
                         ELSE DecLive(liveCount[o])
      /\ \A x \in Objects : x # o => liveCount'[x] = liveCount[x]
  BY <1>b DEF Release, ReleaseBody
<1>i. \A p \in Pinners : pc'[p] = pc[p] /\ target'[p] = target[p]
  BY <1>b, <1>g DEF Release, ReleaseBody, Enter
<1>k. \A p \in Pinners :
         /\ active[p] = o => ~releaseEnable[o]
         /\ target[p] = o /\ pc[p] = "unpin" => ~releaseEnable[o]
         /\ target[p] = o /\ pc[p] = "check" => liveCount[o] = Users(o) /\ releaseEnable[o]
         /\ ~(target[p] = o /\ pc[p] = "drop")
  BY <1>d DEF IInv, LiveInv
<1>l. ~releaseEnable[o] => \E p \in Pinners : KeptBy(p, o)
  BY DEF IInv, LiveInv, KeptBy
<1>m. \A p \in Pinners : KeptBy(p, o) <=> active[p] = o \/ (pc[p] = "unpin" /\ target[p] = o)
  BY <1>d, <1>k DEF KeptBy
<1>n. \A p \in Pinners : KeptBy(p, o)' <=> active[p] = o \/ (pc[p] = "unpin" /\ target[p] = o)
  <2>1. \A p \in Pinners : target[p] = o /\ pc[p] = "check" => liveCount'[o] # 0
    BY <1>d, <1>h, <1>k DEF Released, DecLive
  <2> QED BY <1>a, <1>i, <1>k, <2>1 DEF KeptBy
<1>o. \A p \in Pinners, x \in Objects : x # o => (KeptBy(p, x)' <=> KeptBy(p, x))
  BY <1>a, <1>h, <1>i DEF KeptBy
<1>1. /\ t \in HavingIt(o) /\ HavingIt(o)' = HavingIt(o) \ {t}
      /\ \A x \in Objects : x # o => HavingIt(x)' = HavingIt(x)
  BY <1>d, <1>e, <1>g, <1>m, <1>n, <1>o DEF HavingIt
<1>2. HavingIt(o) = {t} <=> releaseEnable[o] /\ DecLive(liveCount[o]) = 0
  <2>1. CASE ~releaseEnable[o]
    BY <1>g, <1>l, <2>1 DEF HavingIt
  <2>2. CASE releaseEnable[o] /\ DecLive(liveCount[o]) # 0
    <3>1. Users(o) # 1
      BY <1>d, <2>2 DEF DecLive
    <3>2. HoldersOf(o) # {t}
      BY <3>1, FS_Singleton DEF Users
    <3> QED BY <1>d, <2>2, <3>2 DEF HavingIt
  <2>3. CASE releaseEnable[o] /\ DecLive(liveCount[o]) = 0
    <3>1. Users(o) = 1
      BY <1>b, <1>d, <2>3 DEF DecLive
    <3>2. \A p \in Pinners : ~KeptBy(p, o)
      BY <1>k, <1>m, <2>3
    <3> QED BY <1>d, <2>3, <3>1, <3>2 DEF HavingIt
  <2> QED BY <2>1, <2>2, <2>3
<1>3. /\ Posted' = Posted
      /\ Free' = IF HavingIt(o) = {t} THEN Free \cup {o} ELSE Free
  <2>1. CASE ~(releaseEnable[o] /\ DecLive(liveCount[o]) = 0)
    <3>1. objectQueue' = objectQueue
      BY <2>1 DEF Release, ReleaseBody
    <3> QED BY <1>a, <1>2, <2>1, <3>1, QueuesFrame
  <2>2. CASE releaseEnable[o] /\ DecLive(liveCount[o]) = 0
    <3>1. objectQueue' = [objectQueue EXCEPT !["empty"] = PushFront(ObjectSlots, @, o)]
      BY <2>2 DEF Release, ReleaseBody
    <3> QED BY <1>a, <1>d, <1>2, <2>2, <3>1, FreedOK
  <2> QED BY <2>1, <2>2
<1>4. Has' = [Has EXCEPT ![o] = HavingIt(o) \ {t}]
  BY <1>1, HasOne
<1>5. Has[o] = HavingIt(o)
  BY DEF Has
<1> QED BY <1>1, <1>3, <1>4, <1>5, PoolLetGo

-----------------------------------------------------------------------------
(* svt_object_inc_live_count for the caller's own reference is invisible.   *)
LEMMA ClaimUnseen ==
    ASSUME IInv, NEW p \in Threads, NEW o \in Objects, Claim(p, o)
    PROVE  PoolStays
<1>1. /\ Pinners = {} /\ objectQueue' = objectQueue /\ fifo' = fifo /\ held' = held
  BY SinglePinner DEF Claim, queues, fifos, clients
<1>2. \A x \in Objects : HavingIt(x)' = HavingIt(x)
  BY <1>1 DEF HavingIt, HoldersOf
<1>3. Has' = Has
  BY <1>2 DEF Has
<1> QED BY <1>1, <1>3, QueuesFrame DEF PoolStays

(* A counted reference goes to a holder that had none.                      *)
LEMMA LendOK ==
    ASSUME IInv, NEW p \in Threads, NEW u \in Holders, NEW o \in Objects,
           o \notin held[u], p \in HavingIt(o), pc' = pc, target' = target, active' = active,
           objectQueue' = objectQueue, fifo' = fifo,
           held' = [held EXCEPT ![u] = @ \cup {o}],
           \A q \in Pinners : pc[q] = "idle",
           \A x \in Objects : x # o => liveCount'[x] = liveCount[x]
    PROVE  Pool!Next
<1>1. u \in Threads /\ u \notin Pinners
  BY ThreadsAssumption DEF Threads
<1>2. /\ HoldersOf(o)' = HoldersOf(o) \cup {u}
      /\ \A x \in Objects : x # o => HoldersOf(x)' = HoldersOf(x)
  <2>1. TypeOK
    BY DEF IInv
  <2> QED BY <1>1, <2>1, HoldMore
<1>3. \A q \in Pinners, x \in Objects : KeptBy(q, x)' <=> KeptBy(q, x)
  BY DEF KeptBy
<1>4. /\ HavingIt(o)' = HavingIt(o) \cup {u} /\ u \notin HavingIt(o)
      /\ \A x \in Objects : x # o => HavingIt(x)' = HavingIt(x)
  BY <1>1, <1>2, <1>3 DEF HavingIt, HoldersOf
<1>5. Has' = [Has EXCEPT ![o] = HavingIt(o) \cup {u}] /\ Has[o] = HavingIt(o)
  BY <1>4, HasOne DEF Has
<1> QED BY <1>1, <1>4, <1>5, QueuesFrame, PoolLend

\* Sharing lends the wrapper.
LEMMA ShareLends ==
    ASSUME IInv, NEW p \in Threads, NEW u \in Holders, NEW o \in Objects, Share(p, u, o)
    PROVE  Pool!Next
<1>1. /\ p \in Producers /\ o \in held[p] /\ o \notin held[u] /\ liveCount[o] > 0
      /\ pc' = pc /\ target' = target /\ active' = active
      /\ objectQueue' = objectQueue /\ fifo' = fifo
      /\ held' = [held EXCEPT ![u] = @ \cup {o}]
      /\ liveCount' = [liveCount EXCEPT ![o] = @ + 1]
      /\ pc[p] = "idle"
  BY DEF Share, threads, queues, fifos
<1>2. liveCount \in [Objects -> Int]
  BY DEF IInv, TypeOK
<1>3. \A x \in Objects : x # o => liveCount'[x] = liveCount[x]
  BY <1>1, <1>2
<1>4. p \in HavingIt(o)
  BY <1>1 DEF HavingIt, HoldersOf
<1>5. \A q \in Pinners : pc[q] = "idle"
  BY <1>1, SinglePinner
<1> QED BY <1>1, <1>3, <1>4, <1>5, LendOK

\* So does sharing the active sequence control set.
LEMMA ShareActiveLends ==
    ASSUME IInv, NEW p \in Threads, NEW u \in Holders, ShareActive(p, u)
    PROVE  Pool!Next
<1>o. PICK o : o = active[p]
  OBVIOUS
<1>1. /\ p \in Pinners /\ o # NULL /\ o \notin held[u]
      /\ pc' = pc /\ target' = target /\ active' = active
      /\ objectQueue' = objectQueue /\ fifo' = fifo
      /\ held' = [held EXCEPT ![u] = @ \cup {o}]
      /\ liveCount' = [liveCount EXCEPT ![o] = @ + 1]
      /\ pc[p] = "idle"
  BY <1>o DEF ShareActive, threads, queues, fifos
<1>2. liveCount \in [Objects -> Int] /\ o \in Objects
  BY <1>1, <1>o DEF IInv, TypeOK
<1>3. \A x \in Objects : x # o => liveCount'[x] = liveCount[x]
  BY <1>1, <1>2
<1>4. p \in HavingIt(o)
  BY <1>1, <1>o DEF HavingIt, KeptBy
<1>5. \A q \in Pinners : pc[q] = "idle"
  BY <1>1, ThreadsAssumption, SinglePinner
<1> QED BY <1>1, <1>2, <1>3, <1>4, <1>5, LendOK

-----------------------------------------------------------------------------
(* The exchange of sequence control sets.                                   *)

(* The pinner keeps both, the new one instead of its reference to it.       *)
LEMMA PinUnseen ==
    ASSUME IInv, NEW p \in Threads, NEW o \in Objects, Pin(p, o)
    PROVE  PoolStays
<1>a. /\ p \in Pinners /\ o \in held[p] /\ liveCount[o] = 0 /\ active[p] # o
      /\ pc[p] = "idle" /\ liveCount' = liveCount
      /\ objectQueue' = objectQueue /\ fifo' = fifo
      /\ held' = [held EXCEPT ![p] = @ \ {o}]
      /\ active' = [active EXCEPT ![p] = o]
      /\ target' = [target EXCEPT ![p] = active[p]]
      /\ pc' = [pc EXCEPT ![p] = IF active[p] = NULL THEN "idle" ELSE "unpin"]
  BY DEF Pin, queues, fifos
<1>b. /\ pc \in [Threads -> PCs] /\ active \in [Pinners -> Objects \cup {NULL}]
      /\ target \in [Threads -> Threads \cup Objects \cup {NULL}]
      /\ NULL \notin Objects
  BY Sizes DEF IInv, TypeOK
<1>c. \A q \in Pinners : q = p
  BY <1>a, ThreadsAssumption, SinglePinner
<1>d. HoldersOf(o) = {p}
  BY <1>a, OnlyUser
<1>e. HoldersOf(o)' = {} /\ \A x \in Objects : x # o => HoldersOf(x)' = HoldersOf(x)
  <2>1. TypeOK
    BY DEF IInv
  <2>2. /\ HoldersOf(o)' = HoldersOf(o) \ {p}
        /\ \A x \in Objects : x # o => HoldersOf(x)' = HoldersOf(x)
    BY <1>a, <2>1, HoldLess
  <2> QED BY <1>d, <2>2
<1>f. /\ active'[p] = o /\ target'[p] = active[p]
      /\ pc'[p] = IF active[p] = NULL THEN "idle" ELSE "unpin"
  BY <1>a, <1>b
<1>1. \A x \in Objects : KeptBy(p, x) <=> active[p] = x
  BY <1>a DEF KeptBy
<1>2. \A x \in Objects : KeptBy(p, x)' <=> x = o \/ active[p] = x
  BY <1>b, <1>f DEF KeptBy
<1>3. \A x \in Objects : HavingIt(x)' = HavingIt(x)
  <2>1. HavingIt(o) = {p} /\ HavingIt(o)' = {p}
    BY <1>a, <1>c, <1>d, <1>e, <1>1, <1>2 DEF HavingIt
  <2>2. \A x \in Objects : x # o => HavingIt(x)' = HavingIt(x)
    BY <1>c, <1>e, <1>1, <1>2 DEF HavingIt
  <2> QED BY <2>1, <2>2
<1>4. Has' = Has
  BY <1>3 DEF Has
<1> QED BY <1>a, <1>4, QueuesFrame DEF PoolStays

(* The moment the release of the previous one is enabled again the pinner   *)
(* has let go of it, unless nobody else uses it.                            *)
LEMMA UnpinLetsGo ==
    ASSUME IInv, NEW p \in Pinners, Unpin(p)
    PROVE  Pool!Next \/ PoolStays
<1>o. PICK o : o = target[p]
  OBVIOUS
<1>a. /\ pc[p] = "unpin" /\ pc' = [pc EXCEPT ![p] = "check"]
      /\ liveCount' = liveCount /\ objectQueue' = objectQueue /\ fifo' = fifo
      /\ target' = target /\ held' = held /\ active' = active
  BY DEF Unpin, queues, fifos, clients
<1>b. pc \in [Threads -> PCs] /\ p \in Threads
  BY ThreadsAssumption DEF IInv, TypeOK, Threads
<1>c. \A q \in Pinners : q = p
  BY ThreadsAssumption, SinglePinner
<1>d. o \in Objects /\ liveCount[o] = Users(o) /\ active[p] # o
  BY <1>a, <1>b, <1>o DEF IInv, RoleInv, LiveInv
<1>e. pc'[p] = "check"
  BY <1>a, <1>b
<1>f. \A x \in Objects : HoldersOf(x)' = HoldersOf(x)
  BY <1>a DEF HoldersOf
<1>1. \A x \in Objects : x # o => (KeptBy(p, x)' <=> KeptBy(p, x))
  BY <1>a, <1>e, <1>o DEF KeptBy
<1>2. KeptBy(p, o) /\ (KeptBy(p, o)' <=> liveCount[o] = 0)
  BY <1>a, <1>d, <1>e, <1>o DEF KeptBy
<1>3. Free' = Free /\ Posted' = Posted
  BY <1>a, QueuesFrame
<1>4. \A x \in Objects : x # o => HavingIt(x)' = HavingIt(x)
  BY <1>c, <1>f, <1>1 DEF HavingIt
<1>5. CASE liveCount[o] = 0
  <2>1. HavingIt(o)' = HavingIt(o)
    BY <1>c, <1>d, <1>f, <1>2, <1>5 DEF HavingIt
  <2> QED BY <1>3, <1>4, <2>1 DEF PoolStays, Has
<1>6. CASE liveCount[o] # 0
  <2>1. HoldersOf(o) # {} /\ p \notin HoldersOf(o)
    <3>1. o \notin held[p]
      BY <1>d, <1>6 DEF IInv, LiveInv
    <3> QED BY <1>d, <1>6, <3>1, UsersOK DEF HoldersOf
  <2>2. HavingIt(o) = HoldersOf(o) \cup {p} /\ HavingIt(o)' = HoldersOf(o)
    BY <1>c, <1>d, <1>f, <1>2, <1>6 DEF HavingIt
  <2>3. /\ p \in HavingIt(o) /\ HavingIt(o) # {p}
        /\ HavingIt(o)' = HavingIt(o) \ {p}
    BY <2>1, <2>2
  <2>4. Has' = [Has EXCEPT ![o] = HavingIt(o) \ {p}] /\ Has[o] = HavingIt(o)
    BY <1>d, <1>4, <2>3, HasOne DEF Has
  <2> QED BY <1>b, <1>d, <1>3, <2>3, <2>4, PoolLetGo
<1> QED BY <1>5, <1>6

\* The check of the previous sequence control set is not seen.
LEMMA CheckUnseen ==
    ASSUME IInv, NEW p \in Pinners, CheckPrevious(p)
    PROVE  PoolStays
<1>a. /\ pc[p] = "check" /\ liveCount' = liveCount /\ held' = held /\ active' = active
      /\ objectQueue' = objectQueue /\ fifo' = fifo
  BY DEF CheckPrevious, wrappers, queues, fifos, clients
<1>b. /\ pc \in [Threads -> PCs] /\ p \in Threads
      /\ target \in [Threads -> Threads \cup Objects \cup {NULL}]
  BY ThreadsAssumption DEF IInv, TypeOK, Threads
<1>c. \A q \in Pinners : q = p
  BY ThreadsAssumption, SinglePinner
<1>1. IF liveCount[target[p]] = 0 THEN pc'[p] = "drop" /\ target'[p] = target[p]
                                  ELSE pc'[p] = "idle"
  BY <1>b DEF CheckPrevious
<1>2. \A x \in Objects : KeptBy(p, x)' <=> KeptBy(p, x)
  BY <1>a, <1>1 DEF KeptBy
<1>3. \A x \in Objects : HavingIt(x)' = HavingIt(x)
  BY <1>a, <1>c, <1>2 DEF HavingIt, HoldersOf
<1> QED BY <1>a, <1>3, QueuesFrame DEF PoolStays, Has

(* The unlocked test was right: the pinner is the last to let go.           *)
LEMMA DropLetsGo ==
    ASSUME IInv, NEW p \in Pinners, DropPrevious(p)
    PROVE  Pool!Next
<1>o. PICK o : o = target[p]
  OBVIOUS
<1>b. /\ pc \in [Threads -> PCs] /\ p \in Threads /\ liveCount \in [Objects -> Int]
      /\ target \in [Threads -> Threads \cup Objects \cup {NULL}]
  BY ThreadsAssumption DEF IInv, TypeOK, Threads
<1>c. \A q \in Pinners : q = p
  BY ThreadsAssumption, SinglePinner
<1>d. /\ pc[p] = "drop" /\ o \in Objects
      /\ liveCount[o] = 0 /\ Users(o) = 0 /\ releaseEnable[o] /\ active[p] # o
  BY <1>b, <1>o DEF DropPrevious, IInv, RoleInv, LiveInv
<1>a. /\ fifo' = fifo /\ held' = held /\ active' = active
      /\ liveCount' = [liveCount EXCEPT ![o] = Released]
      /\ objectQueue' = [objectQueue EXCEPT !["empty"] = PushFront(ObjectSlots, @, o)]
      /\ pc' = [pc EXCEPT ![p] = "assign"]
  BY <1>d, <1>o DEF DropPrevious, ReleaseBody, Enter, fifos, clients, DecLive
<1>e. \A x \in Objects : HoldersOf(x)' = HoldersOf(x)
  BY <1>a DEF HoldersOf
<1>f. HoldersOf(o) = {}
  BY <1>d, UsersOK
<1>1. pc'[p] = "assign" /\ \A x \in Objects : x # o => liveCount'[x] = liveCount[x]
  BY <1>a, <1>b, <1>d
<1>2. KeptBy(p, o) /\ ~KeptBy(p, o)'
  BY <1>a, <1>d, <1>o, <1>1 DEF KeptBy
<1>3. \A x \in Objects : x # o => (KeptBy(p, x)' <=> KeptBy(p, x))
  BY <1>a, <1>d, <1>o, <1>1 DEF KeptBy
<1>4. /\ HavingIt(o) = {p} /\ HavingIt(o)' = {}
      /\ \A x \in Objects : x # o => HavingIt(x)' = HavingIt(x)
  BY <1>c, <1>e, <1>f, <1>2, <1>3, <1>d DEF HavingIt
<1>5. Has' = [Has EXCEPT ![o] = @ \ {p}]
  <2>1. Has' = [Has EXCEPT ![o] = {}] /\ Has[o] = HavingIt(o)
    BY <1>d, <1>4, HasOne DEF Has
  <2>2. Has[o] \ {p} = {}
    BY <1>4, <2>1
  <2> QED BY <2>1, <2>2
<1>6. Free' = Free \cup {o} /\ Posted' = Posted
  <2>1. InClient(o)
    BY <1>2 DEF InClient
  <2> QED BY <1>a, <1>d, <2>1, FreedOK
<1>7. p \in HavingIt(o) /\ Free' = IF HavingIt(o) = {p} THEN Free \cup {o} ELSE Free
  BY <1>4, <1>6
<1> QED BY <1>b, <1>d, <1>5, <1>6, <1>7, PoolLetGo

-----------------------------------------------------------------------------
(* Putting it together.                                                     *)

\* Neither is shutdown.
LEMMA ShutdownUnseen ==
    ASSUME Shutdown
    PROVE  PoolStays
<1>1. /\ held' = held /\ active' = active /\ liveCount' = liveCount
      /\ objectQueue' = objectQueue /\ fifo' = fifo /\ pc' = pc /\ target' = target
  BY DEF Shutdown, SetQuit, PostQuit, wrappers, queues, threads, clients
<1>2. PinnersCalm
  BY <1>1 DEF PinnersCalm
<1> QED BY <1>1, <1>2, QueuesFrame, HasFrame DEF PoolStays

\* A step inside the queues is a step of the contract or not seen.
LEMMA InternalRefines ==
    ASSUME IInv, NEW t \in Threads, Internal(t)
    PROVE  Pool!Next \/ PoolStays
<1>1. CASE Signal(t)
  <2>1. /\ objectQueue' = objectQueue /\ fifo' = fifo /\ wrappers' = wrappers
        /\ clients' = clients /\ pc[t] = "signal" /\ pc' = [pc EXCEPT ![t] = "assign"]
        /\ target' = [target EXCEPT ![t] = NULL]
    BY <1>1 DEF Signal, queues
  <2> QED BY <2>1, Unseen DEF Pinning
<1>2. CASE Unlock(t)
  <2>1. PICK next \in {"wait", "peek", "idle"} :
          /\ objectQueue' = objectQueue /\ fifo' = fifo /\ wrappers' = wrappers
          /\ clients' = clients /\ pc[t] = "assign" /\ pc' = [pc EXCEPT ![t] = next]
          /\ target' = target
    BY <1>2 DEF Unlock, fifos
  <2> QED BY <2>1, Unseen DEF Pinning
<1>3. CASE Wait(t)
  <2>1. /\ objectQueue' = objectQueue /\ fifo' = fifo /\ wrappers' = wrappers
        /\ clients' = clients /\ pc[t] = "wait" /\ pc' = [pc EXCEPT ![t] = "pop"]
        /\ target' = target
    BY <1>3 DEF Wait, queues
  <2> QED BY <2>1, Unseen DEF Pinning
<1>4. CASE Peek(t)
  <2>1. PICK next \in {"idle", "again"} :
          /\ objectQueue' = objectQueue /\ fifo' = fifo /\ wrappers' = wrappers
          /\ clients' = clients /\ pc[t] = "peek" /\ pc' = [pc EXCEPT ![t] = next]
          /\ target' = target
    BY <1>4 DEF Peek, queues, fifos
  <2> QED BY <2>1, Unseen DEF Pinning
<1> QED BY <1>1, <1>2, <1>3, <1>4, PairUnseen, PopEmptyTakes, PopFullReceives, CheckUnseen
        DEF Internal

\* So is a step that gives a wrapper back.
LEMMA LetGoRefines ==
    ASSUME IInv, NEW t \in Threads, LetGo(t)
    PROVE  Pool!Next \/ PoolStays
  BY PostPublishes, ReleaseLetsGo, PinUnseen, UnpinLetsGo, DropLetsGo DEF LetGo

\* So is a step that adds a reference.
LEMMA SpreadRefines ==
    ASSUME IInv, NEW t \in Threads, Spread(t)
    PROVE  Pool!Next \/ PoolStays
  BY ClaimUnseen, ShareLends, ShareActiveLends DEF Spread

\* Every step is a step of the pool or a stutter.
LEMMA StepRefines ==
    ASSUME IInv, [Next]_vars
    PROVE  [Pool!Next]_(Pool!vars)
<1>1. CASE UNCHANGED vars
  <2>1. /\ held' = held /\ active' = active /\ liveCount' = liveCount
        /\ objectQueue' = objectQueue /\ fifo' = fifo /\ pc' = pc /\ target' = target
    BY <1>1 DEF vars, wrappers, queues, fifos, threads, clients
  <2>2. PinnersCalm
    BY <2>1 DEF PinnersCalm
  <2>3. PoolStays
    BY <2>1, <2>2, QueuesFrame, HasFrame DEF PoolStays
  <2> QED BY <2>3, PoolStutter
<1>2. CASE Next
  <2>1. Pool!Next \/ PoolStays
    BY <1>2, InternalRefines, RequestUnseen, LetGoRefines, SpreadRefines, ShutdownUnseen DEF Next
  <2> QED BY <2>1, PoolStutter
<1> QED BY <1>1, <1>2

(* At first every wrapper is free and nobody has one.                       *)
LEMMA InitRefines == Init => Pool!Init
<1> SUFFICES ASSUME Init PROVE Pool!Init
  OBVIOUS
<1>1. PICK s \in [0..(ObjectSlots - 1) -> Objects] :
          /\ {s[i] : i \in 0..(ObjectSlots - 1)} = Objects
          /\ objectQueue = [q \in Queues |->
                IF q = "empty" THEN [slot |-> s, head |-> 0, tail |-> 0]
                ELSE Ctor(ObjectSlots)]
  BY DEF Init
<1>2. /\ fifo = [t \in Threads |-> <<>>] /\ held = [t \in Threads |-> {}]
      /\ pc = [t \in Threads |-> "idle"] /\ active = [t \in Pinners |-> NULL]
  BY DEF Init
<1>3. objectQueue["empty"].slot = s /\ objectQueue["full"] = Ctor(ObjectSlots)
  BY <1>1 DEF Queues
<1>4. Queued("empty") = Objects
  BY <1>1, <1>3, Sizes DEF Queued, Members
<1>5. Queued("full") = {}
  BY <1>3, CtorOK, Sizes DEF Queued
<1>6. \A t \in Threads : Linked(t) = {}
  BY <1>2 DEF Linked
<1>7. Free = Objects /\ Posted = {}
  BY <1>4, <1>5, <1>6 DEF Free, Posted, Threads
<1>8. \A o \in Objects : HavingIt(o) = {}
  <2>1. \A o \in Objects : HoldersOf(o) = {}
    BY <1>2 DEF HoldersOf
  <2>2. \A p \in Pinners, o \in Objects : ~KeptBy(p, o)
    BY <1>2, ThreadsAssumption, Sizes DEF KeptBy, Threads
  <2> QED BY <2>1, <2>2 DEF HavingIt
<1>9. Has = [o \in Objects |-> {}]
  BY <1>8 DEF Has
<1> QED BY <1>7, <1>9 DEF Pool!Init, Free, Posted, Has, HavingIt

(* EbSystemResource keeps the promise of the pool, for any number of        *)
(* wrappers, producers, consumers, holders and pollers: a wrapper goes from *)
(* free to held to posted to held and becomes free exactly when its last    *)
(* holder lets go of it, whatever the interleaving of the muxing queues.    *)
THEOREM PoolImplemented == Spec => ImplementsPool
<1>1. Init => Pool!Init
  BY InitRefines
<1>2. IInv /\ [Next]_vars => [Pool!Next]_(Pool!vars)
  BY StepRefines
<1> QED BY <1>1, <1>2, Invariance, PTL DEF Spec, ImplementsPool, Pool!Spec

-----------------------------------------------------------------------------
(* The full queue with one consumer is a first-in first-out channel.  The   *)
(* channel is what is linked in the consumer's fifo, then what waits in the *)
(* object queue.                                                            *)

\* What waits to be received, and what the only consumer was given before it.
Waits == InOrder(ObjectSlots, objectQueue["full"])

Chan == fifo[TheConsumer] \o Waits

(* Associativity, for the ways the channel changes.                         *)
LEMMA ChanSeq ==
    ASSUME NEW S, NEW f \in Seq(S), NEW r \in Seq(S), NEW x \in S
    PROVE  /\ Append(f, x) \o r = f \o (<<x>> \o r)
           /\ f # <<>> => f \o r # <<>> /\ Tail(f \o r) = Tail(f) \o r
<1>1. Append(f, x) = f \o <<x>> /\ <<x>> \in Seq(S)
  BY AppendIsConcat
<1>2. Append(f, x) \o r = f \o (<<x>> \o r)
  BY <1>1, ConcatAssociative
<1>3. f \o r \in Seq(S)
  BY ConcatProperties
<1>4. ASSUME f # <<>>
      PROVE  f \o r # <<>> /\ Tail(f \o r) = Tail(f) \o r
  <2>1. f \o r # <<>>
    BY <1>4, ConcatEqualIffEmpty
  <2>2. Len(f) \in Nat \ {0} /\ Len(r) \in Nat
    BY <1>4, EmptySeq, LenProperties
  <2>3. /\ Tail(f) \in Seq(S) /\ Len(Tail(f)) = Len(f) - 1
        /\ \A i \in 1..Len(Tail(f)) : Tail(f)[i] = f[i + 1]
    BY <1>4, HeadTailProperties
  <2>4. /\ Len(f \o r) = Len(f) + Len(r)
        /\ \A i \in 1..(Len(f) + Len(r)) : (f \o r)[i] = IF i <= Len(f) THEN f[i] ELSE r[i - Len(f)]
    BY ConcatProperties
  <2>5. /\ Tail(f \o r) \in Seq(S) /\ Len(Tail(f \o r)) = Len(f \o r) - 1
        /\ \A i \in 1..Len(Tail(f \o r)) : Tail(f \o r)[i] = (f \o r)[i + 1]
    BY <1>3, <2>1, HeadTailProperties
  <2>6. /\ Tail(f) \o r \in Seq(S) /\ Len(Tail(f) \o r) = Len(Tail(f)) + Len(r)
        /\ \A i \in 1..(Len(Tail(f)) + Len(r)) :
              (Tail(f) \o r)[i] = IF i <= Len(Tail(f)) THEN Tail(f)[i] ELSE r[i - Len(Tail(f))]
    BY <2>3, ConcatProperties
  <2>7. Len(Tail(f \o r)) = Len(Tail(f) \o r)
    BY <2>2, <2>3, <2>4, <2>5, <2>6
  <2>8. ASSUME NEW i \in 1..Len(Tail(f \o r))
        PROVE  Tail(f \o r)[i] = (Tail(f) \o r)[i]
    <3>1. /\ Tail(f \o r)[i] = (f \o r)[i + 1]
          /\ i \in 1..(Len(Tail(f)) + Len(r)) /\ i + 1 \in 1..(Len(f) + Len(r))
      BY <2>2, <2>3, <2>4, <2>5
    <3>2. CASE i + 1 <= Len(f)
      <4>1. i \in 1..Len(Tail(f))
        BY <2>2, <2>3, <3>2
      <4> QED BY <2>3, <2>4, <2>6, <3>1, <3>2, <4>1
    <3>3. CASE ~(i + 1 <= Len(f))
      <4>1. ~(i <= Len(Tail(f))) /\ i - Len(Tail(f)) = (i + 1) - Len(f)
        BY <2>2, <2>3, <3>3
      <4> QED BY <2>4, <2>6, <3>1, <3>3, <4>1
    <3> QED BY <3>2, <3>3
  <2> QED BY <2>1, <2>5, <2>6, <2>7, <2>8, SeqEqual
<1> QED BY <1>2, <1>4

\* The only consumer is that of the mapping.
LEMMA OneConsumer ==
    ASSUME Cardinality(Consumers) = 1
    PROVE  /\ TheConsumer \in Consumers /\ TheConsumer \in Threads /\ TheConsumer \notin Producers
           /\ \A c \in Consumers : c = TheConsumer
<1>1. PICK c : Consumers = {c}
  BY ThreadsAssumption, FS_Singleton
<1>2. TheConsumer \in Consumers
  BY <1>1 DEF TheConsumer
<1> QED BY <1>1, <1>2, ThreadsAssumption DEF Threads

\* The channel is a sequence of wrappers.
LEMMA ChanTypes ==
    ASSUME IInv, Cardinality(Consumers) = 1
    PROVE  fifo[TheConsumer] \in Seq(Objects) /\ Waits \in Seq(Objects)
<1>1. fifo[TheConsumer] \in Seq(Objects)
  BY OneConsumer DEF IInv, TypeOK
<1>2. WellFormed(ObjectSlots, Objects, objectQueue["full"])
  BY DEF IInv, BufInv, Queues
<1> QED BY <1>1, <1>2, InOrderOK, Sizes DEF Waits

(* The assignation keeps the order.                                         *)
LEMMA PairOrder ==
    ASSUME IInv, NEW t \in Threads, Pair(t), Cardinality(Consumers) = 1
    PROVE  Chan' = Chan
<1>q. PICK q \in Queues : q = QueueOf(t)
  BY DEF QueueOf, Queues
<1>f. PICK f, o : f = Front(processQueue[q]) /\ o = Front(objectQueue[q])
  OBVIOUS
<1>a. /\ ~EmptyCheck(objectQueue[q]) /\ ~EmptyCheck(processQueue[q])
      /\ objectQueue' = [objectQueue EXCEPT ![q] = PopFront(ObjectSlots, @)]
      /\ fifo' = [fifo EXCEPT ![f] = Append(@, o)]
  BY <1>q, <1>f DEF Pair
<1>b. fifo \in [Threads -> Seq(Objects)] /\ DOMAIN objectQueue = Queues /\ "full" \in Queues
  BY DEF IInv, TypeOK, Queues
<1>c. f \in Processes(q) /\ f \in Threads
  BY <1>a, <1>f, PopFrontOK, Sizes DEF IInv, BufInv
<1>d. WellFormed(ObjectSlots, Objects, objectQueue[q])
  BY DEF IInv, BufInv
<1>1. CASE q = "full"
  <2>1. f = TheConsumer
    BY <1>1, <1>c, OneConsumer DEF Processes
  <2>2. fifo'[TheConsumer] = Append(fifo[TheConsumer], o)
    BY <1>a, <1>b, <1>c, <2>1
  <2>3. o \in Objects /\ Waits = <<o>> \o Waits'
    <3>1. objectQueue'["full"] = PopFront(ObjectSlots, objectQueue["full"])
      BY <1>1, <1>a, <1>b
    <3> QED BY <1>1, <1>a, <1>d, <1>f, <3>1, PopFrontOK, PopFrontOrder, Sizes DEF Waits
  <2>4. Waits' \in Seq(Objects) /\ fifo[TheConsumer] \in Seq(Objects)
    <3>1. WellFormed(ObjectSlots, Objects, objectQueue'["full"])
      BY <1>1, <1>a, <1>b, <1>d, PopFrontOK, Sizes
    <3>2. fifo[TheConsumer] \in Seq(Objects)
      BY ChanTypes
    <3> QED BY <3>1, <3>2, InOrderOK, Sizes DEF Waits
  <2>5. Append(fifo[TheConsumer], o) \o Waits' = fifo[TheConsumer] \o (<<o>> \o Waits')
    <3>1. PICK s, r : s = fifo[TheConsumer] /\ r = Waits'
      OBVIOUS
    <3>2. s \in Seq(Objects) /\ r \in Seq(Objects) /\ o \in Objects
      BY <2>3, <2>4, <3>1
    <3>3. Append(s, o) \o r = s \o (<<o>> \o r)
      BY <3>2, ChanSeq
    <3> QED BY <3>1, <3>3
  <2>6. Chan' = fifo'[TheConsumer] \o Waits'
    BY DEF Chan
  <2> QED BY <2>2, <2>3, <2>5, <2>6 DEF Chan
<1>2. CASE q # "full"
  <2>1. f # TheConsumer
    BY <1>2, <1>c, OneConsumer DEF Processes, Queues
  <2>2. fifo'[TheConsumer] = fifo[TheConsumer] /\ objectQueue'["full"] = objectQueue["full"]
    BY <1>2, <1>a, <1>b, <1>c, <2>1, OneConsumer
  <2> QED BY <2>2 DEF Chan, Waits
<1> QED BY <1>1, <1>2

\* Steps that leave the full queue's ring and the consumer's fifo alone are not seen.
LEMMA ChanFrame ==
    ASSUME IInv, Cardinality(Consumers) = 1,
           objectQueue'["full"] = objectQueue["full"],
           fifo'[TheConsumer] = fifo[TheConsumer]
    PROVE  Chan' = Chan
  BY DEF Chan, Waits

(* svt_get_full_object takes the first one.                                 *)
LEMMA PopFullOrder ==
    ASSUME IInv, NEW c \in Threads, PopFull(c), Cardinality(Consumers) = 1
    PROVE  Chan' = Chan \/ Channel!Receive
<1>a. objectQueue' = objectQueue /\ c \in Consumers /\ pc[c] = "pop" /\ c = TheConsumer
  BY OneConsumer DEF PopFull, queues
<1>1. CASE quit[c]
  <2>1. fifo' = fifo
    BY <1>1 DEF PopFull
  <2> QED BY <1>a, <2>1, ChanFrame
<1>2. CASE ~quit[c]
  <2>1. PICK s, r : s = fifo[TheConsumer] /\ r = Waits
    OBVIOUS
  <2>2. s \in Seq(Objects) /\ r \in Seq(Objects)
    BY <2>1, ChanTypes
  <2>3. s # <<>>
    <3>1. sem[c] \in Nat
      BY DEF IInv, TypeOK
    <3>2. Len(s) = sem[c] + 1 + (IF Signalled(c) THEN 1 ELSE 0)
      BY <1>2, <1>a, <2>1 DEF IInv, SemInv
    <3> QED BY <2>2, <3>1, <3>2
  <2>4. fifo'[TheConsumer] = Tail(s) /\ Waits' = r
    <3>1. fifo' = [fifo EXCEPT ![c] = Tail(@)] /\ fifo \in [Threads -> Seq(Objects)]
      BY <1>2 DEF PopFull, PopFifo, IInv, TypeOK
    <3> QED BY <1>a, <2>1, <3>1 DEF Waits
  <2>5. PICK x \in Objects : TRUE
    BY ThreadsAssumption
  <2>6. s \o r # <<>> /\ Tail(s \o r) = Tail(s) \o r
    BY <2>2, <2>3, <2>5, ChanSeq
  <2>7. Chan = s \o r /\ Chan' = Tail(s) \o r
    BY <2>1, <2>4 DEF Chan
  <2>8. Chan # <<>> /\ Chan' = Tail(Chan)
    BY <2>6, <2>7
  <2> QED BY <2>8 DEF Channel!Receive, Chan, Waits
<1> QED BY <1>1, <1>2

(* svt_post_full_object adds the last one.                                  *)
LEMMA PostOrder ==
    ASSUME IInv, NEW p \in Threads, NEW o \in Objects, Post(p, o), Cardinality(Consumers) = 1
    PROVE  Channel!Send(o)
<1>a. /\ objectQueue' = [objectQueue EXCEPT !["full"] = PushBack(ObjectSlots, @, o)]
      /\ fifo' = fifo /\ o \in held[p] /\ "full" \in Queues
  BY DEF Post, fifos, Queues
<1>b. DOMAIN objectQueue = Queues /\ WellFormed(ObjectSlots, Objects, objectQueue["full"])
  BY <1>a DEF IInv, TypeOK, BufInv
<1>c. o \notin Members(objectQueue["full"])
  BY <1>a, OnlyUser DEF IInv, PlaceInv, Queued
<1>1. \E i \in 0..(ObjectSlots - 1) : objectQueue["full"].slot[i] = NULL
  BY <1>b, <1>c, Room, Sizes
<1>2. Waits' = Append(Waits, o)
  <2>1. objectQueue'["full"] = PushBack(ObjectSlots, objectQueue["full"], o)
    BY <1>a, <1>b
  <2> QED BY <1>b, <1>c, <1>1, <2>1, PushBackOrder, Sizes DEF Waits
<1>3. PICK s, r : s = fifo[TheConsumer] /\ r = Waits
  OBVIOUS
<1>4. s \in Seq(Objects) /\ r \in Seq(Objects)
  BY <1>3, ChanTypes
<1>5. Append(s \o r, o) = s \o Append(r, o)
  <2>1. s \o r \in Seq(Objects) /\ Append(s \o r, o) = (s \o r) \o <<o>>
    BY <1>4, ConcatProperties, AppendIsConcat
  <2>2. <<o>> \in Seq(Objects) /\ Append(r, o) = r \o <<o>>
    BY <1>4, AppendIsConcat
  <2>3. (s \o r) \o <<o>> = s \o (r \o <<o>>)
    BY <1>4, <2>2, ConcatAssociative
  <2> QED BY <2>1, <2>2, <2>3
<1>6. Chan = s \o r /\ Chan' = s \o Append(r, o)
  BY <1>a, <1>2, <1>3 DEF Chan
<1>7. Chan' = Append(Chan, o)
  BY <1>5, <1>6
<1> QED BY <1>7 DEF Channel!Send, Chan, Waits

(* Everything else leaves the channel as it is.                             *)
LEMMA ReleaseOrder ==
    ASSUME IInv, NEW t, NEW o \in Objects, ReleaseBody(t, o), Cardinality(Consumers) = 1
    PROVE  Chan' = Chan
<1>1. fifo' = fifo /\ DOMAIN objectQueue = Queues
  BY DEF ReleaseBody, fifos, IInv, TypeOK
<1>2. \/ objectQueue' = objectQueue
      \/ objectQueue' = [objectQueue EXCEPT !["empty"] = PushFront(ObjectSlots, @, o)]
  BY DEF ReleaseBody
<1>3. objectQueue'["full"] = objectQueue["full"]
  BY <1>1, <1>2 DEF Queues
<1> QED BY <1>1, <1>3, ChanFrame

\* A step inside the queues receives the head of the channel or is not seen.
LEMMA InternalOrder ==
    ASSUME IInv, NEW t \in Threads, Internal(t), Cardinality(Consumers) = 1
    PROVE  Chan' = Chan \/ Channel!Next
<1>1. CASE Signal(t) \/ Unlock(t) \/ Wait(t) \/ Peek(t) \/ CheckPrevious(t)
  <2>1. objectQueue' = objectQueue /\ fifo' = fifo
    BY <1>1 DEF Signal, Unlock, Wait, Peek, CheckPrevious, queues, fifos
  <2> QED BY <2>1, ChanFrame
<1>2. CASE PopEmpty(t)
  <2>1. /\ objectQueue' = objectQueue /\ fifo' = [fifo EXCEPT ![t] = Tail(@)]
        /\ t \in Producers /\ fifo \in [Threads -> Seq(Objects)]
    BY <1>2 DEF PopEmpty, PopFifo, queues, IInv, TypeOK
  <2>2. fifo'[TheConsumer] = fifo[TheConsumer]
    BY <2>1, OneConsumer
  <2> QED BY <2>1, <2>2, ChanFrame
<1>3. CASE PopFull(t)
  BY <1>3, PopFullOrder DEF Channel!Next
<1> QED BY <1>1, <1>2, <1>3, PairOrder DEF Internal

\* Giving a wrapper back is not seen.
LEMMA LetGoOrder ==
    ASSUME IInv, NEW t \in Threads, LetGo(t), Cardinality(Consumers) = 1
    PROVE  Chan' = Chan \/ Channel!Next
<1>1. ASSUME NEW o \in Objects, Post(t, o)
      PROVE  Channel!Next
  BY <1>1, PostOrder DEF Channel!Next
<1>2. ASSUME NEW o \in Objects, Release(t, o)
      PROVE  Chan' = Chan
  BY <1>2, ReleaseOrder DEF Release
<1>3. ASSUME t \in Pinners /\ DropPrevious(t)
      PROVE  Chan' = Chan
  <2>1. target[t] \in Objects
    BY <1>3 DEF DropPrevious, IInv, RoleInv
  <2> QED BY <1>3, <2>1, ReleaseOrder DEF DropPrevious
<1>4. ASSUME NEW o \in Objects, Pin(t, o) \/ Unpin(t)
      PROVE  Chan' = Chan
  <2>1. objectQueue' = objectQueue /\ fifo' = fifo
    BY <1>4 DEF Pin, Unpin, queues, fifos
  <2> QED BY <2>1, ChanFrame
<1> QED BY <1>1, <1>2, <1>3, <1>4, ThreadsAssumption DEF LetGo

\* Every step is a step of the channel or a stutter.
LEMMA StepOrder ==
    ASSUME IInv, [Next]_vars, Cardinality(Consumers) = 1
    PROVE  [Channel!Next]_Chan
<1>1. ASSUME NEW t \in Threads, Request(t) \/ Spread(t)
      PROVE  Chan' = Chan
  <2>1. objectQueue' = objectQueue /\ fifo' = fifo
    BY <1>1 DEF Request, RequestEmpty, RequestFull, Poll, RequestProcess,
                Spread, Claim, Share, ShareActive, queues, fifos
  <2> QED BY <2>1, ChanFrame
<1>2. ASSUME Shutdown \/ UNCHANGED vars
      PROVE  Chan' = Chan
  <2>1. objectQueue' = objectQueue /\ fifo' = fifo
    BY <1>2 DEF Shutdown, SetQuit, PostQuit, vars, queues, fifos
  <2> QED BY <2>1, ChanFrame
<1> QED BY <1>1, <1>2, InternalOrder, LetGoOrder DEF Next

\* The channel is empty at first.
LEMMA InitOrder ==
    ASSUME Init, Cardinality(Consumers) = 1
    PROVE  Channel!Init
<1>1. fifo = [t \in Threads |-> <<>>] /\ objectQueue["full"] = Ctor(ObjectSlots)
  BY DEF Init, Queues
<1>2. Waits = <<>>
  <2>1. EmptyCheck(Ctor(ObjectSlots))
    BY CtorOK, EmptyCheckOK, Sizes
  <2>2. Count(ObjectSlots, Ctor(ObjectSlots)) = 0
    BY <2>1 DEF Count
  <2>3. /\ InOrder(ObjectSlots, Ctor(ObjectSlots)) \in Seq(Objects)
        /\ Len(InOrder(ObjectSlots, Ctor(ObjectSlots))) = 0
    BY <2>2, CtorOK, InOrderOK, Sizes
  <2>4. InOrder(ObjectSlots, Ctor(ObjectSlots)) = <<>>
    BY <2>3, EmptySeq
  <2> QED BY <1>1, <2>4 DEF Waits
<1>3. fifo[TheConsumer] = <<>>
  BY <1>1, OneConsumer
<1>4. fifo[TheConsumer] \o Waits = <<>>
  BY <1>2, <1>3, EmptySeq, ConcatEmptySeq
<1> QED BY <1>4 DEF Channel!Init, Waits

(* With one consumer the wrappers arrive in the order they were posted, for *)
(* any number of wrappers and producers, however polling leaves the fifo    *)
(* registered and however long the assignation is delayed.                  *)
THEOREM ChannelImplemented == Cardinality(Consumers) = 1 => (Spec => ImplementsChannel)
<1> SUFFICES ASSUME Cardinality(Consumers) = 1
             PROVE  Spec => ImplementsChannel
  OBVIOUS
<1>1. Init => Channel!Init
  BY InitOrder
<1>2. IInv /\ [Next]_vars => [Channel!Next]_Chan
  BY StepOrder
<1> QED BY <1>1, <1>2, Invariance, PTL DEF Spec, ImplementsChannel, Channel!Spec, Chan, Waits
=============================================================================
