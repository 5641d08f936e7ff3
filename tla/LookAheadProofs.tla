-------------------------- MODULE LookAheadProofs --------------------------
(***************************************************************************)
(* The ring of the initial rate control never overflows: RingHasRoom, for  *)
(* every configuration and sequence, and motion estimation in any order.   *)
(*                                                                         *)
(* The ring has a slot per parent picture set and is never checked for     *)
(* room.  A picture holds a set from the moment it is taken until it is    *)
(* coded, so PpcsCount bounds what is between the two.  The pictures of    *)
(* the picture decision are those taken, less the one that waits to be     *)
(* recognised as the last; it sends them in decode order without a gap,    *)
(* which is its own invariant, and a picture is coded only after it left   *)
(* the ring in that order.  Of those inside, no two are as far apart as    *)
(* the ring is long, so each stays alone in the slot of its number.        *)
(*   PassedInv   what has left and what is coded, in decode order;         *)
(*   InsideInv   what is inside, each in its slot, no more than fit.       *)
(* The step of the picture decision changes none of this but what is sent. *)
(***************************************************************************)
EXTENDS LookAhead, PictureDecisionProofs

-----------------------------------------------------------------------------
(* Remainders.                                                              *)

\* A multiple of n is not closer to 0 than n.
LEMMA NoMultiple ==
    ASSUME NEW n \in Nat \ {0}, NEW k \in Int, -n < n * k, n * k < n
    PROVE  k = 0
<1>1. CASE k >= 1
  <2>1. n * k >= n
    BY <1>1
  <2> QED BY <2>1
<1>2. CASE k <= -1
  <2>1. n * k <= -n
    BY <1>2
  <2> QED BY <2>1
<1> QED BY <1>1, <1>2

\* Division with remainder.
LEMMA Remainder ==
    ASSUME NEW n \in Nat \ {0}, NEW a \in Nat
    PROVE  a % n \in 0..(n - 1) /\ a \div n \in Int /\ a = n * (a \div n) + (a % n)
  OBVIOUS

\* Numbers less than a round apart have different remainders.
LEMMA OneRound ==
    ASSUME NEW n \in Nat \ {0}, NEW a \in Nat, NEW b \in Nat, a % n = b % n, a < b + n, b < a + n
    PROVE  a = b
<1>1. /\ a = n * (a \div n) + (a % n) /\ a \div n \in Int
      /\ b = n * (b \div n) + (b % n) /\ b \div n \in Int
  BY Remainder
<1>2. n * ((a \div n) - (b \div n)) = a - b
  BY <1>1
<1>3. (a \div n) - (b \div n) = 0
  BY <1>1, <1>2, NoMultiple
<1> QED BY <1>2, <1>3

\* A sum may be reduced in between.
LEMMA RemainderOfSum ==
    ASSUME NEW n \in Nat \ {0}, NEW a \in Nat, NEW b \in Nat
    PROVE  ((a % n) + b) % n = (a + b) % n
<1> DEFINE c == (a % n) + b
           d == ((a % n) + b) \div n
<1>1. a % n \in 0..(n - 1) /\ a \div n \in Int /\ a = n * (a \div n) + (a % n)
  BY Remainder
<1>2. c \in Nat /\ a + b \in Nat
  BY <1>1
<1>3. c % n \in 0..(n - 1) /\ c \div n \in Int /\ c = n * (c \div n) + (c % n)
  BY <1>2, Remainder
<1>4. (a + b) % n \in 0..(n - 1) /\ (a + b) \div n \in Int /\ a + b = n * ((a + b) \div n) + ((a + b) % n)
  BY <1>2, Remainder
<1>5. n * ((a \div n) + (c \div n) - ((a + b) \div n)) = ((a + b) % n) - (c % n)
  BY <1>1, <1>3, <1>4
<1>6. (a \div n) + (c \div n) - ((a + b) \div n) \in Int
  BY <1>1, <1>3, <1>4
<1>7. (a \div n) + (c \div n) - ((a + b) \div n) = 0
  BY <1>3, <1>4, <1>5, <1>6, NoMultiple
<1> QED BY <1>3, <1>4, <1>5, <1>7

-----------------------------------------------------------------------------
(* The inductive invariant.                                                 *)

\* How far pictures have come: what is passed on has a parent control set, and
\* what left initial rate control left it in decode order.
PassedInv ==
    /\ ahead \in Depths /\ taken \in 0..(cfg.pictures + 1) /\ poc + 1 <= Posted
    /\ coded \subseteq 1..Len(left) /\ taken - Cardinality(coded) <= PpcsCount
    /\ injected \in Len(left)..Len(sent) /\ analysed \in 0..Len(left)
    /\ IsSeq(left) /\ \A k \in 1..Len(left) : left[k].pic = k

\* What the picture decision passed on and what has not left is with motion
\* estimation or in the ring, in the slot of its decode order.
Inside == (Len(left) + 1)..injected

\* Each is where it should be, and alone in its slot.
InsideInv ==
    /\ estimating \subseteq Inside /\ head = Len(left) % PpcsCount
    /\ ring \in [Slots -> Nat \cup {None}]
    /\ \A s \in Slots : ring[s] # None => /\ ring[s] \in Inside /\ ring[s] \notin estimating
                                          /\ (ring[s] - 1) % PpcsCount = s

\* The inductive invariant.
PipelineInv == Inv /\ PassedInv /\ InsideInv

-----------------------------------------------------------------------------
\* The settings.
LEMMA DepthOK ==
    ASSUME Inv, ahead \in Depths
    PROVE  /\ ahead.mgs \in Nat /\ ahead.delay \in Nat
           /\ PpcsCount \in Nat /\ PpcsCount >= 2 /\ Slots = 0..(PpcsCount - 1)
           /\ cfg.pictures \in Nat \ {0} /\ ~cfg.overlays /\ cfg \in Configs
<1>1. ahead.mgs \in Nat /\ ahead.delay \in Nat
  BY DepthsAssumption
<1>2. WindowInv
  BY DEF Inv
<1>3. cfg.hl \in 0..5 /\ cfg.pictures \in Nat \ {0}
  BY <1>2, ConfigOK
<1>4. cfg \in Configs /\ ~cfg.overlays
  BY <1>2, SettingsAssumption DEF WindowInv
<1>5. MgSize \in Nat /\ MgSize >= 1
  <2>1. MgSize = EntryCount(cfg.hl)
    BY <1>3, EntryCountOK DEF MgSize
  <2> QED BY <1>3, <2>1, EntryCountOK
<1>6. (1 + MgSize) * (ahead.mgs + 1) \in Nat /\ (1 + MgSize) * (ahead.mgs + 1) >= 1
  BY <1>1, <1>5
<1>7. PpcsCount \in Nat /\ PpcsCount >= 2
  BY <1>1, <1>6 DEF PpcsCount
<1> QED BY <1>1, <1>3, <1>4, <1>7 DEF Slots

\* The n-th picture sent is the n-th in decode order.
LEMMA SlotIs ==
    ASSUME Inv, NEW i \in 1..Len(sent)
    PROVE  SlotOf(i) = (i - 1) % PpcsCount
BY DEF Inv, SendInv, SlotOf

\* No picture is sent that was not placed.
LEMMA SentArePlaced ==
    ASSUME Inv, ~cfg.overlays
    PROVE  Len(sent) \in Nat /\ Len(sent) <= poc + 1 /\ poc \in Int
<1>1. WindowInv /\ PiecesInv /\ NumbersInv /\ SendInv
  BY DEF Inv
<1>2. Built \in Nat /\ Built <= poc + 1 /\ poc \in Int
  BY <1>1, BuiltIs
<1>3. altNumber = Built /\ Len(group) \in Nat
  BY <1>1 DEF NumbersInv
<1>4. Len(sent) + Len(delayed) = altNumber - Len(group) /\ Len(sent) \in Nat /\ Len(delayed) \in Nat
  BY <1>1 DEF SendInv, First, IsSeq
<1> QED BY <1>2, <1>3, <1>4

\* The pictures inside have a slot each, and one slot is left.
LEMMA InsideFits ==
    ASSUME PipelineInv
    PROVE  /\ injected \in Nat /\ injected <= Len(left) + PpcsCount - 1 /\ Len(left) \in Nat
           /\ injected <= Len(sent) /\ Len(sent) \in Nat
           /\ \A i \in Inside : i \in Nat \ {0} /\ i - 1 \in Nat /\ SlotOf(i) = (i - 1) % PpcsCount /\ SlotOf(i) \in Slots
           /\ \A i, j \in Inside : (i - 1) % PpcsCount = (j - 1) % PpcsCount => i = j
<1>1. Inv /\ PassedInv
  BY DEF PipelineInv
<1>2. ahead \in Depths
  BY <1>1 DEF PassedInv
<1>3. PpcsCount \in Nat \ {0} /\ Slots = 0..(PpcsCount - 1) /\ ~cfg.overlays /\ cfg.pictures \in Nat
  BY <1>1, <1>2, DepthOK
<1>4. Len(sent) \in Nat /\ Len(sent) <= poc + 1 /\ poc \in Int
  BY <1>1, <1>3, SentArePlaced
<1>5. Len(left) \in Nat
  BY <1>1 DEF PassedInv, IsSeq
<1>6. Cardinality(coded) \in Nat /\ Cardinality(coded) <= Len(left)
  <2>1. coded \subseteq 1..Len(left)
    BY <1>1 DEF PassedInv
  <2> DEFINE n == Len(left)
  <2> HIDE DEF n
  <2>2. IsFiniteSet(1..n) /\ Cardinality(1..n) = n
    <3>1. n \in Nat /\ 1 \in Int /\ n \in Int
      BY <1>5 DEF n
    <3>2. IsFiniteSet(1..n) /\ Cardinality(1..n) = IF 1 > n THEN 0 ELSE n - 1 + 1
      BY <3>1, FS_Interval
    <3> QED BY <3>1, <3>2
  <2>3. coded \subseteq 1..n /\ n = Len(left)
    BY <2>1 DEF n
  <2> QED BY <2>2, <2>3, FS_Subset, FS_CardinalityType
<1>7. injected \in Nat /\ injected <= Len(sent) /\ injected <= Len(left) + PpcsCount - 1
  <2>1. injected \in Len(left)..Len(sent) /\ taken \in 0..(cfg.pictures + 1) /\ taken - Cardinality(coded) <= PpcsCount
        /\ poc + 1 <= Posted
    BY <1>1 DEF PassedInv
  <2>2. taken \in Nat
    BY <1>3, <2>1
  <2>3. Posted <= taken - 1 \/ Posted = 0
    BY <2>2 DEF Posted
  <2> QED BY <1>3, <1>4, <1>5, <1>6, <2>1, <2>2, <2>3 DEF Posted
<1>8. ASSUME NEW i \in Inside
      PROVE  i \in Nat \ {0} /\ i - 1 \in Nat /\ SlotOf(i) = (i - 1) % PpcsCount /\ SlotOf(i) \in Slots
  <2>1. i \in Nat \ {0} /\ i - 1 \in Nat /\ i \in 1..Len(sent)
    BY <1>4, <1>5, <1>7 DEF Inside
  <2>2. SlotOf(i) = (i - 1) % PpcsCount
    BY <1>1, <2>1, SlotIs
  <2> QED BY <1>3, <2>1, <2>2, Remainder
<1>9. ASSUME NEW i \in Inside, NEW j \in Inside, (i - 1) % PpcsCount = (j - 1) % PpcsCount
      PROVE  i = j
  <2>1. i - 1 \in Nat /\ j - 1 \in Nat /\ i \in Nat /\ j \in Nat
    BY <1>8
  <2>2. i - 1 < (j - 1) + PpcsCount /\ j - 1 < (i - 1) + PpcsCount
    BY <1>3, <1>5, <1>7 DEF Inside
  <2>3. i - 1 = j - 1
    BY <1>3, <1>9, <2>1, <2>2, OneRound
  <2> QED BY <2>1, <2>3
<1> QED BY <1>4, <1>5, <1>7, <1>8, <1>9

\* The slot of a picture with motion estimation is empty, and another one is.
LEMMA RoomInRing == PipelineInv => RingHasRoom
<1> SUFFICES ASSUME PipelineInv, NEW i \in estimating
             PROVE  /\ ring[SlotOf(i)] = None
                    /\ \E s \in Slots \ {SlotOf(i)} : ring[s] = None
  BY DEF RingHasRoom
<1>1. Inv /\ PassedInv /\ InsideInv /\ ahead \in Depths
  BY DEF PipelineInv, PassedInv
<1>2. PpcsCount \in Nat \ {0} /\ PpcsCount >= 2 /\ Slots = 0..(PpcsCount - 1)
  BY <1>1, DepthOK
<1>3. i \in Inside
  BY <1>1 DEF InsideInv
<1>4. i \in Nat \ {0} /\ SlotOf(i) = (i - 1) % PpcsCount /\ SlotOf(i) \in Slots
  BY <1>3, InsideFits
<1>5. ring[SlotOf(i)] = None
  <2> SUFFICES ASSUME ring[SlotOf(i)] # None
               PROVE  FALSE
    OBVIOUS
  <2>1. ring[SlotOf(i)] \in Inside /\ ring[SlotOf(i)] \notin estimating /\ (ring[SlotOf(i)] - 1) % PpcsCount = SlotOf(i)
    BY <1>1, <1>4 DEF InsideInv
  <2>2. ring[SlotOf(i)] = i
    BY <1>3, <1>4, <2>1, InsideFits
  <2> QED BY <2>1, <2>2
<1> DEFINE z == Len(left) + PpcsCount - 1
           s == z % PpcsCount
<1>6. /\ injected \in Nat /\ injected <= z /\ Len(left) \in Nat /\ z \in Nat
  BY <1>2, InsideFits
<1>7. s \in Slots
  BY <1>2, <1>6, Remainder
<1>8. ASSUME NEW j \in Inside
      PROVE  (j - 1) % PpcsCount # s
  <2>1. j - 1 \in Nat
    BY <1>8, InsideFits
  <2>2. j - 1 < z + PpcsCount /\ z < (j - 1) + PpcsCount /\ j - 1 # z
    BY <1>2, <1>6 DEF Inside
  <2> HIDE DEF z
  <2> QED BY <1>2, <1>6, <2>1, <2>2, OneRound
<1>9. s # SlotOf(i)
  BY <1>3, <1>4, <1>8
<1>10. ring[s] = None
  <2> HIDE DEF s
  <2> QED BY <1>1, <1>7, <1>8 DEF InsideInv
<1> HIDE DEF s
<1> QED BY <1>5, <1>7, <1>9, <1>10

-----------------------------------------------------------------------------
(* What leaves the ring.                                                    *)

\* A ring that has pictures of "inside" only, each in its slot.
RingOf(r, inside) ==
    /\ r \in [Slots -> Nat \cup {None}]
    /\ \A s \in Slots : r[s] # None => r[s] \in inside /\ (r[s] - 1) % PpcsCount = s

\* From the head on, the pictures follow one another.
LEMMA RunOK ==
    ASSUME PpcsCount \in Nat \ {0}, Slots = 0..(PpcsCount - 1), NEW h \in Nat, NEW inside \in SUBSET Nat, NEW r,
           \A i \in inside : i > h /\ i <= h + PpcsCount, RingOf(r, inside)
    PROVE  \E n \in 0..PpcsCount :
              /\ Run(r, h % PpcsCount) = [k \in 1..n |-> h + k]
              /\ \A k \in 1..n : h + k \in inside /\ r[(h + k - 1) % PpcsCount] = h + k
<1> DEFINE P == PpcsCount
           d == h % P
           At(k) == r[(d + k) % P]
           empty == {k \in Slots : At(k) = None}
           length == IF empty = {} THEN P ELSE Min(empty)
<1>1. P \in Nat \ {0} /\ d \in 0..(P - 1)
  BY Remainder
<1>2. ASSUME NEW k \in 0..(P - 1)
      PROVE  /\ At(k) = r[(h + k) % P] /\ (h + k) % P \in Slots
             /\ At(k) # None => At(k) = h + (k + 1) /\ h + (k + 1) \in inside
  <2>1. k \in Nat /\ h + k \in Nat
    BY <1>1
  <2>2. (d + k) % P = (h + k) % P /\ (h + k) % P \in 0..(P - 1)
    BY <1>1, <2>1, RemainderOfSum, Remainder, Zenon
  <2>3. ASSUME At(k) # None
        PROVE  At(k) = h + (k + 1)
    <3> DEFINE j == r[(h + k) % P]
    <3>1. j # None /\ j \in inside /\ (j - 1) % P = (h + k) % P
      BY <2>2, <2>3 DEF RingOf
    <3>2. j \in Nat /\ j > h /\ j <= h + P
      BY <3>1
    <3>3. j - 1 \in Nat /\ j - 1 < (h + k) + P /\ h + k < (j - 1) + P
      <4> HIDE DEF j
      <4> QED BY <1>1, <1>2, <3>2
    <3>4. j - 1 = h + k
      <4> HIDE DEF j
      <4> QED BY <1>1, <2>1, <3>1, <3>3, OneRound
    <3>5. j = h + (k + 1)
      <4> HIDE DEF j
      <4> QED BY <2>1, <3>2, <3>4
    <3> QED BY <2>2, <3>5
  <2>4. At(k) # None => At(k) \in inside
    BY <2>2 DEF RingOf
  <2> QED BY <2>2, <2>3, <2>4
<1>3. empty \subseteq 0..(P - 1)
  OBVIOUS
<1>4. Run(r, d) = [k \in 1..length |-> At(k - 1)]
  BY DEF Run
<1> HIDE DEF d, empty, At
<1>5. length \in 0..P /\ \A k \in 0..(length - 1) : k \notin empty
  <2>1. CASE empty = {}
    BY <1>1, <2>1
  <2>2. CASE empty # {}
    <3>1. empty \in SUBSET Nat
      BY <1>3
    <3>2. \E x \in empty : \A y \in empty : x <= y
      BY <2>2, <3>1, HasSmallest
    <3>3. Min(empty) \in empty /\ \A y \in empty : Min(empty) <= y
      BY <3>2 DEF Min
    <3> DEFINE m == Min(empty)
    <3>4. m \in 0..(P - 1) /\ length = m /\ \A y \in empty : m <= y
      BY <1>3, <2>2, <3>3
    <3> HIDE DEF m, length
    <3>5. length \in 0..P
      BY <1>1, <3>4
    <3>6. \A k \in 0..(length - 1) : ~(m <= k)
      BY <1>1, <3>4
    <3> QED BY <3>4, <3>5, <3>6
  <2> QED BY <2>1, <2>2
<1> HIDE DEF length
<1>6. ASSUME NEW k \in 1..length
      PROVE  At(k - 1) = h + k /\ h + k \in inside /\ r[(h + k - 1) % P] = h + k
  <2>1. k - 1 \in 0..(length - 1) /\ k - 1 \in 0..(P - 1) /\ (k - 1) + 1 = k /\ h + (k - 1) = h + k - 1
    BY <1>1, <1>5
  <2>2. At(k - 1) # None
    <3>1. k - 1 \notin empty /\ k - 1 \in Slots
      BY <1>5, <2>1
    <3> QED BY <3>1 DEF empty
  <2> QED BY <1>2, <2>1, <2>2
<1>7. Run(r, d) = [k \in 1..length |-> h + k]
  BY <1>4, <1>6
<1> QED BY <1>5, <1>6, <1>7 DEF d

\* What goes on at once is nothing, or the picture at the head.
LEMMA LeavingOK ==
    ASSUME NEW run
    PROVE  Leaving(run) = <<>> \/ \E w : Leaving(run) = <<[pic |-> run[1], window |-> w]>>
<1> DEFINE p == sent[run[1]]
           end == EndOfWindow(p, run)
           ext == ExtGroup(run, end)
           goes == ~ahead.tpl \/ ~p.base
           whole == ahead.tpl /\ p.base /\ end # None
<1>1. Leaving(run) = CASE goes -> <<[pic |-> run[1], window |-> <<>>]>>
                       [] whole -> <<[pic |-> run[1], window |-> ext]>>
                       [] OTHER -> <<>>
  BY Zenon DEF Leaving
<1>2. ~(goes /\ whole)
  OBVIOUS
<1> HIDE DEF p, end, ext, goes, whole
<1> QED BY <1>1, <1>2

\* What goes on when the head is looked at again and again, from the k-th picture
\* of the run on.
ProcessFrom(run, n, f, m) ==
    f = [k \in m..n |-> IF k = n THEN <<>>
                        ELSE IF Leaving(SubSeq(run, k + 1, n)) = <<>> THEN <<>>
                        ELSE Leaving(SubSeq(run, k + 1, n)) \o f[k + 1]]

\* Each of these follows from the next.
LEMMA ProcessSolvable ==
    ASSUME NEW run, NEW n \in Nat
    PROVE  \A d \in 0..n : \E f : ProcessFrom(run, n, f, n - d)
<1> DEFINE Step(k, s) == IF Leaving(SubSeq(run, k + 1, n)) = <<>> THEN <<>> ELSE Leaving(SubSeq(run, k + 1, n)) \o s
           Bad == {d \in 0..n : ~\E f : ProcessFrom(run, n, f, n - d)}
<1>1. \A f, m : ProcessFrom(run, n, f, m) <=> f = [k \in m..n |-> IF k = n THEN <<>> ELSE Step(k, f[k + 1])]
  BY Zenon DEF ProcessFrom
<1> HIDE DEF Step
<1> SUFFICES ASSUME Bad # {}
             PROVE  FALSE
  OBVIOUS
<1>2. PICK d \in Bad : \A e \in Bad : d <= e
  <2>1. Bad \in SUBSET Nat
    OBVIOUS
  <2> HIDE DEF Bad
  <2> QED BY <2>1, HasSmallest
<1> DEFINE m == n - d
<1>3. d \in 0..n /\ ~\E f : ProcessFrom(run, n, f, m)
  OBVIOUS
<1>4. d # 0
  <2> DEFINE f == [k \in n..n |-> <<>>]
  <2>1. f = [k \in n..n |-> IF k = n THEN <<>> ELSE Step(k, f[k + 1])]
    OBVIOUS
  <2>2. ProcessFrom(run, n, f, n)
    BY <1>1, <2>1
  <2>3. d = 0 => m = n
    OBVIOUS
  <2> HIDE DEF f, m
  <2> QED BY <1>3, <2>2, <2>3
<1>5. d - 1 \in 0..n /\ d - 1 \notin Bad /\ n - (d - 1) = m + 1
  <2>1. d - 1 \in 0..n /\ ~(d <= d - 1) /\ n - (d - 1) = m + 1
    BY <1>3, <1>4
  <2> HIDE DEF Bad
  <2> QED BY <1>2, <2>1
<1>6. PICK f : f = [k \in (m + 1)..n |-> IF k = n THEN <<>> ELSE Step(k, f[k + 1])]
  BY <1>1, <1>5
<1> DEFINE g == [k \in m..n |-> IF k = n THEN <<>> ELSE Step(k, f[k + 1])]
<1>7. m \in 0..n
  BY <1>3
<1> HIDE DEF m
<1>8. g = [k \in m..n |-> IF k = n THEN <<>> ELSE Step(k, g[k + 1])]
  <2>1. ASSUME NEW k \in (m + 1)..n
        PROVE  f[k] = g[k]
    <3>1. k \in m..n
      BY <1>7
    <3> QED BY <1>6, <3>1
  <2>2. ASSUME NEW k \in m..n, k # n
        PROVE  Step(k, f[k + 1]) = Step(k, g[k + 1])
    <3>1. k + 1 \in (m + 1)..n
      BY <1>7, <2>2
    <3>2. f[k + 1] = g[k + 1]
      BY <2>1, <3>1
    <3> HIDE DEF g
    <3> QED BY <3>2
  <2> QED BY <2>2
<1> HIDE DEF g
<1> QED BY <1>1, <1>3, <1>8

\* Pictures that leave, and in front of them is the k-th of the run.
LeavesFrom(out, run, k, n) ==
    /\ IsSeq(out) /\ Len(out) <= n - k
    /\ \A j \in 1..Len(out) : out[j].pic = run[k + j]

\* A sequence of whatever it holds, with one more in front.
LEMMA FrontOK ==
    ASSUME NEW x, NEW s, IsSeq(s)
    PROVE  /\ IsSeq(<<x>> \o s) /\ Len(<<x>> \o s) = Len(s) + 1 /\ (<<x>> \o s)[1] = x
           /\ \A k \in 2..(Len(s) + 1) : (<<x>> \o s)[k] = s[k - 1]
<1> DEFINE S == {x} \cup {s[i] : i \in 1..Len(s)}
           t == <<x>> \o s
<1>1. s \in Seq(S) /\ x \in S
  <2>1. s \in Seq({s[i] : i \in 1..Len(s)})
    BY DEF IsSeq
  <2> QED BY <2>1
<1> HIDE DEF S
<1>2. t \in Seq(S) /\ Len(t) = Len(s) + 1 /\ t[1] = x /\ \A k \in 2..(Len(s) + 1) : t[k] = s[k - 1]
  BY <1>1, Prepended
<1> HIDE DEF t
<1>3. IsSeq(t)
  <2>1. Len(t) \in Nat /\ t = [k \in 1..Len(t) |-> t[k]]
    BY <1>2
  <2> QED BY <2>1, FunctionIsSeq
<1> QED BY <1>2, <1>3 DEF t

\* The pictures that go on are the first of the run, in order.
LEMMA ProcessedOK ==
    ASSUME NEW S, NEW run \in Seq(S)
    PROVE  LeavesFrom(Processed(run), run, 0, Len(run))
<1> DEFINE n == Len(run)
           A == CHOOSE f : f = [k \in 0..n |-> IF k = n THEN <<>>
                                ELSE IF Leaving(SubSeq(run, k + 1, n)) = <<>> THEN <<>>
                                ELSE Leaving(SubSeq(run, k + 1, n)) \o f[k + 1]]
<1>1. n \in Nat
  OBVIOUS
<1>2. Processed(run) = A[0]
  BY Zenon DEF Processed
<1>3. ProcessFrom(run, n, A, 0)
  <2>1. n \in 0..n /\ n - n = 0
    BY <1>1
  <2> HIDE DEF n
  <2>2. \E f : ProcessFrom(run, n, f, 0)
    BY <1>1, <2>1, ProcessSolvable
  <2> QED BY <2>2, Zenon DEF ProcessFrom
<1> DEFINE Now(k) == Leaving(SubSeq(run, k + 1, n))
<1>4. ASSUME NEW k \in 0..n
      PROVE  A[k] = IF k = n THEN <<>> ELSE IF Now(k) = <<>> THEN <<>> ELSE Now(k) \o A[k + 1]
  <2> HIDE DEF A, n
  <2>1. A = [j \in 0..n |-> IF j = n THEN <<>> ELSE IF Now(j) = <<>> THEN <<>> ELSE Now(j) \o A[j + 1]]
    BY <1>3, Zenon DEF ProcessFrom
  <2> HIDE DEF Now
  <2> QED BY <2>1
<1>5. ASSUME NEW k \in 0..n, k # n
      PROVE  SubSeq(run, k + 1, n)[1] = run[k + 1]
  BY <1>1, <1>5
<1> HIDE DEF A
<1> DEFINE Bad == {d \in 0..n : ~LeavesFrom(A[n - d], run, n - d, n)}
<1>6. LeavesFrom(<<>>, run, n, n)
  BY <1>1 DEF LeavesFrom, IsSeq
<1>7. Bad = {}
  <2> SUFFICES ASSUME Bad # {}
               PROVE  FALSE
    OBVIOUS
  <2>1. PICK d \in Bad : \A e \in Bad : d <= e
    <3>1. Bad \in SUBSET Nat
      OBVIOUS
    <3> HIDE DEF Bad
    <3> QED BY <3>1, HasSmallest
  <2> DEFINE k == n - d
  <2>2. d \in 0..n /\ ~LeavesFrom(A[k], run, k, n)
    OBVIOUS
  <2>3. k \in 0..n
    BY <1>1, <2>2
  <2> HIDE DEF n
  <2>4. k # n
    <3>1. k = n => LeavesFrom(A[k], run, k, n)
      <4> HIDE DEF k, Now
      <4> QED BY <1>4, <1>6, <2>3
    <3> QED BY <2>2, <3>1
  <2>5. LeavesFrom(A[k + 1], run, k + 1, n)
    <3>1. d - 1 \in 0..n /\ ~(d <= d - 1) /\ n - (d - 1) = k + 1
      BY <1>1, <2>2, <2>4
    <3>2. d - 1 \notin Bad
      <4> HIDE DEF Bad, k
      <4> QED BY <2>1, <3>1
    <3> HIDE DEF k
    <3> QED BY <3>1, <3>2
  <2> HIDE DEF Bad, k
  <2>6. CASE Now(k) = <<>>
    <3>1. A[k] = <<>>
      <4> HIDE DEF Now
      <4> QED BY <1>4, <2>3, <2>4, <2>6
    <3>2. LeavesFrom(<<>>, run, k, n)
      BY <1>1, <2>3 DEF LeavesFrom, IsSeq
    <3> QED BY <2>2, <3>1, <3>2
  <2>7. CASE Now(k) # <<>>
    <3>1. PICK w : Now(k) = <<[pic |-> run[k + 1], window |-> w]>>
      BY <1>5, <2>3, <2>4, <2>7, LeavingOK
    <3> DEFINE x == [pic |-> run[k + 1], window |-> w]
               rest == A[k + 1]
    <3>2. A[k] = <<x>> \o rest
      <4>1. A[k] = Now(k) \o rest
        <5> HIDE DEF Now
        <5> QED BY <1>4, <2>3, <2>4, <2>7
      <4> QED BY <3>1, <4>1
    <3>3. x.pic = run[k + 1]
      OBVIOUS
    <3> HIDE DEF x, rest
    <3>4. IsSeq(rest) /\ Len(rest) <= n - (k + 1) /\ \A j \in 1..Len(rest) : rest[j].pic = run[(k + 1) + j]
      BY <2>5 DEF LeavesFrom, rest
    <3>5. Len(rest) \in Nat
      BY <3>4 DEF IsSeq
    <3> DEFINE t == <<x>> \o rest
    <3>6. IsSeq(t) /\ Len(t) = Len(rest) + 1 /\ t[1] = x /\ \A j \in 2..(Len(rest) + 1) : t[j] = rest[j - 1]
      BY <3>4, FrontOK
    <3> HIDE DEF t
    <3>7. Len(t) <= n - k
      BY <1>1, <2>3, <3>4, <3>5, <3>6
    <3>8. ASSUME NEW j \in 1..Len(t)
          PROVE  t[j].pic = run[k + j]
      <4>1. CASE j = 1
        BY <3>3, <3>6, <4>1
      <4>2. CASE j # 1
        <5>1. j \in 2..(Len(rest) + 1) /\ j - 1 \in 1..Len(rest) /\ (k + 1) + (j - 1) = k + j
          BY <2>3, <3>5, <3>6, <4>2
        <5> QED BY <3>4, <3>6, <5>1
      <4> QED BY <4>1, <4>2
    <3>9. LeavesFrom(t, run, k, n)
      BY <3>6, <3>7, <3>8 DEF LeavesFrom
    <3> QED BY <2>2, <3>2, <3>9 DEF t
  <2> QED BY <2>6, <2>7
<1>8. LeavesFrom(A[0], run, 0, n)
  <2>1. n \in 0..n /\ n - n = 0
    BY <1>1
  <2> HIDE DEF n
  <2>2. n \notin Bad
    BY <1>7
  <2>3. LeavesFrom(A[n - n], run, n - n, n)
    BY <2>1, <2>2
  <2> QED BY <2>1, <2>3
<1> QED BY <1>2, <1>8

-----------------------------------------------------------------------------
(* The steps.                                                               *)

\* Before anything is taken.
LEMMA PipelineStarts == PipelineInit => PipelineInv
<1> SUFFICES ASSUME PipelineInit
             PROVE  PipelineInv
  OBVIOUS
<1>1. Inv /\ poc = None /\ sent = <<>>
  <2>1. Init
    BY DEF PipelineInit
  <2> QED BY <2>1, InitInv DEF Init
<1>2. /\ ahead \in Depths /\ taken = 0 /\ estimating = {} /\ injected = 0
      /\ ring = [s \in Slots |-> None] /\ head = 0 /\ left = <<>> /\ analysed = 0 /\ coded = {}
  BY DEF PipelineInit
<1>3. PpcsCount \in Nat \ {0} /\ cfg.pictures \in Nat
  BY <1>1, <1>2, DepthOK
<1>4. Cardinality({}) = 0 /\ Len(left) = 0 /\ Len(sent) = 0 /\ 0 % PpcsCount = 0
  <2>1. 0 % PpcsCount = 0
    <3>1. 0 % PpcsCount \in 0..(PpcsCount - 1) /\ 0 \div PpcsCount \in Int
          /\ 0 = PpcsCount * (0 \div PpcsCount) + (0 % PpcsCount)
      BY <1>3, Remainder
    <3>2. PpcsCount * (0 \div PpcsCount) = -(0 % PpcsCount)
      BY <1>3, <3>1
    <3>3. 0 \div PpcsCount = 0
      BY <1>3, <3>1, <3>2, NoMultiple
    <3> QED BY <1>3, <3>1, <3>3
  <2> QED BY <1>1, <1>2, <2>1, FS_EmptySet
<1>5. PassedInv
  <2>1. IsSeq(left)
    BY <1>2 DEF IsSeq
  <2>2. poc + 1 <= Posted
    BY <1>1, <1>2 DEF Posted, None
  <2> QED BY <1>1, <1>2, <1>3, <1>4, <2>1, <2>2 DEF PassedInv
<1>6. InsideInv
  BY <1>2, <1>4 DEF InsideInv
<1> QED BY <1>1, <1>5, <1>6 DEF PipelineInv

\* What the picture decision never changes, and what it adds to.
LEMMA DecisionKeeps ==
    ASSUME Inv, Next
    PROVE  /\ cfg' = cfg /\ Len(sent) \in Nat /\ Len(sent') \in Nat /\ Len(sent) <= Len(sent')
           /\ poc' = poc \/ (phase = "place" /\ poc' = poc + 1 /\ poc + 1 < cfg.pictures)
<1>1. Inv'
  BY NextKeeps
<1>2. IsSeq(sent) /\ IsSeq(delayed) /\ IsSeq(sent')
  BY <1>1 DEF Inv, SendInv, IsSeq
<1>3. Len(sent) \in Nat /\ Len(sent') \in Nat
  BY <1>2 DEF IsSeq
<1>4. CASE \E forced \in BOOLEAN : PlacePicture(forced)
  BY <1>3, <1>4 DEF PlacePicture, sending
<1>5. CASE SplitWindow
  BY <1>3, <1>5 DEF SplitWindow, sending, place
<1>6. CASE StartMiniGop
  <2>1. cfg' = cfg /\ poc' = poc /\ sent' = sent
    BY <1>6, Zenon DEF StartMiniGop, sending
  <2> QED BY <1>3, <2>1
<1>7. CASE DecidePicture
  <2>1. cfg' = cfg /\ poc' = poc /\ sent' = sent
    BY <1>7, Zenon DEF DecidePicture, sending, place
  <2> QED BY <1>3, <2>1
<1>8. CASE LeaveToOverlay
  <2>1. cfg' = cfg /\ poc' = poc /\ sent' = sent
    BY <1>8, Zenon DEF LeaveToOverlay, sending, place
  <2> QED BY <1>3, <2>1
<1>9. CASE AssignReferences
  <2>1. cfg' = cfg /\ poc' = poc /\ sent' = sent
    BY <1>9, Zenon DEF AssignReferences, sending, place
  <2> QED BY <1>3, <2>1
<1>10. CASE SendMiniGop
  <2>1. cfg' = cfg /\ poc' = poc
    BY <1>10, Zenon DEF SendMiniGop
  <2> DEFINE n == Len(group)
             m == IF Waits THEN n - 1 ELSE n
  <2>2. n \in Nat \ {0} /\ Len(sent') = Len(sent) + Len(delayed) + m
    BY <1>10, SendsWhat
  <2>3. Len(delayed) \in Nat
    BY <1>2 DEF IsSeq
  <2> HIDE DEF n
  <2>4. Len(sent) <= Len(sent')
    BY <1>3, <2>2, <2>3
  <2> QED BY <1>3, <2>1, <2>4
<1> QED BY <1>4, <1>5, <1>6, <1>7, <1>8, <1>9, <1>10 DEF Next

\* The picture decision.
LEMMA DecideKeepsPipeline ==
    ASSUME PipelineInv, Decide
    PROVE  PipelineInv'
<1>1. Inv /\ PassedInv /\ InsideInv
  BY DEF PipelineInv
<1>2. /\ Next /\ (phase = "place" => WindowAvailable)
      /\ ahead' = ahead /\ taken' = taken /\ estimating' = estimating /\ injected' = injected
      /\ ring' = ring /\ head' = head /\ left' = left /\ analysed' = analysed /\ given' = given /\ coded' = coded
  BY DEF Decide, aheadVars
<1>3. Inv'
  BY <1>1, <1>2, NextKeeps
<1>4. /\ cfg' = cfg /\ Len(sent) \in Nat /\ Len(sent') \in Nat /\ Len(sent) <= Len(sent')
      /\ poc' = poc \/ (phase = "place" /\ poc' = poc + 1 /\ poc + 1 < cfg.pictures)
  BY <1>1, <1>2, DecisionKeeps
<1>5. PpcsCount' = PpcsCount /\ Slots' = Slots /\ Inside' = Inside /\ Posted' = Posted
  BY <1>2, <1>4 DEF PpcsCount, MgSize, Slots, Inside, Posted
<1>6. poc' + 1 <= Posted'
  <2>1. ahead.delay \in Nat /\ cfg.pictures \in Nat
    BY <1>1, DepthOK DEF PassedInv
  <2>2. poc \in Int /\ Posted \in Int /\ poc + 1 <= Posted
    <3>1. poc \in None..(cfg.pictures - 1) /\ taken \in 0..(cfg.pictures + 1)
      BY <1>1 DEF Inv, WindowInv, PassedInv
    <3> QED BY <1>1, <2>1, <3>1 DEF Posted, PassedInv, None
  <2>3. CASE poc' = poc
    BY <1>5, <2>2, <2>3
  <2>4. CASE phase = "place" /\ poc' = poc + 1 /\ poc + 1 < cfg.pictures
    <3>1. Posted = cfg.pictures \/ poc + 1 + ahead.delay < Posted
      BY <1>2, <2>4 DEF WindowAvailable
    <3> QED BY <1>5, <2>1, <2>2, <2>4, <3>1
  <2> QED BY <1>4, <2>3, <2>4
<1>7. PassedInv'
  <2>1. injected' \in Len(left')..Len(sent')
    BY <1>1, <1>2, <1>4 DEF PassedInv
  <2> QED BY <1>1, <1>2, <1>4, <1>5, <1>6, <2>1 DEF PassedInv, IsSeq
<1>8. InsideInv'
  BY <1>1, <1>2, <1>5 DEF InsideInv
<1> QED BY <1>3, <1>7, <1>8 DEF PipelineInv

\* A picture takes a parent control set.
LEMMA TakeKeeps ==
    ASSUME PipelineInv, TakePicture
    PROVE  PipelineInv'
<1>1. Inv /\ PassedInv /\ InsideInv
  BY DEF PipelineInv
<1>2. /\ UNCHANGED vars /\ ahead' = ahead /\ estimating' = estimating /\ injected' = injected
      /\ ring' = ring /\ head' = head /\ left' = left /\ analysed' = analysed /\ coded' = coded
      /\ taken' = taken + 1 /\ taken <= cfg.pictures /\ taken - Cardinality(coded) < PpcsCount
  BY DEF TakePicture, queue, sources, HasPpcs
<1>3. Inv' /\ cfg' = cfg /\ poc' = poc /\ sent' = sent
  <2>1. Inv'
    BY <1>1, <1>2, NextKeeps
  <2> QED BY <1>2, <2>1 DEF vars, place, sending
<1>4. PpcsCount' = PpcsCount /\ Slots' = Slots /\ Inside' = Inside
  BY <1>2, <1>3 DEF PpcsCount, MgSize, Slots, Inside
<1>5. PassedInv'
  <2>1. taken \in Nat /\ cfg.pictures \in Nat /\ poc \in Int /\ PpcsCount \in Nat
    <3>1. cfg.pictures \in Nat /\ PpcsCount \in Nat
      BY <1>1, DepthOK DEF PassedInv
    <3>2. taken \in 0..(cfg.pictures + 1) /\ poc \in None..(cfg.pictures - 1)
      BY <1>1 DEF PassedInv, Inv, WindowInv
    <3> QED BY <3>1, <3>2 DEF None
  <2>2. Cardinality(coded) \in Nat
    <3> DEFINE n == Len(left)
    <3>1. coded \subseteq 1..n /\ n \in Nat
      BY <1>1 DEF PassedInv, IsSeq
    <3> HIDE DEF n
    <3>2. IsFiniteSet(1..n)
      BY <3>1, FS_Interval
    <3> QED BY <3>1, <3>2, FS_Subset, FS_CardinalityType
  <2>3. taken' \in 0..(cfg.pictures + 1) /\ taken' - Cardinality(coded) <= PpcsCount
    BY <1>2, <2>1, <2>2
  <2>4. poc' + 1 <= Posted'
    <3>1. poc + 1 <= taken
      BY <1>1, <2>1 DEF PassedInv, Posted
    <3>2. Posted' = taken
      BY <1>2, <2>1 DEF Posted
    <3> QED BY <1>3, <2>1, <3>1, <3>2
  <2> QED BY <1>1, <1>2, <1>3, <1>4, <2>3, <2>4 DEF PassedInv, IsSeq
<1>6. InsideInv'
  BY <1>1, <1>2, <1>4 DEF InsideInv
<1> QED BY <1>3, <1>5, <1>6 DEF PipelineInv

\* What every step does that leaves the picture decision alone and takes nothing.
LEMMA DecisionKept ==
    ASSUME PipelineInv, UNCHANGED vars, ahead' = ahead, taken' = taken
    PROVE  /\ Inv' /\ cfg' = cfg /\ poc' = poc /\ sent' = sent
           /\ PpcsCount' = PpcsCount /\ Slots' = Slots /\ Posted' = Posted
           /\ PpcsCount \in Nat \ {0} /\ Len(sent) \in Nat /\ Len(left) \in Nat /\ Slots = 0..(PpcsCount - 1)
<1>1. Inv /\ PassedInv
  BY DEF PipelineInv
<1>2. Inv'
  BY <1>1, NextKeeps
<1>3. cfg' = cfg /\ poc' = poc /\ sent' = sent
  BY DEF vars, place, sending
<1>4. PpcsCount' = PpcsCount /\ Slots' = Slots /\ Posted' = Posted
  BY <1>3 DEF PpcsCount, MgSize, Slots, Posted
<1>5. PpcsCount \in Nat \ {0} /\ Slots = 0..(PpcsCount - 1)
  BY <1>1, DepthOK DEF PassedInv
<1>6. Len(sent) \in Nat /\ Len(left) \in Nat
  BY InsideFits
<1> QED BY <1>2, <1>3, <1>4, <1>5, <1>6

\* The picture decision passes a picture on.
LEMMA SendOutKeeps ==
    ASSUME PipelineInv, SendPictureOut
    PROVE  PipelineInv'
<1>1. Inv /\ PassedInv /\ InsideInv
  BY DEF PipelineInv
<1>2. /\ UNCHANGED vars /\ ahead' = ahead /\ taken' = taken /\ coded' = coded
      /\ ring' = ring /\ head' = head /\ left' = left /\ analysed' = analysed
      /\ injected < Len(sent) /\ injected' = injected + 1 /\ estimating' = estimating \cup {injected + 1}
  BY DEF SendPictureOut, queue, sources, inputs
<1>3. /\ Inv' /\ cfg' = cfg /\ poc' = poc /\ sent' = sent
      /\ PpcsCount' = PpcsCount /\ Slots' = Slots /\ Posted' = Posted
      /\ Len(sent) \in Nat /\ Len(left) \in Nat
  BY <1>2, DecisionKept
<1>4. injected \in Nat /\ Len(left) <= injected
  BY <1>1, <1>3 DEF PassedInv
<1>5. PassedInv'
  <2>1. injected' \in Len(left')..Len(sent')
    BY <1>2, <1>3, <1>4
  <2> QED BY <1>1, <1>2, <1>3, <2>1 DEF PassedInv, IsSeq
<1>6. InsideInv'
  <2>1. Inside \subseteq Inside' /\ injected + 1 \notin Inside
    BY <1>2, <1>3, <1>4 DEF Inside
  <2>2. injected + 1 \in Inside'
    BY <1>2, <1>3, <1>4 DEF Inside
  <2>3. estimating' \subseteq Inside'
    BY <1>1, <1>2, <2>1, <2>2 DEF InsideInv
  <2>4. ASSUME NEW s \in Slots, ring[s] # None
        PROVE  ring[s] \in Inside' /\ ring[s] \notin estimating' /\ (ring[s] - 1) % PpcsCount = s
    BY <1>1, <1>2, <2>1, <2>4 DEF InsideInv
  <2> QED BY <1>1, <1>2, <1>3, <2>3, <2>4 DEF InsideInv
<1> QED BY <1>3, <1>5, <1>6 DEF PipelineInv

\* Source-based operations go on to the next picture.
LEMMA AnalyseKeeps ==
    ASSUME PipelineInv, Analyse
    PROVE  PipelineInv'
<1>1. Inv /\ PassedInv /\ InsideInv
  BY DEF PipelineInv
<1>2. /\ UNCHANGED vars /\ ahead' = ahead /\ taken' = taken /\ coded' = coded /\ injected' = injected
      /\ ring' = ring /\ head' = head /\ left' = left /\ estimating' = estimating
      /\ analysed < Len(left) /\ analysed' = analysed + 1
  BY DEF Analyse, queue, inputs
<1>3. /\ Inv' /\ cfg' = cfg /\ poc' = poc /\ sent' = sent
      /\ PpcsCount' = PpcsCount /\ Slots' = Slots /\ Posted' = Posted
      /\ Len(sent) \in Nat /\ Len(left) \in Nat
  BY <1>2, DecisionKept
<1>4. PassedInv'
  <2>1. analysed' \in 0..Len(left')
    BY <1>1, <1>2, <1>3 DEF PassedInv
  <2> QED BY <1>1, <1>2, <1>3, <2>1 DEF PassedInv, IsSeq
<1>5. InsideInv'
  BY <1>1, <1>2, <1>3 DEF InsideInv, Inside
<1> QED BY <1>3, <1>4, <1>5 DEF PipelineInv

\* A picture is coded.
LEMMA CodeKeeps ==
    ASSUME PipelineInv, NEW i, Code(i)
    PROVE  PipelineInv'
<1>1. Inv /\ PassedInv /\ InsideInv
  BY DEF PipelineInv
<1>2. /\ UNCHANGED vars /\ ahead' = ahead /\ taken' = taken /\ injected' = injected
      /\ ring' = ring /\ head' = head /\ left' = left /\ estimating' = estimating /\ analysed' = analysed
      /\ \E k \in 1..analysed : left[k].pic = i
      /\ i \notin coded /\ coded' = coded \cup {i}
  BY DEF Code, queue, sources
<1>3. /\ Inv' /\ cfg' = cfg /\ poc' = poc /\ sent' = sent
      /\ PpcsCount' = PpcsCount /\ Slots' = Slots /\ Posted' = Posted
      /\ PpcsCount \in Nat /\ Len(sent) \in Nat /\ Len(left) \in Nat
  BY <1>2, DecisionKept
<1>4. i \in 1..Len(left)
  <2>1. PICK k \in 1..analysed : left[k].pic = i
    BY <1>2
  <2>2. k \in 1..Len(left)
    BY <1>1, <1>3, <2>1 DEF PassedInv
  <2> QED BY <1>1, <2>1, <2>2 DEF PassedInv
<1>5. taken - Cardinality(coded') <= PpcsCount
  <2> DEFINE n == Len(left)
  <2>1. coded \subseteq 1..n /\ n \in Nat
    BY <1>1, <1>3 DEF PassedInv
  <2> HIDE DEF n
  <2>2. IsFiniteSet(1..n)
    BY <2>1, FS_Interval
  <2>3. IsFiniteSet(coded) /\ Cardinality(coded) \in Nat
    BY <2>1, <2>2, FS_Subset, FS_CardinalityType
  <2>4. Cardinality(coded') = Cardinality(coded) + 1
    BY <1>2, <2>3, FS_AddElement
  <2>5. taken \in Nat /\ taken - Cardinality(coded) <= PpcsCount
    <3>1. cfg.pictures \in Nat
      BY <1>1, DepthOK DEF PassedInv
    <3> QED BY <1>1, <3>1 DEF PassedInv
  <2> QED BY <1>3, <2>3, <2>4, <2>5
<1>6. PassedInv'
  <2>1. coded' \subseteq 1..Len(left') /\ taken' - Cardinality(coded') <= PpcsCount'
    BY <1>1, <1>2, <1>3, <1>4, <1>5 DEF PassedInv
  <2> QED BY <1>1, <1>2, <1>3, <2>1 DEF PassedInv, IsSeq
<1>7. InsideInv'
  BY <1>1, <1>2, <1>3 DEF InsideInv, Inside
<1> QED BY <1>3, <1>6, <1>7 DEF PipelineInv

\* Motion estimation is finished with a picture: it is put in its slot, and those
\* from the head on that can go leave theirs.
LEMMA EstimationKeeps ==
    ASSUME PipelineInv, NEW i, EstimationDone(i)
    PROVE  PipelineInv'
<1> DEFINE P == PpcsCount
           h == Len(left)
           full == [ring EXCEPT ![SlotOf(i)] = IF @ = None THEN i ELSE @]
           run == Run(full, head)
           out == Processed(run)
           gone == {out[k].pic : k \in DOMAIN out}
<1>1. Inv /\ PassedInv /\ InsideInv
  BY DEF PipelineInv
<1>2. /\ UNCHANGED vars /\ ahead' = ahead /\ taken' = taken /\ injected' = injected
      /\ coded' = coded /\ analysed' = analysed
      /\ i \in estimating /\ estimating' = estimating \ {i}
      /\ ring' = Emptied(full, gone) /\ head' = (head + Len(out)) % P /\ left' = left \o out
  BY DEF EstimationDone, inputs
<1>3. /\ Inv' /\ cfg' = cfg /\ poc' = poc /\ sent' = sent
      /\ PpcsCount' = PpcsCount /\ Slots' = Slots /\ Posted' = Posted
      /\ P \in Nat \ {0} /\ Len(sent) \in Nat /\ h \in Nat /\ Slots = 0..(P - 1)
  BY <1>2, DecisionKept
<1>4. /\ injected \in Nat /\ injected <= h + P - 1 /\ injected >= h
      /\ i \in Inside /\ Inside \in SUBSET Nat /\ SlotOf(i) = (i - 1) % P /\ SlotOf(i) \in Slots
      /\ head = h % P /\ \A j \in Inside : j > h /\ j <= injected /\ j \in Nat
  <2>1. injected \in Nat /\ injected <= h + P - 1 /\ injected >= h
    BY <1>1, <1>3, InsideFits DEF PassedInv
  <2>2. i \in Inside /\ head = h % P
    BY <1>1, <1>2 DEF InsideInv
  <2>3. SlotOf(i) = (i - 1) % P /\ SlotOf(i) \in Slots
    BY <2>2, InsideFits
  <2>4. \A j \in Inside : j > h /\ j <= injected /\ j \in Nat
    BY <1>3, <2>1 DEF Inside
  <2> QED BY <2>1, <2>2, <2>3, <2>4
<1>5. full \in [Slots -> Nat \cup {None}] /\ full[SlotOf(i)] = i /\ \A s \in Slots \ {SlotOf(i)} : full[s] = ring[s]
  <2>1. ring[SlotOf(i)] = None
    BY <1>2, RoomInRing DEF RingHasRoom
  <2>2. ring \in [Slots -> Nat \cup {None}]
    BY <1>1 DEF InsideInv
  <2> QED BY <1>4, <2>1, <2>2
<1> HIDE DEF full
<1>6. ASSUME NEW s \in Slots, full[s] # None
      PROVE  full[s] \in Inside /\ full[s] \notin estimating' /\ (full[s] - 1) % P = s
  <2>1. CASE s = SlotOf(i)
    BY <1>2, <1>4, <1>5, <2>1
  <2>2. CASE s # SlotOf(i)
    <3>1. full[s] = ring[s]
      BY <1>5, <2>2
    <3> QED BY <1>1, <1>2, <1>6, <3>1 DEF InsideInv
  <2> QED BY <2>1, <2>2
<1>7. PICK n \in 0..P : /\ run = [k \in 1..n |-> h + k]
                        /\ \A k \in 1..n : h + k \in Inside /\ full[(h + k - 1) % P] = h + k
  <2>1. RingOf(full, Inside)
    BY <1>5, <1>6 DEF RingOf
  <2>2. \A j \in Inside : j > h /\ j <= h + P
    BY <1>3, <1>4
  <2> HIDE DEF h, run
  <2>3. \E n \in 0..P : /\ Run(full, h % P) = [k \in 1..n |-> h + k]
                        /\ \A k \in 1..n : h + k \in Inside /\ full[(h + k - 1) % P] = h + k
    BY <1>3, <1>4, <2>1, <2>2, RunOK
  <2>4. run = Run(full, h % P)
    BY <1>4 DEF run
  <2> QED BY <2>3, <2>4
<1>8. LeavesFrom(out, run, 0, n)
  <2>1. run \in Seq(Nat) /\ Len(run) = n
    BY <1>3, <1>7
  <2> HIDE DEF run
  <2> QED BY <2>1, ProcessedOK
<1> HIDE DEF run, out
<1> DEFINE m == Len(out)
<1>9. IsSeq(out) /\ m \in Nat /\ m <= n /\ \A k \in 1..m : out[k].pic = h + k
  <2>1. IsSeq(out) /\ m <= n - 0 /\ \A k \in 1..m : out[k].pic = run[0 + k]
    BY <1>8 DEF LeavesFrom
  <2>2. m \in Nat
    BY <2>1 DEF IsSeq
  <2>3. m <= n
    BY <1>7, <2>1, <2>2
  <2>4. ASSUME NEW k \in 1..m
        PROVE  out[k].pic = h + k
    <3>1. k \in 1..n /\ 0 + k = k
      BY <1>7, <2>2, <2>3
    <3> QED BY <1>7, <2>1, <3>1
  <2> QED BY <2>1, <2>2, <2>3, <2>4
<1>10. gone = (h + 1)..(h + m)
  <2>1. DOMAIN out = 1..m
    BY <1>9 DEF IsSeq
  <2>2. gone = {h + k : k \in 1..m}
    BY <1>9, <2>1
  <2> HIDE DEF gone, m
  <2>3. ASSUME NEW j \in (h + 1)..(h + m)
        PROVE  j - h \in 1..m /\ h + (j - h) = j
    BY <1>3, <1>9
  <2>4. (h + 1)..(h + m) \subseteq {h + k : k \in 1..m}
    BY <2>3
  <2>5. {h + k : k \in 1..m} \subseteq (h + 1)..(h + m)
    BY <1>3, <1>9
  <2> QED BY <2>2, <2>4, <2>5
<1>11. /\ IsSeq(left') /\ Len(left') = h + m /\ \A k \in 1..Len(left') : left'[k].pic = k
  <2>1. IsSeq(left) /\ \A k \in 1..h : left[k].pic = k
    BY <1>1 DEF PassedInv
  <2>2. /\ IsSeq(left \o out) /\ Len(left \o out) = h + m
        /\ \A k \in 1..h : (left \o out)[k] = left[k]
        /\ \A k \in 1..m : (left \o out)[h + k] = out[k]
    BY <1>9, <2>1, ConcatIs
  <2> HIDE DEF h, m
  <2>3. ASSUME NEW k \in 1..(h + m)
        PROVE  (left \o out)[k].pic = k
    <3>1. CASE k \in 1..h
      BY <2>1, <2>2, <3>1
    <3>2. CASE k \notin 1..h
      <4>1. k - h \in 1..m /\ h + (k - h) = k
        BY <1>3, <1>9, <3>2
      <4>2. (left \o out)[h + (k - h)] = out[k - h] /\ out[k - h].pic = h + (k - h)
        BY <1>9, <2>2, <4>1
      <4> QED BY <4>1, <4>2
    <3> QED BY <3>1, <3>2
  <2> QED BY <1>2, <2>2, <2>3
<1>12. h + m <= injected
  <2>1. CASE m = 0
    BY <1>3, <1>4, <2>1
  <2>2. CASE m # 0
    <3>1. m \in 1..n
      BY <1>7, <1>9, <2>2
    <3> QED BY <1>4, <1>7, <3>1
  <2> QED BY <2>1, <2>2
<1> HIDE DEF h, m, gone
<1>13. Inside' = Inside \ ((h + 1)..(h + m)) /\ Inside = (h + 1)..injected
  <2>1. Inside = (h + 1)..injected /\ Inside' = (h + m + 1)..injected
    BY <1>2, <1>11 DEF Inside, h
  <2> QED BY <1>3, <1>4, <1>9, <2>1
<1>14. head' = Len(left') % PpcsCount'
  <2>1. ((h % P) + m) % P = (h + m) % P
    BY <1>3, <1>9, RemainderOfSum
  <2> QED BY <1>2, <1>3, <1>4, <1>11, <2>1 DEF m
<1>15. estimating' \subseteq Inside'
  <2> SUFFICES ASSUME NEW j \in estimating'
               PROVE  j \in Inside'
    OBVIOUS
  <2>1. j \in Inside
    BY <1>1, <1>2 DEF InsideInv
  <2>2. j \notin (h + 1)..(h + m)
    <3> SUFFICES ASSUME j \in (h + 1)..(h + m)
                 PROVE  FALSE
      OBVIOUS
    <3>1. j - h \in 1..n /\ h + (j - h) = j /\ h + (j - h) - 1 \in Nat
      BY <1>3, <1>7, <1>9
    <3>2. full[(h + (j - h) - 1) % P] = j
      BY <1>7, <3>1
    <3>3. (h + (j - h) - 1) % P \in Slots
      BY <1>3, <3>1, Remainder
    <3>4. j # None
      BY <1>3, <3>1 DEF None
    <3> QED BY <1>6, <3>2, <3>3, <3>4
  <2> QED BY <1>13, <2>1, <2>2
<1>16. ring' = [s \in Slots |-> IF full[s] \in gone THEN None ELSE full[s]]
  BY <1>2 DEF Emptied
<1>17. PassedInv'
  <2>1. injected' \in Len(left')..Len(sent')
    BY <1>1, <1>2, <1>3, <1>4, <1>9, <1>11, <1>12 DEF PassedInv
  <2>2. coded' \subseteq 1..Len(left') /\ analysed' \in 0..Len(left')
    BY <1>1, <1>2, <1>3, <1>9, <1>11 DEF PassedInv, h
  <2> QED BY <1>1, <1>2, <1>3, <1>11, <2>1, <2>2 DEF PassedInv
<1>18. InsideInv'
  <2>1. ring' \in [Slots' -> Nat \cup {None}]
    BY <1>3, <1>5, <1>16
  <2>2. ASSUME NEW s \in Slots', ring'[s] # None
        PROVE  ring'[s] \in Inside' /\ ring'[s] \notin estimating' /\ (ring'[s] - 1) % PpcsCount' = s
    <3>1. s \in Slots /\ full[s] # None /\ ring'[s] = full[s] /\ full[s] \notin gone
      BY <1>3, <1>16, <2>2
    <3> QED BY <1>3, <1>6, <1>10, <1>13, <3>1
  <2> QED BY <1>14, <1>15, <2>1, <2>2 DEF InsideInv
<1> QED BY <1>3, <1>17, <1>18 DEF PipelineInv

\* Every step of the pipeline keeps the invariant.
LEMMA PipelineKeeps == PipelineInv /\ [PipelineNext]_PipelineVars => PipelineInv'
<1> SUFFICES ASSUME PipelineInv, [PipelineNext]_PipelineVars
             PROVE  PipelineInv'
  OBVIOUS
<1>1. CASE UNCHANGED PipelineVars
  <2>1. /\ UNCHANGED vars /\ ahead' = ahead /\ taken' = taken /\ injected' = injected /\ estimating' = estimating
        /\ ring' = ring /\ head' = head /\ left' = left /\ analysed' = analysed /\ coded' = coded
    BY <1>1 DEF PipelineVars, aheadVars
  <2>2. Inv' /\ cfg' = cfg /\ poc' = poc /\ sent' = sent /\ PpcsCount' = PpcsCount /\ Slots' = Slots /\ Posted' = Posted
    BY <2>1, DecisionKept
  <2>3. PassedInv'
    BY <2>1, <2>2 DEF PipelineInv, PassedInv, IsSeq
  <2>4. InsideInv'
    BY <2>1, <2>2 DEF PipelineInv, InsideInv, Inside
  <2> QED BY <2>2, <2>3, <2>4 DEF PipelineInv
<1>2. CASE Decide
  BY <1>2, DecideKeepsPipeline
<1>3. CASE TakePicture
  BY <1>3, TakeKeeps
<1>4. CASE SendPictureOut
  BY <1>4, SendOutKeeps
<1>5. CASE \E i \in estimating : EstimationDone(i)
  BY <1>5, EstimationKeeps
<1>6. CASE Analyse
  BY <1>6, AnalyseKeeps
<1>7. CASE \E i \in DOMAIN sent : Code(i)
  BY <1>7, CodeKeeps
<1> QED BY <1>1, <1>2, <1>3, <1>4, <1>5, <1>6, <1>7 DEF PipelineNext, Others

\* The invariant of the pipeline.
THEOREM PipelineInvariance == PipelineSpec => []PipelineInv
<1>1. PipelineInit => PipelineInv
  BY PipelineStarts
<1>2. PipelineInv /\ [PipelineNext]_PipelineVars => PipelineInv'
  BY PipelineKeeps
<1> QED BY <1>1, <1>2, PTL DEF PipelineSpec

\* The look-ahead ring never overflows: the slot of a picture that motion
\* estimation is to finish is empty, in whatever order it finishes, and another one
\* is too.
THEOREM RingNeverOverflows == PipelineSpec => []RingHasRoom
BY PipelineInvariance, RoomInRing, PTL
=============================================================================
