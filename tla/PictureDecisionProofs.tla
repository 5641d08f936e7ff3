----------------------- MODULE PictureDecisionProofs -----------------------
(***************************************************************************)
(* What the picture decision of pd_process.c keeps, of every sequence of   *)
(* every configuration that the settings allow: its variables keep their   *)
(* types; pictures leave in decode order, without a gap, and a mini-GOP    *)
(* leaves as one piece; a picture is released exactly when the last slot   *)
(* that holds it is given away; at a constant bit rate no picture predicts *)
(* from one of a higher layer.                                             *)
(*                                                                         *)
(* None of it is inductive.  A picture gets its number when its mini-GOP   *)
(* is built, long before it leaves, and its mini-GOP a size when it leaves,*)
(* by the fields its pictures were given in between.  The invariant Inv    *)
(* follows a picture from the buffer to the messages:                      *)
(*   WindowInv    the buffer holds consecutive pictures, a key frame last; *)
(*   PiecesInv    its mini-GOPs follow one another up to its end;          *)
(*   NumbersInv   numbers in decode order follow the pictures placed;      *)
(*   GroupInv     the mini-GOP being built is numbered without a gap, with *)
(*                one key frame at most, the last if it is to wait;        *)
(*   Toggles      the layers' toggles stay within their slots;             *)
(*   BuffersInv   the two buffers of decoded pictures tell pictures apart  *)
(*                by either number, and have no picture to come;           *)
(*   SendInv      messages are consecutive, in blocks of their mini-GOP's  *)
(*                size, up to a key frame that waits.                      *)
(* The tables of the mini-GOPs come first, then the buffer and its split,  *)
(* the building of a mini-GOP, the choice of references, the two buffers,  *)
(* sending, and the layers of a constant bit rate.                         *)
(***************************************************************************)
EXTENDS PictureDecision, TLAPS, FiniteSetTheorems, SequenceTheorems, WellFoundedInduction

\* A nonempty set of numbers has a smallest member.
LEMMA HasSmallest ==
    ASSUME NEW S \in SUBSET Nat, S # {}
    PROVE  \E x \in S : \A y \in S : x <= y
<1>1. PICK x \in S : \A y \in S : ~(<<y, x>> \in OpToRel(<, Nat))
  BY NatLessThanWellFounded, WFMin, Zenon
<1>2. \A y \in S : ~(y < x)
  BY <1>1, Zenon DEF OpToRel
<1> QED BY <1>2

-----------------------------------------------------------------------------
(* The tables of a mini-GOP.                                              *)

\* The pictures of a mini-GOP of each number of levels.
LEMMA EntryCounts ==
    /\ EntryCount(0) = 1 /\ EntryCount(1) = 2 /\ EntryCount(2) = 4
    /\ EntryCount(3) = 8 /\ EntryCount(4) = 16 /\ EntryCount(5) = 32
  BY DEF EntryCount

\* Levels, by name.
LEMMA LevelIs ==
    ASSUME NEW hl \in 0..5
    PROVE  hl = 0 \/ hl = 1 \/ hl = 2 \/ hl = 3 \/ hl = 4 \/ hl = 5
  OBVIOUS

\* More levels, more pictures.
LEMMA EntryCountOK ==
    ASSUME NEW hl \in 0..5
    PROVE  /\ EntryCount(hl) \in Nat \ {0} /\ EntryCount(hl) <= 32 /\ EntryCount(hl) = 2^hl
           /\ \A more \in 0..5 : hl <= more => EntryCount(hl) <= EntryCount(more)
           /\ hl > 0 => EntryCount(hl) >= 2
           /\ EntryCount(hl) = 1 => hl = 0
<1>1. EntryCount(hl) = 2^hl
  BY DEF EntryCount
<1>2. EntryCount(hl) \in Nat \ {0} /\ EntryCount(hl) <= 32 /\ (hl > 0 => EntryCount(hl) >= 2)
      /\ (EntryCount(hl) = 1 => hl = 0)
  BY EntryCounts, LevelIs
<1>3. ASSUME NEW more \in 0..5, hl <= more
      PROVE  EntryCount(hl) <= EntryCount(more)
  <2>1. more = 0 \/ more = 1 \/ more = 2 \/ more = 3 \/ more = 4 \/ more = 5
    BY LevelIs
  <2> QED BY <1>3, <2>1, EntryCounts, LevelIs
<1> QED BY <1>1, <1>2, <1>3

\* A picture of a pyramid is in one of its layers.
LEMMA LayerOK ==
    ASSUME NEW hl \in 0..5, NEW pos \in Nat, pos < EntryCount(hl)
    PROVE  Layer(hl, pos) \in 0..hl
<1> DEFINE P(k) == pos % 2^k = 0 /\ pos % 2^(k + 1) # 0
<1>1. CASE pos = 0
  BY <1>1 DEF Layer
<1>2. CASE pos # 0
  <2>1. \E k \in 0..hl : P(k)
    <3>1. /\ pos % 2^0 = 0 /\ 2^(0+1) = 2 /\ 2^1 = 2 /\ 2^(1+1) = 4 /\ 2^2 = 4 /\ 2^(2+1) = 8 /\ 2^3 = 8
          /\ 2^(3+1) = 16 /\ 2^4 = 16 /\ 2^(4+1) = 32
      OBVIOUS
    <3>2. CASE pos % 2 # 0
      <4>1. P(0)
        BY <3>1, <3>2
      <4>2. 0 \in 0..hl
        OBVIOUS
      <4> HIDE DEF P
      <4> QED BY <4>1, <4>2
    <3>3. CASE pos % 2 = 0 /\ pos % 4 # 0
      <4>1. P(1)
        BY <3>1, <3>3
      <4>2. 1 \in 0..hl
        BY <1>2, <3>3, EntryCounts, LevelIs
      <4> HIDE DEF P
      <4> QED BY <4>1, <4>2
    <3>4. CASE pos % 4 = 0 /\ pos % 8 # 0
      <4>1. P(2)
        BY <3>1, <3>4
      <4>2. 2 \in 0..hl
        BY <1>2, <3>4, EntryCounts, LevelIs
      <4> HIDE DEF P
      <4> QED BY <4>1, <4>2
    <3>5. CASE pos % 8 = 0 /\ pos % 16 # 0
      <4>1. P(3)
        BY <3>1, <3>5
      <4>2. 3 \in 0..hl
        BY <1>2, <3>5, EntryCounts, LevelIs
      <4> HIDE DEF P
      <4> QED BY <4>1, <4>2
    <3>6. CASE pos % 16 = 0
      <4>1. 4 \in 0..hl /\ pos % 32 # 0
        BY <1>2, <3>6, EntryCounts, LevelIs
      <4>2. P(4)
        BY <3>1, <3>6, <4>1
      <4> HIDE DEF P
      <4> QED BY <4>1, <4>2
    <3> QED BY <3>2, <3>3, <3>4, <3>5, <3>6
  <2>2. (CHOOSE k \in 0..hl : P(k)) \in 0..hl
    BY <2>1
  <2>3. Layer(hl, pos) = hl - (CHOOSE k \in 0..hl : P(k))
    BY <1>2 DEF Layer
  <2> HIDE DEF P
  <2> QED BY <2>2, <2>3
<1> QED BY <1>1, <1>2

\* The place in decode order of each picture of a pyramid, turned round.
PlaceInOrder(hl) ==
    CASE hl = 0 -> <<1>>
      [] hl = 1 -> <<1, 2>>
      [] hl = 2 -> <<1, 3, 2, 4>>
      [] hl = 3 -> <<1, 5, 3, 2, 4, 7, 6, 8>>
      [] hl = 4 -> <<1, 9, 5, 3, 2, 4, 7, 6, 8, 13, 11, 10, 12, 15, 14, 16>>
      [] hl = 5 -> <<1, 17, 9, 5, 3, 2, 4, 7, 6, 8, 13, 11, 10, 12, 15, 14, 16, 25, 21, 19,
                     18, 20, 23, 22, 24, 29, 27, 26, 28, 31, 30, 32>>

\* The table of each number of levels names every place once.
LEMMA DecodeOrderOK ==
    ASSUME NEW hl \in 0..5
    PROVE  /\ \A i \in 1..EntryCount(hl) : /\ DecodeOrder(hl)[i] \in 0..(EntryCount(hl) - 1)
                                           /\ PlaceInOrder(hl)[DecodeOrder(hl)[i] + 1] = i
           /\ \A k \in 0..(EntryCount(hl) - 1) : /\ PlaceInOrder(hl)[k + 1] \in 1..EntryCount(hl)
                                                 /\ DecodeOrder(hl)[PlaceInOrder(hl)[k + 1]] = k
<1>1. CASE hl = 0
  BY <1>1, EntryCounts DEF DecodeOrder, PlaceInOrder
<1>2. CASE hl = 1
  BY <1>2, EntryCounts DEF DecodeOrder, PlaceInOrder
<1>3. CASE hl = 2
  BY <1>3, EntryCounts DEF DecodeOrder, PlaceInOrder
<1>4. CASE hl = 3
  BY <1>4, EntryCounts DEF DecodeOrder, PlaceInOrder
<1>5. CASE hl = 4
  BY <1>5, EntryCounts DEF DecodeOrder, PlaceInOrder
<1>6. CASE hl = 5
  BY <1>6, EntryCounts DEF DecodeOrder, PlaceInOrder
<1> QED BY <1>1, <1>2, <1>3, <1>4, <1>5, <1>6, LevelIs

-----------------------------------------------------------------------------
(* Positions.                                                               *)

\* The positions of the first n pictures, one by one.
PositionsUpTo(g, pics, f, n) ==
    f = [i \in 0..n |->
            IF i = 0 THEN EntryPosition(g, pics[1])
            ELSE NextPosition(g, pics[i], f[i - 1], IF i = 1 THEN afterIntra ELSE IsKey(pics[i - 1]))]

\* Each position follows from the one before it.
LEMMA PositionsSolvable ==
    ASSUME NEW g, NEW pics
    PROVE  \A n \in Nat : \E f : PositionsUpTo(g, pics, f, n)
<1> DEFINE Step(i, v) == NextPosition(g, pics[i], v, IF i = 1 THEN afterIntra ELSE IsKey(pics[i - 1]))
           first == EntryPosition(g, pics[1])
           Bad == {n \in Nat : ~\E f : PositionsUpTo(g, pics, f, n)}
<1>1. \A f, n : PositionsUpTo(g, pics, f, n) <=> f = [i \in 0..n |-> IF i = 0 THEN first ELSE Step(i, f[i - 1])]
  BY Zenon DEF PositionsUpTo
<1> HIDE DEF Step, first
<1> SUFFICES ASSUME Bad # {}
             PROVE  FALSE
  OBVIOUS
<1>2. PICK m \in Bad : \A k \in Bad : m <= k
  <2>1. Bad \in SUBSET Nat
    OBVIOUS
  <2> HIDE DEF Bad
  <2> QED BY <2>1, HasSmallest
<1>3. m \in Nat /\ ~\E f : PositionsUpTo(g, pics, f, m)
  OBVIOUS
<1>4. m # 0
  <2> DEFINE f == [i \in 0..0 |-> first]
  <2>1. f = [i \in 0..0 |-> IF i = 0 THEN first ELSE Step(i, f[i - 1])]
    OBVIOUS
  <2> HIDE DEF f
  <2> QED BY <1>1, <1>3, <2>1
<1>5. m - 1 \in Nat /\ m - 1 \notin Bad
  <2>1. m - 1 \in Nat /\ ~(m <= m - 1)
    BY <1>3, <1>4
  <2> HIDE DEF Bad
  <2> QED BY <1>2, <2>1
<1>6. PICK f : f = [i \in 0..(m - 1) |-> IF i = 0 THEN first ELSE Step(i, f[i - 1])]
  BY <1>1, <1>5
<1> DEFINE h == [i \in 0..m |-> IF i = 0 THEN first ELSE Step(i, f[i - 1])]
<1>7. h = [i \in 0..m |-> IF i = 0 THEN first ELSE Step(i, h[i - 1])]
  <2>1. ASSUME NEW i \in 0..(m - 1)
        PROVE  f[i] = h[i]
    BY <1>3, <1>6, <2>1
  <2>2. ASSUME NEW i \in 0..m, i # 0
        PROVE  Step(i, f[i - 1]) = Step(i, h[i - 1])
    <3>1. i - 1 \in 0..(m - 1)
      BY <1>3, <2>2
    <3>2. f[i - 1] = h[i - 1]
      BY <2>1, <3>1
    <3> QED BY <3>2
  <2> QED BY <2>2
<1> HIDE DEF h
<1> QED BY <1>1, <1>3, <1>7

\* The positions of the pictures of a mini-GOP.
LEMMA PositionsOK ==
    ASSUME NEW g, NEW pics, Len(pics) \in Nat
    PROVE  PositionsUpTo(g, pics, Positions(g, pics), Len(pics))
<1> DEFINE n == Len(pics)
           A == CHOOSE f : f = [i \in 0..n |->
                    IF i = 0 THEN EntryPosition(g, pics[1])
                    ELSE NextPosition(g, pics[i], f[i - 1], IF i = 1 THEN afterIntra ELSE IsKey(pics[i - 1]))]
<1>1. Positions(g, pics) = A
  BY DEF Positions
<1>2. \E f : PositionsUpTo(g, pics, f, n)
  BY PositionsSolvable
<1>3. PositionsUpTo(g, pics, A, n)
  BY <1>2, Zenon DEF PositionsUpTo
<1> QED BY <1>1, <1>3

\* What a picture of the buffer is.
InputPicture == [num : Nat, idr : BOOLEAN, cra : BOOLEAN, eos : BOOLEAN]

\* The buffer holds no picture of a mini-GOP that is not split yet.
Before == phase \in {"place", "split"}

\* How many pictures, of all those placed, have their place in a mini-GOP.
Built == poc + 1 - Len(window)
           + (IF Before THEN 0 ELSE IF miniGops = <<>> THEN Len(window) ELSE miniGops[1].start)

\* A mini-GOP and its pictures, as they are when it is built: only the last can
\* be a key frame.
MiniGopOK(g, pics) ==
    /\ g.hl \in 0..cfg.hl /\ (cfg.hl > 0 => g.hl > 0) /\ g.len \in Nat \ {0} /\ g.idr \in BOOLEAN
    /\ pics \in Seq(InputPicture) /\ Len(pics) = g.len
    /\ \A i \in 1..(g.len - 1) : ~IsKey(pics[i])
    /\ g.idr <=> pics[g.len].idr
    /\ \A i \in 1..g.len : pics[i].num = Built + i - 1
    /\ LowDelay => g.len = 1

\* The state of the numbering between two mini-GOPs.
PositionInv ==
    /\ cfg.hl \in 0..5 /\ prevLevels \in 0..cfg.hl /\ position \in 0..(EntryCount(prevLevels) - 1)
    /\ afterIntra \in BOOLEAN

\* A picture of the buffer.
LEMMA InputOK ==
    ASSUME NEW g, NEW pics, MiniGopOK(g, pics), NEW i \in 1..g.len
    PROVE  /\ pics[i] \in InputPicture /\ pics[i].num \in Nat
           /\ {pics[i].idr, pics[i].cra, pics[i].eos, IsKey(pics[i])} \subseteq BOOLEAN
           /\ i # g.len => ~IsKey(pics[i]) /\ ~pics[i].idr /\ ~pics[i].cra
           /\ ~g.idr => ~pics[i].idr
<1>1. pics[i] \in InputPicture
  BY DEF MiniGopOK
<1>2. i # g.len => i \in 1..(g.len - 1)
  BY DEF MiniGopOK
<1>3. i # g.len => ~IsKey(pics[i])
  BY <1>2 DEF MiniGopOK
<1>4. {pics[i].idr, pics[i].cra, pics[i].eos, IsKey(pics[i])} \subseteq BOOLEAN /\ pics[i].num \in Nat
  BY <1>1 DEF InputPicture, IsKey
<1>5. i # g.len => ~pics[i].idr /\ ~pics[i].cra
  BY <1>3, <1>4 DEF IsKey
<1>6. g.idr <=> pics[g.len].idr
  BY DEF MiniGopOK
<1>7. ~g.idr => ~pics[i].idr
  <2>1. CASE i = g.len
    BY <1>6, <2>1
  <2>2. CASE i # g.len
    BY <1>5, <2>2
  <2> QED BY <2>1, <2>2
<1> QED BY <1>1, <1>3, <1>4, <1>5, <1>7

\* The levels of its pictures: those of the mini-GOP, but for an instantaneous
\* refresh, which has those of the configuration.
LEMMA LevelsOK ==
    ASSUME NEW g, NEW pics, MiniGopOK(g, pics), PositionInv, NEW i \in 1..g.len
    PROVE  /\ LevelsOf(g, pics[i]) \in 0..cfg.hl /\ LevelsOf(g, pics[i]) \in 0..5
           /\ i # g.len => LevelsOf(g, pics[i]) = g.hl
           /\ ~g.idr => LevelsOf(g, pics[i]) = g.hl
           /\ cfg.hl > 0 => LevelsOf(g, pics[i]) > 0
           /\ g.hl \in 0..5
<1>1. (i # g.len => ~pics[i].idr) /\ (~g.idr => ~pics[i].idr)
  BY InputOK
<1>2. g.hl \in 0..cfg.hl /\ cfg.hl \in 0..5 /\ (cfg.hl > 0 => g.hl > 0)
  BY DEF MiniGopOK, PositionInv
<1> QED BY <1>1, <1>2 DEF LevelsOf

\* A position is one of those of the levels.
LEMMA NextPositionOK ==
    ASSUME NEW g, NEW p, NEW before, NEW just, LevelsOf(g, p) \in 0..5,
           p.idr \/ before \in 0..(EntryCount(LevelsOf(g, p)) - 1)
    PROVE  NextPosition(g, p, before, just) \in 0..(EntryCount(LevelsOf(g, p)) - 1)
<1> DEFINE n == EntryCount(LevelsOf(g, p))
<1>1. n \in Nat \ {0}
  BY EntryCountOK
<1>2. NextPosition(g, p, before, just)
        = IF p.idr \/ (p.cra /\ g.len < n) THEN 0
          ELSE IF (IF just THEN 1 ELSE before + 1) = n THEN 0 ELSE IF just THEN 1 ELSE before + 1
  BY Zenon DEF NextPosition
<1>3. p.idr \/ before \in 0..(n - 1)
  OBVIOUS
<1> SUFFICES NextPosition(g, p, before, just) \in 0..(n - 1)
  OBVIOUS
<1> HIDE DEF n
<1>4. CASE p.idr \/ (p.cra /\ g.len < n)
  BY <1>1, <1>2, <1>4
<1>5. CASE ~(p.idr \/ (p.cra /\ g.len < n)) /\ just
  BY <1>1, <1>2, <1>5
<1>6. CASE ~(p.idr \/ (p.cra /\ g.len < n)) /\ ~just
  BY <1>1, <1>2, <1>3, <1>6
<1> QED BY <1>4, <1>5, <1>6

\* Every picture of a mini-GOP has a position of its levels.
LEMMA PositionsInRange ==
    ASSUME NEW g, NEW pics, MiniGopOK(g, pics), PositionInv
    PROVE  \A i \in 1..g.len :
              Positions(g, pics)[i] \in 0..(EntryCount(LevelsOf(g, pics[i])) - 1)
<1> DEFINE pos == Positions(g, pics)
           Good(i) == pos[i] \in 0..(EntryCount(LevelsOf(g, pics[i])) - 1)
           Bad == {i \in 1..g.len : ~Good(i)}
<1>1. g.len \in Nat \ {0} /\ Len(pics) = g.len
  BY DEF MiniGopOK
<1>2. pos = [i \in 0..g.len |->
               IF i = 0 THEN EntryPosition(g, pics[1])
               ELSE NextPosition(g, pics[i], pos[i - 1], IF i = 1 THEN afterIntra ELSE IsKey(pics[i - 1]))]
  <2>1. PositionsUpTo(g, pics, pos, Len(pics))
    BY <1>1, PositionsOK
  <2> QED BY <1>1, <2>1 DEF PositionsUpTo
<1> SUFFICES ASSUME Bad # {}
             PROVE  FALSE
  OBVIOUS
<1> HIDE DEF pos
<1>3. PICK m \in Bad : \A k \in Bad : m <= k
  <2>1. Bad \in SUBSET Nat
    BY <1>1
  <2> HIDE DEF Bad
  <2> QED BY <2>1, HasSmallest
<1>4. m \in 1..g.len /\ ~Good(m)
  OBVIOUS
<1>5. LevelsOf(g, pics[m]) \in 0..5
  BY <1>4, LevelsOK
<1>6. pos[m] = NextPosition(g, pics[m], pos[m - 1], IF m = 1 THEN afterIntra ELSE IsKey(pics[m - 1]))
  <2>1. m \in 0..g.len /\ m # 0
    BY <1>1, <1>4
  <2> QED BY <1>2, <2>1, Zenon
<1>7. pics[m].idr \/ pos[m - 1] \in 0..(EntryCount(LevelsOf(g, pics[m])) - 1)
  <2>1. CASE m = 1
    <3>1. 0 \in 0..g.len
      BY <1>1
    <3>2. pos[0] = EntryPosition(g, pics[1])
      BY <1>2, <3>1, Zenon
    <3>3. EntryCount(LevelsOf(g, pics[1])) \in Nat \ {0}
      BY <1>5, <2>1, EntryCountOK
    <3>4. EntryPosition(g, pics[1]) \in 0..(EntryCount(LevelsOf(g, pics[1])) - 1)
      <4>1. CASE prevLevels # LevelsOf(g, pics[1])
        BY <3>3, <4>1 DEF EntryPosition
      <4>2. CASE prevLevels = LevelsOf(g, pics[1])
        <5>1. EntryPosition(g, pics[1]) = position
          BY <4>2, Zenon DEF EntryPosition
        <5> QED BY <4>2, <5>1 DEF PositionInv
      <4> QED BY <4>1, <4>2
    <3> QED BY <2>1, <3>2, <3>4
  <2>2. CASE m # 1
    <3>1. m - 1 \in 1..g.len /\ m - 1 # g.len /\ ~(m <= m - 1)
      BY <1>1, <1>4, <2>2
    <3>2. m - 1 \notin Bad
      <4> HIDE DEF Bad
      <4> QED BY <1>3, <3>1
    <3>3. Good(m - 1)
      BY <3>1, <3>2
    <3>4. LevelsOf(g, pics[m - 1]) = g.hl
      BY <3>1, LevelsOK
    <3>5. ~pics[m].idr => LevelsOf(g, pics[m]) = g.hl
      BY Zenon DEF LevelsOf
    <3> QED BY <3>3, <3>4, <3>5
  <2> QED BY <2>1, <2>2
<1>8. Good(m)
  BY <1>5, <1>6, <1>7, NextPositionOK
<1> QED BY <1>4, <1>8

\* In a complete mini-GOP the positions follow one another round the pyramid.
LEMMA PositionsGoRound ==
    ASSUME NEW g, NEW pics, MiniGopOK(g, pics), PositionInv, ~g.idr, g.len = EntryCount(g.hl)
    PROVE  \E from \in 0..(g.len - 1) : \A i \in 1..g.len :
              Positions(g, pics)[i] = IF from + i - 1 < g.len THEN from + i - 1 ELSE from + i - 1 - g.len
<1> DEFINE pos == Positions(g, pics)
           n == g.len
           from == pos[1]
           Good(i) == pos[i] = IF from + i - 1 < n THEN from + i - 1 ELSE from + i - 1 - n
           Bad == {i \in 1..n : ~Good(i)}
<1>1. n \in Nat \ {0} /\ Len(pics) = n
  BY DEF MiniGopOK
<1>2. \A i \in 0..n : i # 0 =>
         pos[i] = NextPosition(g, pics[i], pos[i - 1], IF i = 1 THEN afterIntra ELSE IsKey(pics[i - 1]))
  <2>1. PositionsUpTo(g, pics, pos, Len(pics))
    BY <1>1, PositionsOK
  <2>2. pos = [i \in 0..n |->
               IF i = 0 THEN EntryPosition(g, pics[1])
               ELSE NextPosition(g, pics[i], pos[i - 1], IF i = 1 THEN afterIntra ELSE IsKey(pics[i - 1]))]
    BY <1>1, <2>1 DEF PositionsUpTo
  <2> HIDE DEF pos, n
  <2> QED BY <2>2, Zenon
<1>3. \A i \in 1..n : LevelsOf(g, pics[i]) = g.hl /\ ~pics[i].idr
  BY LevelsOK, InputOK
<1>4. \A i \in 1..n : pos[i] \in 0..(n - 1)
  BY <1>3, PositionsInRange
<1>5. from \in 0..(n - 1)
  BY <1>1, <1>4
<1>6. \A i \in 1..n : Good(i)
  <2> SUFFICES ASSUME Bad # {}
               PROVE  FALSE
    OBVIOUS
  <2> HIDE DEF pos, n
  <2>1. PICK m \in Bad : \A k \in Bad : m <= k
    <3>1. Bad \in SUBSET Nat
      BY <1>1
    <3> HIDE DEF Bad
    <3> QED BY <3>1, HasSmallest
  <2>2. m \in 1..n /\ ~Good(m)
    OBVIOUS
  <2>3. m # 1
    BY <1>1, <1>5, <2>2
  <2>4. m - 1 \in 1..n /\ ~(m <= m - 1) /\ m \in 0..n /\ m # 0 /\ m - 1 # n
    BY <1>1, <2>2, <2>3
  <2>5. m - 1 \notin Bad
    <3> HIDE DEF Bad
    <3> QED BY <2>1, <2>4
  <2>6. Good(m - 1)
    BY <2>4, <2>5
  <2>7. ~IsKey(pics[m - 1])
    BY <2>4, InputOK DEF n
  <2>8. pos[m] = NextPosition(g, pics[m], pos[m - 1], FALSE)
    <3>1. pos[m] = NextPosition(g, pics[m], pos[m - 1], IF m = 1 THEN afterIntra ELSE IsKey(pics[m - 1]))
      BY <1>2, <2>4
    <3>2. (IF m = 1 THEN afterIntra ELSE IsKey(pics[m - 1])) = FALSE
      BY <2>3, <2>7 DEF IsKey
    <3> QED BY <3>1, <3>2
  <2>9. pos[m] = IF pos[m - 1] + 1 = n THEN 0 ELSE pos[m - 1] + 1
    <3>1. LevelsOf(g, pics[m]) = g.hl /\ ~pics[m].idr /\ EntryCount(g.hl) = n /\ g.len = n /\ ~(n < n)
      BY <1>1, <1>3, <2>2 DEF n
    <3>2. NextPosition(g, pics[m], pos[m - 1], FALSE) = IF pos[m - 1] + 1 = n THEN 0 ELSE pos[m - 1] + 1
      BY <3>1 DEF NextPosition
    <3> QED BY <2>8, <3>2
  <2>10. pos[m - 1] \in 0..(n - 1)
    BY <1>4, <2>4
  <2> DEFINE q == pos[m - 1]
             f == from
  <2>11. q = IF f + (m - 1) - 1 < n THEN f + (m - 1) - 1 ELSE f + (m - 1) - 1 - n
    BY <2>6
  <2>12. ~(pos[m] = IF f + m - 1 < n THEN f + m - 1 ELSE f + m - 1 - n) /\ f \in 0..(n - 1) /\ q \in 0..(n - 1)
         /\ pos[m] = IF q + 1 = n THEN 0 ELSE q + 1
    BY <1>5, <2>2, <2>9, <2>10
  <2> HIDE DEF q, f
  <2> QED BY <1>1, <2>2, <2>11, <2>12
<1>7. /\ Positions(g, pics)[1] \in 0..(g.len - 1)
      /\ \A i \in 1..g.len :
            Positions(g, pics)[i] = IF Positions(g, pics)[1] + i - 1 < g.len
                                    THEN Positions(g, pics)[1] + i - 1
                                    ELSE Positions(g, pics)[1] + i - 1 - g.len
  BY <1>5, <1>6, Zenon
<1> QED BY ONLY <1>7, Zenon

-----------------------------------------------------------------------------
(* Orders.                                                                  *)

\* Pictures that are numbered from a base on, each number once.
Numbered(pics, n, base) ==
    /\ DOMAIN pics = 1..n
    /\ \A i \in 1..n : pics[i].dec \in base..(base + n - 1)
    /\ \A i, j \in 1..n : pics[i].dec = pics[j].dec => i = j
    /\ \A d \in base..(base + n - 1) : \E i \in 1..n : pics[i].dec = d

\* The same pictures, in the order of their numbers.
Ordered(q, pics, n, base) ==
    /\ DOMAIN q = 1..n
    /\ \A k \in 1..n : \E i \in 1..n : q[k] = pics[i] /\ pics[i].dec = base + k - 1

\* This is how they come out.
LEMMA InDecodeOrderOK ==
    ASSUME NEW n \in Nat, NEW pics, NEW base \in Nat, Numbered(pics, n, base)
    PROVE  Ordered(InDecodeOrder(pics), pics, n, base)
<1>0. /\ DOMAIN pics = 1..n
      /\ \A i \in 1..n : pics[i].dec \in base..(base + n - 1)
      /\ \A i, j \in 1..n : pics[i].dec = pics[j].dec => i = j
      /\ \A d \in base..(base + n - 1) : \E i \in 1..n : pics[i].dec = d
  BY DEF Numbered
<1> DEFINE Rank(i) == Cardinality(DecodedBefore(pics, i))
<1>1. ASSUME NEW i \in 1..n
      PROVE  Rank(i) = pics[i].dec - base
  <2> DEFINE S == DecodedBefore(pics, i)
             d == pics[i].dec
             T == base..(d - 1)
             f == [j \in S |-> pics[j].dec]
  <2>1. d \in base..(base + n - 1) /\ d \in Nat
    BY <1>0, <1>1
  <2>2. \A j \in 1..n : j \in S <=> pics[j].dec < d
    <3> TAKE j \in 1..n
    <3>1. j \in S <=> pics[j].dec < d \/ (pics[j].dec = d /\ j < i)
      BY <1>0 DEF DecodedBefore
    <3>2. pics[j].dec = d => j = i
      BY <1>0, <1>1
    <3> QED BY <1>1, <3>1, <3>2
  <2>3. S \subseteq 1..n
    BY <1>0 DEF DecodedBefore
  <2> HIDE DEF d, S
  <2>4. f \in [S -> T]
    BY <1>0, <2>1, <2>2, <2>3
  <2>5. f \in Bijection(S, T)
    <3>1. \A a, b \in S : f[a] = f[b] => a = b
      BY <1>0, <2>3
    <3>2. \A t \in T : \E j \in S : f[j] = t
      <4> TAKE t \in T
      <4>1. t \in base..(base + n - 1) /\ t < d
        BY <2>1
      <4>2. PICK j \in 1..n : pics[j].dec = t
        BY <1>0, <4>1
      <4> QED BY <2>2, <4>1, <4>2
    <3> HIDE DEF f, T
    <3> QED BY <2>4, <3>1, <3>2 DEF Bijection, Injection, Surjection, IsInjective
  <2>6. IsFiniteSet(T) /\ Cardinality(T) = d - base
    <3>1. base \in Int /\ d - 1 \in Int
      BY <2>1
    <3>2. IsFiniteSet(T) /\ Cardinality(T) = IF base > d - 1 THEN 0 ELSE (d - 1) - base + 1
      BY <3>1, FS_Interval
    <3> QED BY <2>1, <3>2
  <2>7. ExistsBijection(S, T)
    BY <2>5 DEF ExistsBijection
  <2>8. Cardinality(S) = Cardinality(T)
    <3>1. IsFiniteSet(S)
      <4>1. IsFiniteSet(1..n)
        BY FS_Interval
      <4> QED BY <2>3, <4>1, FS_Subset
    <3> HIDE DEF T
    <3> QED BY <2>7, <3>1, FS_Bijection
  <2> QED BY <2>6, <2>8 DEF S, d
<1>2. DOMAIN InDecodeOrder(pics) = 1..n
  BY <1>0 DEF InDecodeOrder
<1>3. ASSUME NEW k \in 1..n
      PROVE  \E i \in 1..n : InDecodeOrder(pics)[k] = pics[i] /\ pics[i].dec = base + k - 1
  <2> DEFINE c == CHOOSE i \in 1..n : Rank(i) = k - 1
  <2>1. InDecodeOrder(pics)[k] = pics[c]
    BY <1>0, <1>3 DEF InDecodeOrder
  <2> HIDE DEF Rank
  <2>2. PICK i \in 1..n : pics[i].dec = base + k - 1
    <3>1. base + k - 1 \in base..(base + n - 1)
      BY <1>3
    <3> QED BY <1>0, <3>1
  <2>3. Rank(i) = k - 1
    BY <1>1, <1>3, <2>2
  <2>4. c \in 1..n /\ Rank(c) = k - 1
    BY <2>3
  <2> HIDE DEF c
  <2>5. pics[c].dec = base + k - 1
    <3>1. pics[c].dec - base = k - 1 /\ pics[c].dec \in base..(base + n - 1)
      BY <1>0, <1>1, <2>4
    <3> QED BY <1>3, <3>1
  <2> QED BY <2>1, <2>4, <2>5
<1>4. \A k \in 1..n : \E i \in 1..n : InDecodeOrder(pics)[k] = pics[i] /\ pics[i].dec = base + k - 1
  BY <1>3
<1> QED BY <1>2, <1>4 DEF Ordered

\* The first m pictures, as they are.
LEMMA ThoseFirst ==
    ASSUME NEW m \in Nat, NEW pics
    PROVE  Those(pics, 1..m) = [k \in 1..m |-> pics[k]]
<1>1. Cardinality(1..m) = m
  BY FS_Interval
<1>2. ASSUME NEW k \in 1..m
      PROVE  (CHOOSE i \in 1..m : Cardinality({j \in 1..m : j < i}) = k - 1) = k
  <2>1. ASSUME NEW i \in 1..m
        PROVE  Cardinality({j \in 1..m : j < i}) = i - 1
    <3>1. {j \in 1..m : j < i} = 1..(i - 1)
      BY <2>1
    <3>2. Cardinality(1..(i - 1)) = i - 1
      BY <2>1, FS_Interval
    <3> QED BY <3>1, <3>2
  <2> DEFINE R(i) == Cardinality({j \in 1..m : j < i})
  <2>2. \A i \in 1..m : R(i) = i - 1
    BY <2>1
  <2> HIDE DEF R
  <2>3. (CHOOSE i \in 1..m : R(i) = k - 1) = k
    <3>1. R(k) = k - 1
      BY <1>2, <2>2
    <3>2. \A i \in 1..m : R(i) = k - 1 => i = k
      BY <1>2, <2>2
    <3> QED BY <1>2, <3>1, <3>2
  <2> QED BY <2>3 DEF R
<1> DEFINE C(k) == CHOOSE i \in 1..m : Cardinality({j \in 1..m : j < i}) = k - 1
<1>3. Those(pics, 1..m) = [k \in 1..Cardinality(1..m) |-> pics[C(k)]]
  BY Zenon DEF Those
<1>4. \A k \in 1..m : C(k) = k
  BY <1>2
<1> HIDE DEF C
<1> QED BY <1>1, <1>3, <1>4

\* One picture.
LEMMA ThoseOne ==
    ASSUME NEW m \in Nat, NEW pics
    PROVE  Those(pics, {m}) = [k \in 1..1 |-> pics[m]]
<1>1. Cardinality({m}) = 1
  BY FS_Singleton
<1>2. (CHOOSE i \in {m} : Cardinality({j \in {m} : j < i}) = 1 - 1) = m
  <2>1. {j \in {m} : j < m} = {}
    OBVIOUS
  <2>2. Cardinality({j \in {m} : j < m}) = 1 - 1
    BY <2>1, FS_EmptySet
  <2> QED BY <2>2
<1> DEFINE C(k) == CHOOSE i \in {m} : Cardinality({j \in {m} : j < i}) = k - 1
<1>3. Those(pics, {m}) = [k \in 1..Cardinality({m}) |-> pics[C(k)]]
  BY Zenon DEF Those
<1>4. C(1) = m
  BY <1>2
<1> HIDE DEF C
<1>5. \A k \in 1..1 : C(k) = m
  BY <1>4
<1> QED BY <1>1, <1>3, <1>5

\* None.
LEMMA ThoseNone ==
    ASSUME NEW pics
    PROVE  Those(pics, {}) = [k \in 1..0 |-> pics[k]]
<1>1. Cardinality({}) = 0
  BY FS_EmptySet
<1> QED BY <1>1 DEF Those

-----------------------------------------------------------------------------
(* Splitting the buffer.                                                    *)

\* A mini-GOP of the buffer.
Piece == [start : Nat, len : Nat \ {0}, hl : 0..5, idr : BOOLEAN]

\* The level of a piece is one that fits; five levels only where there are
\* pictures enough, and no key frame right after them.
LEMMA PieceLevelOK ==
    ASSUME NEW left \in Nat \ {0}, NEW idr \in BOOLEAN, NEW top \in 1..5, left <= EntryCount(top)
    PROVE  /\ PieceLevel(left, idr) \in 1..top
           /\ PieceLevel(left, idr) = 5 => 32 <= left /\ ~(32 = left /\ idr)
<1> DEFINE fits == {k \in 1..5 : 2^k <= left /\ ~(2^k = left /\ idr /\ k > 1)}
           c == CHOOSE k \in fits : \A j \in fits : j <= k
<1>1. PieceLevel(left, idr) = IF fits = {} THEN 1 ELSE c
  BY DEF PieceLevel
<1>2. ASSUME NEW k \in fits
      PROVE  k \in 1..top /\ (k = 5 => 32 <= left /\ ~(32 = left /\ idr))
  <2>1. k \in 1..5 /\ 2^k <= left /\ ~(2^k = left /\ idr /\ k > 1)
    OBVIOUS
  <2>2. 2^k = EntryCount(k) /\ k \in 0..5 /\ top \in 0..5
    BY <2>1 DEF EntryCount
  <2>3. k <= top
    <3>1. top = 1 \/ top = 2 \/ top = 3 \/ top = 4 \/ top = 5
      OBVIOUS
    <3>2. k = 1 \/ k = 2 \/ k = 3 \/ k = 4 \/ k = 5
      BY <2>1
    <3> HIDE DEF fits
    <3> QED BY <2>1, <2>2, <3>1, <3>2, EntryCounts
  <2> HIDE DEF fits
  <2> QED BY <2>1, <2>2, <2>3, EntryCounts
<1>3. ASSUME fits # {}
      PROVE  c \in fits
  <2>1. fits \subseteq 1..5
    OBVIOUS
  <2> HIDE DEF fits
  <2>2. \E k \in fits : \A j \in fits : j <= k
    <3>1. CASE 5 \in fits
      BY <2>1, <3>1
    <3>2. CASE 5 \notin fits /\ 4 \in fits
      BY <2>1, <3>2
    <3>3. CASE 5 \notin fits /\ 4 \notin fits /\ 3 \in fits
      BY <2>1, <3>3
    <3>4. CASE 5 \notin fits /\ 4 \notin fits /\ 3 \notin fits /\ 2 \in fits
      BY <2>1, <3>4
    <3>5. CASE 5 \notin fits /\ 4 \notin fits /\ 3 \notin fits /\ 2 \notin fits
      <4>1. \A j \in fits : j = 1
        BY <2>1, <3>5
      <4>2. 1 \in fits
        BY <1>3, <4>1
      <4> QED BY <4>1, <4>2
    <3> QED BY <3>1, <3>2, <3>3, <3>4, <3>5
  <2> QED BY <2>2
<1> HIDE DEF fits, c
<1> QED BY <1>1, <1>2, <1>3

\* The length of the next piece, and the piece.
PieceLen(left, idr) == IF 2^PieceLevel(left, idr) < left THEN 2^PieceLevel(left, idr) ELSE left
PieceAt(count, idr, left) ==
    [start |-> count - left, len |-> PieceLen(left, idr), hl |-> PieceLevel(left, idr),
     idr |-> idr /\ PieceLen(left, idr) = left]

\* A piece has a picture, and no more than are left.
LEMMA PieceLenOK ==
    ASSUME NEW left \in Nat \ {0}, NEW idr \in BOOLEAN, NEW top \in 1..5, left <= EntryCount(top)
    PROVE  PieceLen(left, idr) \in 1..left
<1>1. PieceLevel(left, idr) \in 0..5
  BY PieceLevelOK
<1>2. 2^PieceLevel(left, idr) \in Nat \ {0}
  BY <1>1, EntryCountOK
<1> QED BY <1>2 DEF PieceLen

\* The splits of what is left, up to n pictures.
PiecesUpTo(count, idr, f, n) ==
    f = [left \in 0..n |-> IF left = 0 THEN <<>>
                           ELSE <<PieceAt(count, idr, left)>> \o f[left - PieceLen(left, idr)]]

\* Each split follows from that of fewer pictures.
LEMMA PiecesSolvable ==
    ASSUME NEW count \in Nat, NEW idr \in BOOLEAN, NEW top \in 1..5, count <= EntryCount(top)
    PROVE  \A n \in 0..count : \E f : PiecesUpTo(count, idr, f, n)
<1> DEFINE Step(left, s) == <<PieceAt(count, idr, left)>> \o s
           Bad == {n \in 0..count : ~\E f : PiecesUpTo(count, idr, f, n)}
<1>1. \A f, n : PiecesUpTo(count, idr, f, n)
                  <=> f = [left \in 0..n |-> IF left = 0 THEN <<>> ELSE Step(left, f[left - PieceLen(left, idr)])]
  BY Zenon DEF PiecesUpTo
<1>2. \A left \in 1..count : PieceLen(left, idr) \in 1..left
  <2> TAKE left \in 1..count
  <2>1. left \in Nat \ {0} /\ left <= EntryCount(top)
    <3>1. EntryCount(top) \in Nat
      BY EntryCountOK
    <3> QED BY <3>1
  <2> QED BY <2>1, PieceLenOK
<1> HIDE DEF Step
<1> SUFFICES ASSUME Bad # {}
             PROVE  FALSE
  OBVIOUS
<1>3. PICK m \in Bad : \A k \in Bad : m <= k
  <2>1. Bad \in SUBSET Nat
    OBVIOUS
  <2> HIDE DEF Bad
  <2> QED BY <2>1, HasSmallest
<1>4. m \in 0..count /\ ~\E f : PiecesUpTo(count, idr, f, m)
  OBVIOUS
<1>5. m # 0
  <2> DEFINE f == [left \in 0..0 |-> <<>>]
  <2>1. f = [left \in 0..0 |-> IF left = 0 THEN <<>> ELSE Step(left, f[left - PieceLen(left, idr)])]
    OBVIOUS
  <2> HIDE DEF f
  <2> QED BY <1>1, <1>4, <2>1
<1>6. m - 1 \in 0..count /\ m - 1 \notin Bad
  <2>1. m - 1 \in 0..count /\ ~(m <= m - 1)
    BY <1>4, <1>5
  <2> HIDE DEF Bad
  <2> QED BY <1>3, <2>1
<1>7. PICK f : f = [left \in 0..(m - 1) |-> IF left = 0 THEN <<>> ELSE Step(left, f[left - PieceLen(left, idr)])]
  BY <1>1, <1>6
<1> DEFINE h == [left \in 0..m |-> IF left = 0 THEN <<>> ELSE Step(left, f[left - PieceLen(left, idr)])]
<1>8. h = [left \in 0..m |-> IF left = 0 THEN <<>> ELSE Step(left, h[left - PieceLen(left, idr)])]
  <2>1. ASSUME NEW i \in 0..(m - 1)
        PROVE  f[i] = h[i]
    BY <1>4, <1>7, <2>1
  <2>2. ASSUME NEW i \in 0..m, i # 0
        PROVE  Step(i, f[i - PieceLen(i, idr)]) = Step(i, h[i - PieceLen(i, idr)])
    <3>1. i - PieceLen(i, idr) \in 0..(m - 1)
      BY <1>2, <1>4, <2>2
    <3>2. f[i - PieceLen(i, idr)] = h[i - PieceLen(i, idr)]
      BY <2>1, <3>1
    <3> QED BY <3>2
  <2> QED BY <2>2
<1> HIDE DEF h
<1> QED BY <1>1, <1>4, <1>8

\* The pieces of a buffer of so many pictures are the last of these.
LEMMA PiecesAre ==
    ASSUME NEW count \in Nat, NEW idr \in BOOLEAN, NEW top \in 1..5, count <= EntryCount(top)
    PROVE  \E f : PiecesUpTo(count, idr, f, count) /\ Pieces(count, idr) = f[count]
<1> DEFINE A == CHOOSE f : f = [left \in 0..count |->
                   IF left = 0 THEN <<>>
                   ELSE <<PieceAt(count, idr, left)>> \o f[left - PieceLen(left, idr)]]
<1>1. Pieces(count, idr) = A[count]
  BY Zenon DEF Pieces, PieceAt, PieceLen
<1>2. \E f : PiecesUpTo(count, idr, f, count)
  BY PiecesSolvable
<1>3. PiecesUpTo(count, idr, A, count)
  BY <1>2, Zenon DEF PiecesUpTo
<1> HIDE DEF A
<1> QED BY <1>1, <1>3

\* Pieces that follow one another from a picture on, up to the end of the buffer;
\* the last is that of the key frame, if there is one.
GoodPieces(m, from, count, idr, top) ==
    /\ m \in Seq(Piece)
    /\ \A k \in 1..Len(m) : /\ m[k].start + m[k].len <= count /\ m[k].hl \in 1..top
                            /\ m[k].idr <=> m[k].start + m[k].len = count /\ idr
    /\ \A k \in 1..(Len(m) - 1) : m[k + 1].start = m[k].start + m[k].len
    /\ m = <<>> <=> from = count
    /\ m # <<>> => m[1].start = from /\ m[Len(m)].start + m[Len(m)].len = count

\* A sequence with one more in front.
LEMMA Prepended ==
    ASSUME NEW S, NEW x \in S, NEW s \in Seq(S)
    PROVE  /\ <<x>> \o s \in Seq(S) /\ Len(<<x>> \o s) = Len(s) + 1 /\ Len(s) \in Nat
           /\ <<x>> \o s # <<>> /\ (<<x>> \o s)[1] = x
           /\ \A k \in 1..Len(s) : (<<x>> \o s)[k + 1] = s[k]
           /\ \A k \in 2..(Len(s) + 1) : (<<x>> \o s)[k] = s[k - 1]
<1>1. <<x>> \in Seq(S) /\ Len(<<x>>) = 1 /\ <<x>>[1] = x
  OBVIOUS
<1>2. Len(s) \in Nat
  OBVIOUS
<1>3. /\ <<x>> \o s \in Seq(S)
      /\ Len(<<x>> \o s) = Len(<<x>>) + Len(s)
      /\ \A i \in 1..(Len(<<x>>) + Len(s)) :
            (<<x>> \o s)[i] = IF i <= Len(<<x>>) THEN <<x>>[i] ELSE s[i - Len(<<x>>)]
  BY <1>1, ConcatProperties
<1> DEFINE t == <<x>> \o s
<1>4. t \in Seq(S) /\ Len(t) = Len(s) + 1 /\ \A i \in 1..(Len(s) + 1) : t[i] = IF i <= 1 THEN <<x>>[i] ELSE s[i - 1]
  BY <1>1, <1>2, <1>3
<1> HIDE DEF t
<1>5. t # <<>> /\ t[1] = x
  BY <1>1, <1>2, <1>4
<1>6. \A k \in 2..(Len(s) + 1) : t[k] = s[k - 1]
  BY <1>2, <1>4
<1>7. \A k \in 1..Len(s) : t[k + 1] = s[k]
  <2> TAKE k \in 1..Len(s)
  <2>1. k + 1 \in 2..(Len(s) + 1) /\ (k + 1) - 1 = k
    BY <1>2
  <2> QED BY <1>6, <2>1
<1> QED BY <1>2, <1>4, <1>5, <1>6, <1>7 DEF t

\* Good pieces with one more in front of them are good pieces.
LEMMA GoodPiecesGrow ==
    ASSUME NEW count \in Nat, NEW idr \in BOOLEAN, NEW top \in 1..5, NEW p \in Piece, NEW m,
           p.start + p.len <= count, p.hl \in 1..top, p.idr <=> p.start + p.len = count /\ idr,
           GoodPieces(m, p.start + p.len, count, idr, top)
    PROVE  GoodPieces(<<p>> \o m, p.start, count, idr, top)
<1> DEFINE t == <<p>> \o m
           n == Len(m)
<1>1. m \in Seq(Piece)
  BY DEF GoodPieces
<1>2. /\ t \in Seq(Piece) /\ Len(t) = n + 1 /\ n \in Nat /\ t # <<>> /\ t[1] = p
      /\ \A k \in 1..n : t[k + 1] = m[k]
      /\ \A k \in 2..(n + 1) : t[k] = m[k - 1]
  BY <1>1, Prepended
<1>3. p.start \in Nat /\ p.len \in Nat \ {0}
  BY DEF Piece
<1>4. n = 0 <=> m = <<>>
  BY <1>1
<1>5. /\ \A k \in 1..n : /\ m[k].start + m[k].len <= count /\ m[k].hl \in 1..top
                         /\ m[k].idr <=> m[k].start + m[k].len = count /\ idr
      /\ \A k \in 1..(n - 1) : m[k + 1].start = m[k].start + m[k].len
      /\ m = <<>> <=> p.start + p.len = count
      /\ m # <<>> => m[1].start = p.start + p.len /\ m[n].start + m[n].len = count
  BY DEF GoodPieces
<1> HIDE DEF t, n
<1>6. ASSUME NEW k \in 1..(n + 1)
      PROVE  /\ t[k].start + t[k].len <= count /\ t[k].hl \in 1..top
             /\ t[k].idr <=> t[k].start + t[k].len = count /\ idr
  <2>1. CASE k = 1
    BY <1>2, <2>1
  <2>2. CASE k # 1
    <3>1. k \in 2..(n + 1) /\ k - 1 \in 1..n
      BY <1>2, <2>2
    <3>2. t[k] = m[k - 1]
      BY <1>2, <3>1
    <3> QED BY <1>5, <3>1, <3>2
  <2> QED BY <2>1, <2>2
<1>7. ASSUME NEW k \in 1..n
      PROVE  t[k + 1].start = t[k].start + t[k].len
  <2>1. t[k + 1] = m[k] /\ m # <<>>
    BY <1>2, <1>4, <1>7
  <2>2. CASE k = 1
    BY <1>2, <1>5, <2>1, <2>2
  <2>3. CASE k # 1
    <3>1. k \in 2..(n + 1) /\ k - 1 \in 1..(n - 1) /\ (k - 1) + 1 = k
      BY <1>2, <2>3
    <3>2. t[k] = m[k - 1] /\ m[(k - 1) + 1].start = m[k - 1].start + m[k - 1].len
      BY <1>2, <1>5, <3>1
    <3> QED BY <2>1, <3>1, <3>2
  <2> QED BY <2>2, <2>3
<1>8. t[n + 1].start + t[n + 1].len = count
  <2>1. CASE n = 0
    BY <1>2, <1>4, <1>5, <2>1
  <2>2. CASE n # 0
    <3>1. n \in 1..n /\ m # <<>>
      BY <1>2, <1>4, <2>2
    <3> QED BY <1>2, <1>5, <3>1
  <2> QED BY <2>1, <2>2
<1>9. p.start # count
  BY <1>3
<1>10. /\ Len(t) = n + 1 /\ (n + 1) - 1 = n
  BY <1>2
<1> QED BY <1>2, <1>6, <1>7, <1>8, <1>9, <1>10 DEF GoodPieces, t

\* The split of a buffer is good pieces, from its first picture on.
LEMMA PiecesOK ==
    ASSUME NEW count \in Nat \ {0}, NEW idr \in BOOLEAN, NEW top \in 1..5, count <= EntryCount(top)
    PROVE  /\ GoodPieces(Pieces(count, idr), 0, count, idr, top)
           /\ Pieces(count, idr)[1] = PieceAt(count, idr, count)
<1>1. PICK f : PiecesUpTo(count, idr, f, count) /\ Pieces(count, idr) = f[count]
  BY PiecesAre
<1>2. /\ f[0] = <<>>
      /\ \A left \in 1..count : f[left] = <<PieceAt(count, idr, left)>> \o f[left - PieceLen(left, idr)]
  <2>1. f = [left \in 0..count |-> IF left = 0 THEN <<>>
                           ELSE <<PieceAt(count, idr, left)>> \o f[left - PieceLen(left, idr)]]
    BY <1>1 DEF PiecesUpTo
  <2>2. \A left \in 0..count : f[left] = IF left = 0 THEN <<>>
                           ELSE <<PieceAt(count, idr, left)>> \o f[left - PieceLen(left, idr)]
    BY <2>1, Zenon
  <2>3. 0 \in 0..count
    OBVIOUS
  <2>4. ASSUME NEW left \in 1..count
        PROVE  f[left] = <<PieceAt(count, idr, left)>> \o f[left - PieceLen(left, idr)]
    <3>1. left \in 0..count /\ left # 0
      OBVIOUS
    <3> QED BY <2>2, <3>1, Zenon
  <2> QED BY <2>2, <2>3, <2>4
<1>3. \A left \in 1..count : /\ left \in Nat \ {0} /\ left <= EntryCount(top)
                             /\ PieceLen(left, idr) \in 1..left /\ PieceLevel(left, idr) \in 1..top
  <2> TAKE left \in 1..count
  <2>1. left \in Nat \ {0} /\ left <= EntryCount(top)
    <3>1. EntryCount(top) \in Nat
      BY EntryCountOK
    <3> QED BY <3>1
  <2> QED BY <2>1, PieceLenOK, PieceLevelOK
<1> DEFINE Good(left) == GoodPieces(f[left], count - left, count, idr, top)
           Bad == {left \in 0..count : ~Good(left)}
<1>4. \A left \in 0..count : Good(left)
  <2> SUFFICES ASSUME Bad # {}
               PROVE  FALSE
    OBVIOUS
  <2>1. PICK m \in Bad : \A k \in Bad : m <= k
    <3>1. Bad \in SUBSET Nat
      OBVIOUS
    <3> HIDE DEF Bad
    <3> QED BY <3>1, HasSmallest
  <2>2. m \in 0..count /\ ~Good(m)
    OBVIOUS
  <2>3. m # 0
    <3>1. Good(0)
      <4>1. GoodPieces(<<>>, count, count, idr, top)
        BY DEF GoodPieces
      <4> QED BY <1>2, <4>1
    <3> QED BY <2>2, <3>1
  <2>4. m \in 1..count
    BY <2>2, <2>3
  <2> DEFINE len == PieceLen(m, idr)
             p == PieceAt(count, idr, m)
             rest == f[m - len]
  <2>5. len \in 1..m /\ m - len \in 0..count /\ ~(m <= m - len)
    BY <1>3, <2>4
  <2>6. GoodPieces(rest, count - (m - len), count, idr, top)
    <3>1. m - len \notin Bad
      <4> HIDE DEF Bad, len
      <4> QED BY <2>1, <2>5
    <3> HIDE DEF len
    <3> QED BY <2>5, <3>1
  <2>7. p = [start |-> count - m, len |-> len, hl |-> PieceLevel(m, idr), idr |-> idr /\ len = m]
    BY DEF PieceAt
  <2>8. f[m] = <<p>> \o rest
    BY <1>2, <2>4
  <2>9. PieceLevel(m, idr) \in 1..top
    BY <1>3, <2>4
  <2> HIDE DEF len, p, rest
  <2>10. /\ p \in Piece /\ p.start = count - m /\ p.start + p.len = count - (m - len) /\ p.start + p.len <= count
         /\ p.hl \in 1..top /\ (p.idr <=> p.start + p.len = count /\ idr)
    <3>1. p.start = count - m /\ p.len = len /\ p.hl = PieceLevel(m, idr) /\ p.idr = (idr /\ len = m)
      BY <2>7
    <3>2. count - m \in Nat /\ len \in Nat \ {0} /\ count - m + len = count - (m - len)
          /\ count - m + len <= count /\ (count - m + len = count <=> len = m)
      BY <2>4, <2>5
    <3>3. (idr /\ len = m) \in BOOLEAN /\ PieceLevel(m, idr) \in 0..5
      BY <2>9
    <3>4. p \in Piece
      BY <2>7, <3>2, <3>3 DEF Piece
    <3>5. p.idr <=> p.start + p.len = count /\ idr
      BY <3>1, <3>2
    <3> QED BY <2>9, <3>1, <3>2, <3>4, <3>5
  <2>11. GoodPieces(rest, p.start + p.len, count, idr, top)
    BY <2>6, <2>10
  <2>12. GoodPieces(<<p>> \o rest, p.start, count, idr, top)
    BY <2>10, <2>11, GoodPiecesGrow
  <2>13. Good(m)
    BY <2>8, <2>10, <2>12
  <2> QED BY <2>2, <2>13
<1>5. GoodPieces(f[count], count - count, count, idr, top)
  <2>1. count \in 0..count
    OBVIOUS
  <2> QED BY <1>4, <2>1
<1>6. count - count = 0
  OBVIOUS
<1>7. f[count][1] = PieceAt(count, idr, count)
  <2> DEFINE r == count - PieceLen(count, idr)
             p == PieceAt(count, idr, count)
  <2>1. count \in 1..count
    OBVIOUS
  <2>2. PieceLen(count, idr) \in 1..count /\ PieceLevel(count, idr) \in 1..top
    BY <1>3, <2>1
  <2>3. r \in 0..count
    BY <2>2
  <2>4. f[r] \in Seq(Piece)
    <3> HIDE DEF r
    <3> QED BY <1>4, <2>3 DEF GoodPieces
  <2>5. p \in Piece
    BY <2>2 DEF PieceAt, Piece
  <2>6. f[count] = <<p>> \o f[r]
    BY <1>2, <2>1
  <2> HIDE DEF p, r
  <2>7. f[count][1] = p
    BY <2>4, <2>5, <2>6, Prepended
  <2> QED BY <2>7 DEF p
<1> QED BY <1>1, <1>5, <1>6, <1>7

-----------------------------------------------------------------------------
(* The inductive invariant, part by part.                                   *)

\* The buffer: consecutive pictures up to the one placed last, of which only the
\* last can be a key frame; never more than a mini-GOP holds.
WindowInv ==
    /\ cfg \in Configs /\ phase \in {"place", "split", "build", "decide", "assign"}
    /\ poc \in None..(cfg.pictures - 1)
    /\ window \in Seq(InputPicture) /\ Len(window) <= poc + 1
    /\ \A i \in 1..Len(window) : window[i].num = poc - Len(window) + i
    /\ \A i \in 1..(Len(window) - 1) : ~IsKey(window[i])
    /\ startup \in BOOLEAN /\ (startup => cfg.startup # 0)
    /\ phase = "place" => /\ \A i \in 1..Len(window) : ~IsKey(window[i])
                          /\ Len(window) < EntryCount(NextLevels)
                          /\ LowDelay => window = <<>>
    /\ phase = "split" => Len(window) <= EntryCount(NextLevels)
    /\ phase # "place" => window # <<>> /\ (LowDelay => Len(window) = 1)

\* A mini-GOP of the buffer that is not built yet.
IsPiece(g) ==
    /\ g \in Piece /\ g.start + g.len <= Len(window)
    /\ g.hl <= cfg.hl /\ (cfg.hl > 0 => g.hl > 0)
    /\ g.idr <=> g.start + g.len = Len(window) /\ window[Len(window)].idr

\* The mini-GOPs m follow one another up to the end of the buffer.
Chained(m) ==
    /\ m \in Seq(Piece)
    /\ \A k \in 1..Len(m) : IsPiece(m[k])
    /\ \A k \in 1..(Len(m) - 1) : m[k + 1].start = m[k].start + m[k].len
    /\ m # <<>> => m[Len(m)].start + m[Len(m)].len = Len(window)

PiecesInv == Chained(miniGops) /\ (Before => miniGops = <<>>)

\* The settings, as the assumption has them.
LEMMA ConfigOK ==
    ASSUME WindowInv
    PROVE  /\ cfg.hl \in 0..5 /\ cfg.pictures \in Nat \ {0} /\ cfg.startup \in {0, 2, 3, 4} /\ cfg.startup <= cfg.hl
           /\ cfg.forced \in Nat /\ cfg.longBase \in Nat \ {0} /\ cfg.flatMaxRefs \in 1..4 /\ cfg.reduce \in 0..2
           /\ {cfg.overlays, cfg.dynamic, cfg.forwardKeys} \subseteq BOOLEAN
           /\ cfg.structure \in {"random access", "crf", "cbr", "flat"}
           /\ cfg.overlays => RandomAccess
           /\ cfg.structure = "flat" => cfg.hl = 0
<1>1. IsConfiguration(cfg)
  BY ConfigsAssumption DEF WindowInv
<1> QED BY <1>1 DEF IsConfiguration, RandomAccess

\* The levels of the next mini-GOP are no more than those of the configuration.
LEMMA NextLevelsOK ==
    ASSUME WindowInv
    PROVE  /\ NextLevels \in 0..cfg.hl /\ NextLevels \in 0..5 /\ (NextLevels = 0 <=> cfg.hl = 0)
           /\ EntryCount(NextLevels) \in Nat \ {0}
<1>1. /\ cfg.hl \in 0..5 /\ cfg.startup \in {0, 2, 3, 4} /\ cfg.startup <= cfg.hl
      /\ startup => cfg.startup # 0
  BY ConfigOK DEF WindowInv
<1>2. NextLevels = IF startup THEN cfg.startup ELSE cfg.hl
  BY DEF NextLevels
<1>3. NextLevels \in 0..cfg.hl /\ NextLevels \in 0..5 /\ (NextLevels = 0 <=> cfg.hl = 0)
  BY <1>1, <1>2
<1> QED BY <1>3, EntryCountOK

\* Every way to split the buffer is a chain of mini-GOPs from its first picture.
LEMMA SplitsOK ==
    ASSUME WindowInv, phase = "split", NEW m \in WindowSplits
    PROVE  Chained(m) /\ m # <<>> /\ m[1].start = 0
<1> DEFINE count == Len(window)
           last == window[count]
           idr == last.idr
           levels == NextLevels
           top == IF levels = 0 THEN 1 ELSE levels
           pieces == Pieces(count, idr)
           hl1 == IF count = 1 /\ levels = 0 THEN 0 ELSE pieces[1].hl
           capped == [pieces EXCEPT ![1].hl = hl1]
           whole == <<[start |-> 0, len |-> count, hl |-> levels, idr |-> idr]>>
<1>1. /\ count \in Nat \ {0} /\ last \in InputPicture /\ count <= EntryCount(levels)
      /\ LowDelay => count = 1
  BY DEF WindowInv
<1>2. idr \in BOOLEAN
  BY <1>1 DEF InputPicture
<1>3. /\ levels \in 0..cfg.hl /\ levels \in 0..5 /\ (levels = 0 <=> cfg.hl = 0) /\ cfg.hl \in 0..5
  BY NextLevelsOK, ConfigOK
<1>4. /\ top \in 1..5 /\ count <= EntryCount(top) /\ (levels # 0 => top = levels) /\ (levels = 0 => count = 1 /\ top = 1)
  <2> HIDE DEF count
  <2>1. CASE levels = 0
    BY <1>1, <2>1, EntryCounts
  <2>2. CASE levels # 0
    BY <1>1, <1>3, <2>2
  <2> QED BY <2>1, <2>2
<1>5. m \in (IF count > 1 \/ (~IsKey(last) /\ RandomAccess)
             THEN {capped} \cup (IF cfg.dynamic /\ pieces[1].hl = 5 THEN {Halved} ELSE {})
             ELSE {whole})
  BY Zenon DEF WindowSplits
<1>6. /\ GoodPieces(pieces, 0, count, idr, top)
      /\ pieces[1] = PieceAt(count, idr, count)
  BY <1>1, <1>2, <1>4, PiecesOK
<1>7. pieces[1].hl = PieceLevel(count, idr)
  BY <1>6 DEF PieceAt
<1>8. pieces[1].hl \in 1..top /\ (pieces[1].hl = 5 => 32 <= count /\ ~(32 = count /\ idr))
  BY <1>1, <1>2, <1>4, <1>7, PieceLevelOK
<1>9. /\ pieces \in Seq(Piece)
      /\ \A k \in 1..Len(pieces) : /\ pieces[k].start + pieces[k].len <= count /\ pieces[k].hl \in 1..top
                                   /\ pieces[k].idr <=> pieces[k].start + pieces[k].len = count /\ idr
      /\ \A k \in 1..(Len(pieces) - 1) : pieces[k + 1].start = pieces[k].start + pieces[k].len
      /\ pieces # <<>> /\ pieces[1].start = 0 /\ pieces[Len(pieces)].start + pieces[Len(pieces)].len = count
  BY <1>1, <1>6 DEF GoodPieces
<1>10. CASE m = capped
  <2> HIDE DEF count, last, idr, levels, top, pieces
  <2>1. hl1 \in 0..cfg.hl /\ (cfg.hl > 0 => hl1 > 0) /\ hl1 \in 0..5
    BY <1>1, <1>3, <1>4, <1>8
  <2> HIDE DEF hl1
  <2>2. \A k \in 1..Len(pieces) : pieces[k] \in Piece
    BY <1>9
  <2>3. Len(pieces) \in Nat /\ Len(pieces) >= 1 /\ 1 \in 1..Len(pieces)
    BY <1>9
  <2> DEFINE x == [pieces[1] EXCEPT !.hl = hl1]
  <2>4. /\ x \in Piece /\ x.start = pieces[1].start /\ x.len = pieces[1].len /\ x.idr = pieces[1].idr /\ x.hl = hl1
    <3>1. pieces[1] \in Piece
      BY <2>2, <2>3
    <3> QED BY <2>1, <3>1 DEF Piece
  <2>5. capped = [pieces EXCEPT ![1] = x]
    OBVIOUS
  <2> HIDE DEF x, capped
  <2>6. /\ m \in Seq(Piece) /\ Len(m) = Len(pieces) /\ m[1] = x
        /\ \A k \in 1..Len(pieces) : k # 1 => m[k] = pieces[k]
    BY <1>9, <1>10, <2>3, <2>4, <2>5
  <2>10. \A k \in 1..Len(m) : /\ m[k].start = pieces[k].start /\ m[k].len = pieces[k].len
                             /\ m[k].idr = pieces[k].idr /\ m[k].hl <= cfg.hl /\ (cfg.hl > 0 => m[k].hl > 0)
                             /\ m[k] \in Piece
    <3> TAKE k \in 1..Len(m)
    <3>1. CASE k = 1
      <4>1. hl1 <= cfg.hl /\ (cfg.hl > 0 => hl1 > 0)
        BY <1>3, <2>1
      <4> QED BY <2>4, <2>6, <3>1, <4>1
    <3>2. CASE k # 1
      <4>1. k \in 1..Len(pieces) /\ m[k] = pieces[k]
        BY <2>6, <3>2
      <4>2. m[k].hl \in 1..top
        BY <1>9, <4>1
      <4>3. Len(pieces) # 1
        BY <3>2, <4>1
      <4>4. levels # 0
        <5>1. levels = 0 => count = 1
          BY <1>4
        <5>2. count = 1 => pieces[1].len = 1 /\ Len(pieces) = 1
          <6> SUFFICES ASSUME count = 1, Len(pieces) # 1
                       PROVE  FALSE
            <7>1. pieces[1].start + pieces[1].len <= count /\ pieces[1] \in Piece /\ pieces[1].start = 0
              BY <1>9, <2>2, <2>3
            <7> QED BY <7>1 DEF Piece
          <6> DEFINE n == Len(pieces)
          <6>4. n \in Nat /\ n >= 1 /\ n # 1
            BY <2>3
          <6>1. 2 \in 1..n /\ 1 \in 1..(n - 1)
            <7> HIDE DEF n
            <7> QED BY <6>4
          <6>2. pieces[1 + 1].start = pieces[1].start + pieces[1].len /\ pieces[2].start + pieces[2].len <= count
            BY <1>9, <6>1
          <6>3. pieces[1].len \in Nat \ {0} /\ pieces[2].len \in Nat \ {0} /\ pieces[1].start = 0
            BY <1>9, <2>2, <2>3, <6>1 DEF Piece
          <6> QED BY <6>2, <6>3
        <5> QED BY <4>3, <5>1, <5>2
      <4>5. top = levels
        BY <1>4, <4>4
      <4> QED BY <1>3, <2>2, <4>1, <4>2, <4>5
    <3> QED BY <3>1, <3>2
  <2>11. \A k \in 1..Len(m) : IsPiece(m[k])
    <3> TAKE k \in 1..Len(m)
    <3>1. /\ pieces[k].start + pieces[k].len <= count
          /\ pieces[k].idr <=> pieces[k].start + pieces[k].len = count /\ idr
      BY <1>9, <2>6
    <3> QED BY <2>6, <2>10, <3>1 DEF IsPiece, count, last, idr
  <2>7. \A k \in 1..(Len(m) - 1) : m[k + 1].start = m[k].start + m[k].len
    <3> TAKE k \in 1..(Len(m) - 1)
    <3>1. k \in 1..Len(pieces) /\ k + 1 \in 1..Len(pieces) /\ k \in 1..(Len(pieces) - 1)
      BY <2>3, <2>6
    <3> QED BY <1>9, <2>6, <2>10, <3>1
  <2>8. m # <<>> /\ m[1].start = 0 /\ m[Len(m)].start + m[Len(m)].len = count
    <3>1. Len(m) \in 1..Len(pieces) /\ 1 \in 1..Len(m)
      BY <2>3, <2>6
    <3>2. m # <<>>
      BY <2>3, <2>6
    <3> QED BY <1>9, <2>3, <2>6, <2>10, <3>1, <3>2
  <2> QED BY <2>6, <2>11, <2>7, <2>8 DEF Chained, count
<1>11. CASE m = Halved /\ pieces[1].hl = 5
  <2> HIDE DEF count, last, idr, levels, pieces
  <2>1. levels = 5 /\ count = 32 /\ ~idr /\ cfg.hl = 5
    <3>1. pieces[1].hl \in 1..top /\ 32 <= count /\ ~(32 = count /\ idr)
      BY <1>8, <1>11
    <3>2. levels = 5
      <4>1. 5 \in 1..top
        BY <1>11, <3>1
      <4> QED BY <1>3, <4>1
    <3> QED BY <1>1, <1>3, <3>1, <3>2, EntryCounts
  <2> DEFINE a == [start |-> 0, len |-> 16, hl |-> 4, idr |-> FALSE]
             b == [start |-> 16, len |-> 16, hl |-> 4, idr |-> FALSE]
  <2>2. a \in Piece /\ b \in Piece
    BY DEF Piece
  <2>3. IsPiece(a) /\ IsPiece(b)
    BY <2>1, <2>2 DEF IsPiece, count, last, idr
  <2>4. m = <<a, b>>
    BY <1>11 DEF Halved
  <2>5. a.start = 0 /\ a.len = 16 /\ b.start = 16 /\ b.len = 16
    OBVIOUS
  <2> HIDE DEF a, b
  <2>6. m \in Seq(Piece) /\ Len(m) = 2 /\ m[1] = a /\ m[2] = b /\ m # <<>>
    BY <2>2, <2>4
  <2>7. \A k \in 1..Len(m) : IsPiece(m[k])
    <3>1. \A k \in 1..Len(m) : k = 1 \/ k = 2
      BY <2>6
    <3> QED BY <2>3, <2>6, <3>1
  <2>8. \A k \in 1..(Len(m) - 1) : m[k + 1].start = m[k].start + m[k].len
    <3>1. \A k \in 1..(Len(m) - 1) : k = 1
      BY <2>6
    <3> QED BY <2>5, <2>6, <3>1
  <2>9. m[Len(m)].start + m[Len(m)].len = count
    BY <2>1, <2>5, <2>6
  <2> QED BY <2>5, <2>6, <2>7, <2>8, <2>9 DEF Chained, count
<1>12. CASE m = whole /\ ~(count > 1 \/ (~IsKey(last) /\ RandomAccess))
  <2> DEFINE w == [start |-> 0, len |-> count, hl |-> levels, idr |-> idr]
  <2>1. w.start = 0 /\ w.len = count /\ w.hl = levels /\ w.idr = idr
    OBVIOUS
  <2>2. w \in Piece
    BY <1>1, <1>2, <1>3 DEF Piece
  <2>3. IsPiece(w)
    <3> HIDE DEF w
    <3> QED BY <1>1, <1>2, <1>3, <2>1, <2>2 DEF IsPiece
  <2>4. m = <<w>>
    BY <1>12
  <2> HIDE DEF w, count, idr, levels
  <2>5. m \in Seq(Piece) /\ Len(m) = 1 /\ m[1] = w /\ m # <<>>
    BY <2>2, <2>4
  <2>6. \A k \in 1..Len(m) : IsPiece(m[k])
    BY <2>3, <2>5
  <2>7. m[Len(m)].start + m[Len(m)].len = count
    BY <1>1, <2>1, <2>5
  <2> QED BY <2>1, <2>5, <2>6, <2>7 DEF Chained, count
<1>13. m = capped \/ (m = Halved /\ pieces[1].hl = 5)
       \/ (m = whole /\ ~(count > 1 \/ (~IsKey(last) /\ RandomAccess)))
  <2> HIDE DEF capped, whole, pieces, count, last
  <2> QED BY <1>5
<1> QED BY <1>10, <1>11, <1>12, <1>13

\* The numbering: each picture placed in a mini-GOP has a number in decode order,
\* and an overlay one more.
NumbersInv ==
    /\ altNumber \in Built..(2 * Built) /\ baseNumber = altNumber
    /\ ~cfg.overlays => altNumber = Built
    /\ prevLevels \in 0..cfg.hl /\ position \in 0..(EntryCount(prevLevels) - 1)
    /\ poc = None \/ (poc = 0 /\ phase = "split") => position = 0
    /\ afterIntra \in BOOLEAN /\ forcedLeft \in 0..cfg.forced
    /\ mgId \in Nat /\ Len(group) \in Nat /\ mgId + Len(group) <= altNumber

\* The number in decode order of the first picture of the mini-GOP being built.
First == altNumber - Len(group)

\* What there is to say of a picture.
Fields == {"num", "idr", "cra", "eos", "hl", "inOrder", "position", "layer", "idx", "len", "dec", "altRef",
           "overlay", "refs", "last", "bwd", "refresh", "show", "existing", "released"}

\* A picture of a mini-GOP.
IsPicture(p) ==
    /\ DOMAIN p = Fields
    /\ p.num \in Nat /\ p.dec \in Nat /\ p.len \in Nat \ {0} /\ p.hl \in 0..cfg.hl /\ (cfg.hl > 0 => p.hl > 0)
    /\ p.layer \in 0..p.hl /\ p.position \in 0..(EntryCount(p.hl) - 1)
    /\ {p.idr, p.cra, p.eos, p.inOrder, p.overlay} \subseteq BOOLEAN
    /\ IsKey(p) => ~p.inOrder \/ LowDelay
    /\ p.overlay => cfg.overlays /\ ~IsKey(p) /\ p.layer = p.hl
    /\ ~p.overlay => p.layer = Layer(p.hl, p.position)
    /\ LowDelay => p.idx = IF p.position = 0 THEN 0 ELSE (p.position - 1) % EntryCount(p.hl)
    /\ p.idr => p.position = 0

\* What a step may have given it.
Refreshes(p) == p.refresh \subseteq Slot /\ (p.overlay => p.refresh = {})

\* The mini-GOP being built: numbered in decode order, with at most one key frame;
\* one that is to wait comes last, after pictures in display order.
GroupOK(q) ==
    /\ q = [k \in 1..Len(q) |-> q[k]] /\ Len(q) \in Nat
    /\ \A k \in 1..Len(q) : /\ IsPicture(q[k]) /\ Refreshes(q[k])
                            /\ IsDelayedIntra(q[k]) => k = Len(q) /\ (k > 1 => q[1].inOrder)
    /\ \A j, k \in 1..Len(q) : j # k =>
          /\ q[j].num # q[k].num \/ q[j].overlay \/ q[k].overlay
          /\ ~IsKey(q[j]) \/ ~IsKey(q[k])

\* It is the one whose numbers were given out last, of pictures already placed.
GroupInv ==
    /\ GroupOK(group) /\ (group = <<>> <=> phase \in {"place", "split", "build"})
    /\ at \in 1..(Len(group) + 1)
    /\ \A k \in 1..Len(group) : group[k].dec = First + k - 1 /\ group[k].num < Built

\* The layer toggles and the last long-term base picture stay in range.
Toggles ==
    /\ lay0 \in 0..(IF cfg.structure = "flat" THEN cfg.flatMaxRefs - 1
                    ELSE IF RandomAccess /\ cfg.hl = 0 THEN 7 ELSE 2)
    /\ lay1 \in 0..(IF cfg.structure = "crf" THEN 2 ELSE 1)
    /\ lastLongBase \in 0..(cfg.pictures - 1)

\* What a slot of a decoded picture buffer says.
Entry == [num : Nat \cup {None}, dec : Nat \cup {None}, layer : 0..5]

\* A decoded picture buffer that has the pictures of the mini-GOP up to "done":
\* its pictures are told apart by either number, and those to come are new to it.
BufferOK(buffer, done) ==
    /\ buffer \in [Slot -> Entry]
    /\ \A i \in Slot :
          /\ buffer[i].num < Built /\ buffer[i].dec < First + done
          /\ buffer[i].num = None \/ buffer[i].dec = None => buffer[i] = Nobody
          /\ \A j \in Slot : buffer[i].num = buffer[j].num \/ buffer[i].dec = buffer[j].dec => buffer[i] = buffer[j]
          /\ \A k \in (done + 1)..Len(group) : group[k].overlay \/ buffer[i].num # group[k].num

\* The pictures of the mini-GOP decided, and those whose references are assigned.
Decided == CASE phase = "decide" -> at - 1 [] phase = "assign" -> Len(group) [] OTHER -> 0
Assigned == IF phase = "assign" THEN at - 1 ELSE 0

\* The buffer of the decision and that of the assignment, each as far as it is.
BuffersInv == BufferOK(dpb, Decided) /\ BufferOK(pdDpb, Assigned)

\* A sequence of whatever it holds.
IsSeq(s) == s \in Seq({s[i] : i \in 1..Len(s)})

\* Every message stands in a block of its mini-GOP's size.
Whole(s) ==
    \A i \in 1..Len(s) : \E a \in 1..Len(s) :
        /\ s[i].size \in Nat \ {0} /\ i \in a..(a + s[i].size - 1) /\ a + s[i].size - 1 <= Len(s)
        /\ \A j \in 1..Len(s) : s[j].id = s[i].id <=> j \in a..(a + s[i].size - 1)
        /\ \A j \in a..(a + s[i].size - 1) : s[j].size = s[i].size

\* What was sent: in decode order, mini-GOP after mini-GOP, up to a key frame that
\* waits, which is a mini-GOP of its own.
SendInv ==
    /\ IsSeq(sent) /\ IsSeq(delayed)
    /\ Len(delayed) <= 1 /\ Len(sent) + Len(delayed) = First
    /\ \A i \in 1..Len(sent) : /\ sent[i].dec = i - 1
                              /\ sent[i].id \in Nat /\ sent[i].id < mgId - Len(delayed)
    /\ \A i \in 1..Len(delayed) : /\ delayed[i].dec = Len(sent)
                                 /\ delayed[i].id \in Nat /\ delayed[i].id = mgId - 1 /\ delayed[i].size = 1
    /\ Whole(sent)

\* The inductive invariant.
Inv == WindowInv /\ PiecesInv /\ NumbersInv /\ GroupInv /\ Toggles /\ BuffersInv /\ SendInv

-----------------------------------------------------------------------------
\* How many pictures have their place, in each phase.
LEMMA BuiltIs ==
    ASSUME WindowInv, PiecesInv
    PROVE  /\ Built \in Nat /\ Built <= poc + 1 /\ Len(window) \in Nat /\ poc \in Int
           /\ Before => Built = poc + 1 - Len(window)
           /\ ~Before /\ miniGops = <<>> => Built = poc + 1
           /\ ~Before /\ miniGops # <<>> => Built = poc + 1 - Len(window) + miniGops[1].start
<1>1. Len(window) \in Nat /\ poc \in Int /\ Len(window) <= poc + 1
  BY DEF WindowInv, None
<1>2. CASE Before
  BY <1>1, <1>2 DEF Built
<1>3. CASE ~Before /\ miniGops = <<>>
  BY <1>1, <1>3 DEF Built
<1>4. CASE ~Before /\ miniGops # <<>>
  <2>1. miniGops \in Seq(Piece) /\ \A k \in 1..Len(miniGops) : IsPiece(miniGops[k])
    BY DEF PiecesInv, Chained
  <2>2. IsPiece(miniGops[1])
    BY <1>4, <2>1
  <2>3. miniGops[1].start \in Nat /\ miniGops[1].start <= Len(window)
    BY <1>1, <2>2 DEF IsPiece, Piece
  <2> QED BY <1>1, <1>4, <2>3 DEF Built
<1> QED BY <1>2, <1>3, <1>4, <1>1

\* The initial states.
LEMMA InitInv == Init => Inv
<1> SUFFICES ASSUME Init
             PROVE  Inv
  OBVIOUS
<1>0. /\ cfg \in Configs /\ forcedLeft = cfg.forced /\ phase = "place" /\ poc = -1 /\ window = <<>>
      /\ startup = FALSE /\ prevLevels = 0 /\ position = 0 /\ afterIntra = FALSE
      /\ altNumber = 0 /\ baseNumber = 0 /\ miniGops = <<>> /\ group = <<>> /\ at = 1
      /\ lay0 = 0 /\ lay1 = 0 /\ lastLongBase = 0 /\ mgId = 0
  BY DEF Init, None
<1>1. IsConfiguration(cfg)
  BY <1>0, ConfigsAssumption
<1>2. cfg.hl \in 0..5 /\ cfg.pictures \in Nat \ {0} /\ cfg.forced \in Nat /\ cfg.flatMaxRefs \in 1..4 /\ cfg.startup \in {0, 2, 3, 4}
  BY <1>1 DEF IsConfiguration
<1>3. EntryCount(cfg.hl) \in Nat \ {0} /\ EntryCount(0) = 1
  BY <1>2, EntryCountOK, EntryCounts
<1>4. WindowInv
  <2>1. NextLevels = cfg.hl
    BY <1>0 DEF NextLevels
  <2>2. window \in Seq(InputPicture) /\ Len(window) = 0
    BY <1>0
  <2>3. None \in None..(cfg.pictures - 1) /\ poc = None /\ poc + 1 = 0
    BY <1>0, <1>2 DEF None
  <2>4. /\ cfg \in Configs /\ phase \in {"place", "split", "build", "decide", "assign"} /\ phase = "place"
        /\ startup \in BOOLEAN /\ ~startup
    BY <1>0
  <2>5. /\ \A i \in 1..Len(window) : window[i].num = poc - Len(window) + i /\ ~IsKey(window[i])
        /\ \A i \in 1..(Len(window) - 1) : ~IsKey(window[i])
        /\ Len(window) <= poc + 1 /\ Len(window) < EntryCount(NextLevels)
    BY <1>3, <2>1, <2>2, <2>3
  <2> QED BY <1>0, <2>2, <2>3, <2>4, <2>5 DEF WindowInv
<1>5. PiecesInv /\ Before
  BY <1>0 DEF PiecesInv, Chained, Before
<1>6. Built = 0 /\ First = 0 /\ Decided = 0 /\ Assigned = 0 /\ Len(group) = 0
  <2>1. Len(group) = 0 /\ Len(window) = 0
    BY <1>0
  <2>2. Built = 0
    BY <1>0, <1>5, <2>1 DEF Built
  <2>6. altNumber = 0
    BY <1>0
  <2>3. First = 0
    BY <2>1, <2>6 DEF First
  <2>4. Decided = 0
    BY <1>0 DEF Decided
  <2>5. Assigned = 0
    BY <1>0 DEF Assigned
  <2> QED BY <2>1, <2>2, <2>3, <2>4, <2>5
<1>7. NumbersInv
  <2>1. 0 \in 0..(2 * 0) /\ 0 \in 0..cfg.hl /\ 0 \in 0..(EntryCount(0) - 1) /\ cfg.forced \in 0..cfg.forced
    BY <1>2, <1>3
  <2>2. /\ altNumber \in Built..(2 * Built) /\ baseNumber = altNumber /\ altNumber = Built
        /\ prevLevels \in 0..cfg.hl /\ position \in 0..(EntryCount(prevLevels) - 1)
    BY <1>0, <1>6, <2>1
  <2>3. /\ afterIntra \in BOOLEAN /\ forcedLeft \in 0..cfg.forced /\ mgId \in Nat /\ Len(group) \in Nat
        /\ mgId + Len(group) <= altNumber /\ position = 0
    <3>1. altNumber = 0 /\ mgId = 0 /\ afterIntra = FALSE /\ forcedLeft = cfg.forced /\ position = 0
      BY <1>0
    <3>2. afterIntra \in BOOLEAN
      BY <3>1
    <3>3. forcedLeft \in 0..cfg.forced
      BY <2>1, <3>1
    <3>4. mgId \in Nat /\ Len(group) \in Nat /\ mgId + Len(group) <= altNumber
      BY <1>6, <3>1
    <3> QED BY <3>1, <3>2, <3>3, <3>4
  <2> QED BY <2>2, <2>3 DEF NumbersInv
<1>8. GroupInv
  BY <1>0, <1>6 DEF GroupInv, GroupOK
<1>9. Toggles
  BY <1>0, <1>2 DEF Toggles
<1>10. BuffersInv
  <2>1. Nobody \in Entry /\ Nobody.num = None /\ Nobody.dec = None /\ None < 0
    BY DEF Nobody, Entry, None
  <2>2. dpb \in [Slot -> Entry] /\ pdDpb \in [Slot -> Entry]
        /\ (\A i \in Slot : dpb[i] = Nobody /\ pdDpb[i] = Nobody) /\ Len(group) = 0
    BY <1>6, <2>1 DEF Init
  <2> QED BY <1>6, <2>1, <2>2 DEF BuffersInv, BufferOK
<1>11. SendInv
  BY <1>6 DEF Init, SendInv, IsSeq, Whole
<1> QED BY <1>4, <1>5, <1>7, <1>8, <1>9, <1>10, <1>11 DEF Inv

-----------------------------------------------------------------------------
(* Each action keeps the invariant.                                         *)

\* What the buffers and the messages depend on.
Rest == <<cfg, altNumber, group, at, dpb, pdDpb, sent, delayed, mgId, lay0, lay1, lastLongBase>>

\* A step that moves nothing of it, between two mini-GOPs.
LEMMA RestKept ==
    ASSUME Inv, UNCHANGED Rest, Built' = Built, group = <<>>, phase' \in {"place", "split", "build"}
    PROVE  GroupInv' /\ Toggles' /\ BuffersInv' /\ SendInv'
<1>1. /\ cfg' = cfg /\ altNumber' = altNumber /\ group' = group /\ at' = at /\ dpb' = dpb /\ pdDpb' = pdDpb
      /\ sent' = sent /\ delayed' = delayed /\ mgId' = mgId /\ lay0' = lay0 /\ lay1' = lay1
      /\ lastLongBase' = lastLongBase
  BY DEF Rest
<1>2. First' = First
  BY <1>1 DEF First
<1>3. phase \in {"place", "split", "build"}
  BY DEF Inv, GroupInv
<1>4. Decided = 0 /\ Assigned = 0 /\ Decided' = 0 /\ Assigned' = 0
  BY <1>3 DEF Decided, Assigned
<1>5. GroupInv'
  BY <1>1, <1>2 DEF Inv, GroupInv, GroupOK, IsPicture, Refreshes, IsKey, IsDelayedIntra, LowDelay, RandomAccess
<1>6. Toggles'
  BY <1>1 DEF Inv, Toggles, RandomAccess
<1>7. BuffersInv'
  BY <1>1, <1>2, <1>4 DEF Inv, BuffersInv, BufferOK
<1>8. SendInv'
  <2>1. IsSeq(sent)' /\ IsSeq(delayed)'
    BY <1>1 DEF Inv, SendInv, IsSeq
  <2>2. Whole(sent)'
    <3>1. Whole(sent) /\ sent' = sent
      BY <1>1 DEF Inv, SendInv
    <3> QED BY ONLY <3>1
  <2> QED BY <1>1, <1>2, <2>1, <2>2 DEF Inv, SendInv
<1> QED BY <1>5, <1>6, <1>7, <1>8

\* Placing a picture keeps the invariant.
LEMMA PlaceKeeps ==
    ASSUME Inv, NEW forced \in BOOLEAN, PlacePicture(forced)
    PROVE  Inv'
<1> DEFINE p == [num |-> poc + 1,
                 idr |-> poc = None \/ (~cfg.forwardKeys /\ (forced \/ PeriodEnds)),
                 cra |-> poc # None /\ cfg.forwardKeys /\ PeriodEnds,
                 eos |-> poc + 1 = cfg.pictures - 1]
           L == Len(window)
<1>1. /\ phase = "place" /\ poc + 1 < cfg.pictures /\ poc' = poc + 1 /\ window' = Append(window, p)
      /\ phase' = IF Releasable(window') THEN "split" ELSE "place"
      /\ forced => forcedLeft > 0
      /\ forcedLeft' = forcedLeft - (IF forced THEN 1 ELSE 0)
      /\ cfg' = cfg /\ startup' = startup /\ altNumber' = altNumber /\ baseNumber' = baseNumber
      /\ position' = position /\ afterIntra' = afterIntra /\ prevLevels' = prevLevels /\ miniGops' = miniGops
      /\ group' = group /\ mgId' = mgId /\ UNCHANGED Rest
  BY DEF PlacePicture, numbers, toggles, sending, Rest
<1>2. WindowInv /\ PiecesInv /\ NumbersInv /\ GroupInv
  BY DEF Inv
<1>3. /\ poc \in Int /\ poc + 1 \in Nat /\ cfg.forwardKeys \in BOOLEAN /\ cfg.pictures \in Nat /\ cfg.forced \in Nat
  <2>1. cfg.forwardKeys \in BOOLEAN /\ cfg.pictures \in Nat /\ cfg.forced \in Nat
    BY <1>2, ConfigOK
  <2>2. poc \in Int /\ poc + 1 \in Nat
    BY <1>2, <2>1 DEF WindowInv, None
  <2> QED BY <2>1, <2>2
<1>4. p \in InputPicture /\ p.num = poc + 1
  BY <1>3 DEF InputPicture
<1> HIDE DEF p
<1>5. /\ window \in Seq(InputPicture) /\ L \in Nat /\ L <= poc + 1 /\ L < EntryCount(NextLevels)
      /\ \A i \in 1..L : window[i].num = poc - L + i
      /\ \A i \in 1..L : ~IsKey(window[i])
      /\ LowDelay => window = <<>>
      /\ startup \in BOOLEAN /\ (startup => cfg.startup # 0)
      /\ cfg \in Configs
  BY <1>1, <1>2 DEF WindowInv
<1>6. /\ window' \in Seq(InputPicture) /\ Len(window') = L + 1
      /\ \A i \in 1..L : window'[i] = window[i]
      /\ window'[L + 1] = p
  BY <1>1, <1>4, <1>5, AppendProperties
<1>7. NextLevels' = NextLevels /\ (LowDelay' <=> LowDelay) /\ EntryCount(NextLevels) \in Nat
  BY <1>1, <1>2, NextLevelsOK DEF NextLevels, LowDelay, RandomAccess
<1>8. phase' = "split" \/ phase' = "place"
  BY <1>1
<1>9. phase' = "place" => /\ \A i \in 1..(L + 1) : ~IsKey(window'[i])
                          /\ L + 1 # EntryCount(NextLevels) /\ ~LowDelay
  <2> SUFFICES ASSUME phase' = "place"
               PROVE  /\ \A i \in 1..(L + 1) : ~IsKey(window'[i])
                      /\ L + 1 # EntryCount(NextLevels) /\ ~LowDelay
    OBVIOUS
  <2>1. ~Releasable(window')
    BY <1>1
  <2>2. DOMAIN window' = 1..(L + 1)
    BY <1>5, <1>6
  <2> QED BY <1>6, <2>1, <2>2 DEF Releasable, WindowIntra, EntryCount
<1> HIDE DEF L
<1>10. WindowInv'
  <2>1. /\ cfg' \in Configs /\ phase' \in {"place", "split", "build", "decide", "assign"}
        /\ poc' \in None..(cfg.pictures - 1)
    <3>1. poc' = poc + 1 /\ -1 <= poc + 1 /\ poc + 1 <= cfg.pictures - 1
      BY <1>1, <1>3
    <3>2. poc' \in None..(cfg.pictures - 1)
      BY <1>3, <3>1 DEF None
    <3> QED BY <1>1, <1>5, <1>8, <3>2
  <2>2. Len(window') <= poc' + 1
    BY <1>1, <1>3, <1>5, <1>6
  <2>3. \A i \in 1..(L + 1) : window'[i].num = poc' - (L + 1) + i
    <3> TAKE i \in 1..(L + 1)
    <3>1. CASE i = L + 1
      BY <1>1, <1>3, <1>4, <1>5, <1>6, <3>1
    <3>2. CASE i # L + 1
      <4>1. i \in 1..L
        BY <1>5, <3>2
      <4>2. window'[i] = window[i] /\ window[i].num = poc - L + i
        BY <1>5, <1>6, <4>1
      <4> QED BY <1>1, <1>3, <1>5, <4>1, <4>2
    <3> QED BY <3>1, <3>2
  <2>4. \A i \in 1..L : ~IsKey(window'[i])
    BY <1>5, <1>6
  <2>5. phase' = "place" => L + 1 < EntryCount(NextLevels)
    BY <1>5, <1>7, <1>9
  <2>6. L + 1 <= EntryCount(NextLevels)
    BY <1>5, <1>7
  <2>7. window' # <<>> /\ (LowDelay => L + 1 = 1)
    <3>1. window = <<>> => L = 0
      BY DEF L
    <3>2. Len(window') # 0
      BY <1>5, <1>6
    <3>3. window' # <<>>
      BY <3>2
    <3> QED BY <1>5, <3>1, <3>3
  <2>8. (L + 1) - 1 = L
    BY <1>5
  <2> QED BY <1>1, <1>5, <1>6, <1>7, <1>9, <2>1, <2>2, <2>3, <2>4, <2>5, <2>6, <2>7, <2>8 DEF WindowInv, IsKey
<1>11. Before /\ Before' /\ miniGops = <<>>
  BY <1>1, <1>2, <1>8 DEF Before, PiecesInv
<1>12. PiecesInv'
  BY <1>1, <1>11 DEF PiecesInv, Chained
<1>13. Built' = Built /\ Built \in Nat
  <2>1. Built = poc + 1 - L
    BY <1>2, <1>11, BuiltIs DEF L
  <2>2. Built' = (poc + 1) + 1 - (L + 1)
    BY <1>1, <1>6, <1>11, <1>3, <1>5 DEF Built
  <2> QED BY <1>2, <1>3, <1>5, <2>1, <2>2, BuiltIs
<1>14. NumbersInv'
  <2>1. poc' = None \/ (poc' = 0 /\ phase' = "split") => poc = None
    BY <1>1, <1>3 DEF None
  <2>2. forcedLeft' \in 0..cfg.forced
    <3>1. forcedLeft \in 0..cfg.forced
      BY <1>2 DEF NumbersInv
    <3>2. forcedLeft' = forcedLeft \/ (forced /\ forcedLeft' = forcedLeft - 1 /\ forcedLeft > 0)
      BY <1>1, <3>1
    <3> QED BY <1>3, <3>1, <3>2
  <2> QED BY <1>1, <1>2, <1>13, <2>1, <2>2 DEF NumbersInv
<1>15. group = <<>>
  BY <1>1, <1>2 DEF GroupInv
<1>16. GroupInv' /\ Toggles' /\ BuffersInv' /\ SendInv'
  BY <1>1, <1>8, <1>13, <1>15, RestKept
<1> QED BY <1>10, <1>12, <1>14, <1>16 DEF Inv

\* So does splitting the buffer.
LEMMA SplitKeeps ==
    ASSUME Inv, SplitWindow
    PROVE  Inv'
<1>1. /\ phase = "split" /\ phase' = "build" /\ miniGops' \in WindowSplits
      /\ prevLevels' = IF window[Len(window)].num = 0 THEN NextLevels ELSE prevLevels
      /\ startup' = (cfg.startup # 0 /\ IsKey(window[Len(window)]))
      /\ cfg' = cfg /\ poc' = poc /\ window' = window /\ forcedLeft' = forcedLeft
      /\ altNumber' = altNumber /\ baseNumber' = baseNumber
      /\ position' = position /\ afterIntra' = afterIntra /\ group' = group /\ mgId' = mgId /\ UNCHANGED Rest
  BY DEF SplitWindow, place, toggles, sending, Rest
<1>2. WindowInv /\ PiecesInv /\ NumbersInv /\ GroupInv
  BY DEF Inv
<1>3. /\ poc \in Int /\ Len(window) \in Nat /\ window # <<>> /\ Len(window) <= poc + 1
  BY <1>1, <1>2 DEF WindowInv, None
<1>4. Chained(miniGops') /\ miniGops' # <<>> /\ miniGops'[1].start = 0
  BY <1>1, <1>2, SplitsOK
<1>5. WindowInv'
  <2>1. startup' \in BOOLEAN /\ (startup' => cfg.startup # 0)
    BY <1>1 DEF IsKey
  <2>2. LowDelay' <=> LowDelay
    BY <1>1 DEF LowDelay, RandomAccess
  <2> QED BY <1>1, <1>2, <2>1, <2>2 DEF WindowInv, IsKey
<1>6. PiecesInv'
  <2>1. Chained(miniGops)'
    BY <1>1, <1>4 DEF Chained, IsPiece
  <2> QED BY <1>1, <2>1 DEF PiecesInv, Before
<1>7. Built' = Built /\ Before /\ ~Before'
  <2>1. Before /\ ~Before'
    BY <1>1 DEF Before
  <2>2. Built = poc + 1 - Len(window)
    BY <1>2, <2>1, BuiltIs
  <2>3. Built' = poc + 1 - Len(window) + 0
    BY <1>1, <1>4, <2>1 DEF Built
  <2> QED BY <1>3, <2>1, <2>2, <2>3
<1>8. NumbersInv'
  <2>1. prevLevels' \in 0..cfg.hl /\ position \in 0..(EntryCount(prevLevels') - 1)
    <3>1. CASE window[Len(window)].num = 0
      <4>1. poc = 0
        <5>1. Len(window) \in 1..Len(window)
          BY <1>3
        <5>2. window[Len(window)].num = poc - Len(window) + Len(window)
          BY <1>2, <5>1 DEF WindowInv
        <5> QED BY <1>3, <3>1, <5>2
      <4>2. position = 0
        BY <1>1, <1>2, <4>1 DEF NumbersInv
      <4>3. prevLevels' = NextLevels
        BY <1>1, <3>1
      <4>4. NextLevels \in 0..cfg.hl /\ EntryCount(NextLevels) \in Nat \ {0}
        BY <1>2, NextLevelsOK
      <4>5. 0 \in 0..(EntryCount(NextLevels) - 1)
        BY <4>4
      <4> QED BY <4>2, <4>3, <4>4, <4>5
    <3>2. CASE window[Len(window)].num # 0
      <4>1. prevLevels' = prevLevels
        BY <1>1, <3>2
      <4> QED BY <1>2, <4>1 DEF NumbersInv
    <3> QED BY <3>1, <3>2
  <2>2. poc' # None /\ phase' # "split"
    BY <1>1, <1>3 DEF None
  <2> QED BY <1>1, <1>2, <1>7, <2>1, <2>2 DEF NumbersInv
<1>9. group = <<>>
  BY <1>1, <1>2 DEF GroupInv
<1>10. GroupInv' /\ Toggles' /\ BuffersInv' /\ SendInv'
  BY <1>1, <1>7, <1>9, RestKept
<1> QED BY <1>5, <1>6, <1>8, <1>10 DEF Inv

-----------------------------------------------------------------------------
\* The number in decode order of the i-th picture of a mini-GOP.
DecOf(g, pics, i) == DecodeNumber(g, LevelsOf(g, pics[i]), Positions(g, pics)[i], i)

\* The pictures of a mini-GOP get the next numbers, each one once: in the order
\* of the pyramid when it is complete, in display order otherwise.
LEMMA DecsOK ==
    ASSUME NEW g, NEW pics, MiniGopOK(g, pics), PositionInv, altNumber \in Nat, baseNumber = altNumber
    PROVE  /\ \A i \in 1..g.len : DecOf(g, pics, i) \in altNumber..(altNumber + g.len - 1)
           /\ \A i, j \in 1..g.len : DecOf(g, pics, i) = DecOf(g, pics, j) => i = j
           /\ \A d \in altNumber..(altNumber + g.len - 1) : \E i \in 1..g.len : DecOf(g, pics, i) = d
           /\ ~(~g.idr /\ RandomAccess /\ g.len = EntryCount(g.hl)) =>
                 \A i \in 1..g.len : DecOf(g, pics, i) = altNumber + i - 1
<1> DEFINE n == g.len
           D(i) == DecOf(g, pics, i)
           alt == altNumber
           pyramid == ~g.idr /\ RandomAccess /\ n = EntryCount(g.hl)
<1>1. n \in Nat \ {0} /\ g.hl \in 0..5 /\ alt \in Nat
  BY LevelsOK DEF MiniGopOK, PositionInv
<1>2. CASE ~pyramid
  <2>1. \A i \in 1..n : D(i) = alt + i - 1
    <3> TAKE i \in 1..n
    <3>1. ~g.idr => LevelsOf(g, pics[i]) = g.hl
      BY LevelsOK
    <3>2. ~(~g.idr /\ g.len = EntryCount(LevelsOf(g, pics[i])) /\ RandomAccess)
      BY <1>2, <3>1
    <3> QED BY <3>2 DEF DecOf, DecodeNumber
  <2> HIDE DEF n, D, alt, pyramid
  <2>2. \A i \in 1..n : D(i) \in alt..(alt + n - 1)
    BY <1>1, <2>1
  <2>3. \A i, j \in 1..n : D(i) = D(j) => i = j
    BY <1>1, <2>1
  <2>4. \A d \in alt..(alt + n - 1) : \E i \in 1..n : D(i) = d
    <3> TAKE d \in alt..(alt + n - 1)
    <3>1. d - alt + 1 \in 1..n /\ alt + (d - alt + 1) - 1 = d
      BY <1>1
    <3> QED BY <2>1, <3>1
  <2> QED BY <2>1, <2>2, <2>3, <2>4 DEF n, D, alt
<1>3. CASE pyramid
  <2> DEFINE T == DecodeOrder(g.hl)
             R == PlaceInOrder(g.hl)
             pos == Positions(g, pics)
  <2>1. PICK from \in 0..(n - 1) : \A i \in 1..n :
              pos[i] = IF from + i - 1 < n THEN from + i - 1 ELSE from + i - 1 - n
    BY <1>3, PositionsGoRound
  <2>2. \A i \in 1..n : D(i) = alt + T[pos[i] + 1]
    <3> TAKE i \in 1..n
    <3>1. LevelsOf(g, pics[i]) = g.hl
      BY <1>3, LevelsOK
    <3> QED BY <1>3, <3>1 DEF DecOf, DecodeNumber
  <2>3. /\ \A i \in 1..n : T[i] \in 0..(n - 1) /\ R[T[i] + 1] = i
        /\ \A k \in 0..(n - 1) : R[k + 1] \in 1..n /\ T[R[k + 1]] = k
    BY <1>1, <1>3, DecodeOrderOK
  <2> HIDE DEF n, D, T, R, pos, alt, pyramid
  <2>4. \A i \in 1..n : pos[i] \in 0..(n - 1) /\ pos[i] + 1 \in 1..n
    BY <1>1, <2>1
  <2>5. \A i \in 1..n : D(i) \in alt..(alt + n - 1)
    <3> TAKE i \in 1..n
    <3>1. T[pos[i] + 1] \in 0..(n - 1)
      BY <2>3, <2>4
    <3> QED BY <1>1, <2>2, <3>1
  <2>6. \A i, j \in 1..n : D(i) = D(j) => i = j
    <3> SUFFICES ASSUME NEW i \in 1..n, NEW j \in 1..n, D(i) = D(j)
                 PROVE  i = j
      OBVIOUS
    <3>1. T[pos[i] + 1] = T[pos[j] + 1]
      <4>1. T[pos[i] + 1] \in Int /\ T[pos[j] + 1] \in Int
        BY <1>1, <2>3, <2>4
      <4>2. alt + T[pos[i] + 1] = alt + T[pos[j] + 1]
        BY <2>2
      <4> QED BY <1>1, <4>1, <4>2
    <3>2. pos[i] + 1 = pos[j] + 1
      BY <2>3, <2>4, <3>1
    <3>3. /\ pos[i] = IF from + i - 1 < n THEN from + i - 1 ELSE from + i - 1 - n
          /\ pos[j] = IF from + j - 1 < n THEN from + j - 1 ELSE from + j - 1 - n
      BY <2>1
    <3> QED BY <1>1, <2>4, <3>2, <3>3
  <2>7. \A d \in alt..(alt + n - 1) : \E i \in 1..n : D(i) = d
    <3> TAKE d \in alt..(alt + n - 1)
    <3> DEFINE p == R[(d - alt) + 1] - 1
               i == IF p >= from THEN p - from + 1 ELSE p - from + 1 + n
    <3>1. d - alt \in 0..(n - 1) /\ alt + (d - alt) = d
      BY <1>1
    <3>2. R[(d - alt) + 1] \in 1..n /\ T[R[(d - alt) + 1]] = d - alt
      BY <2>3, <3>1
    <3>3. p \in 0..(n - 1) /\ T[p + 1] = d - alt
      <4>1. p \in 0..(n - 1) /\ p + 1 = R[(d - alt) + 1]
        BY <1>1, <3>2
      <4> QED BY <3>2, <4>1
    <3> HIDE DEF p
    <3>4. i \in 1..n /\ p = IF from + i - 1 < n THEN from + i - 1 ELSE from + i - 1 - n
      BY <1>1, <3>3
    <3> HIDE DEF i
    <3>5. pos[i] = p
      BY <2>1, <3>4
    <3>6. D(i) = d
      BY <2>2, <3>1, <3>3, <3>4, <3>5
    <3> QED BY <3>4, <3>6
  <2> QED BY <1>3, <2>5, <2>6, <2>7 DEF n, D, alt, pyramid
<1> QED BY <1>2, <1>3

\* A function on 1..n is a sequence.
LEMMA FunctionIsSeq ==
    ASSUME NEW n \in Nat, NEW s, s = [k \in 1..n |-> s[k]]
    PROVE  s \in Seq({s[k] : k \in 1..n}) /\ Len(s) = n /\ DOMAIN s = 1..n /\ IsSeq(s)
<1>1. s \in Seq({s[k] : k \in 1..n}) /\ Len(s) = n /\ DOMAIN s = 1..n
  OBVIOUS
<1> QED BY <1>1 DEF IsSeq

\* The first of the mini-GOPs, with its pictures, is ready to be built.
LEMMA MiniGopReady ==
    ASSUME Inv, phase = "build", miniGops # <<>>
    PROVE  LET g == Head(miniGops)
           IN  /\ g = miniGops[1] /\ IsPiece(g)
               /\ MiniGopOK(g, SubSeq(window, g.start + 1, g.start + g.len)) /\ PositionInv
<1> DEFINE g == Head(miniGops)
           pics == SubSeq(window, g.start + 1, g.start + g.len)
           L == Len(window)
<1>1. WindowInv /\ PiecesInv /\ NumbersInv
  BY DEF Inv
<1>2. miniGops \in Seq(Piece) /\ \A k \in 1..Len(miniGops) : IsPiece(miniGops[k])
  BY <1>1 DEF PiecesInv, Chained
<1>3. g = miniGops[1]
  BY <1>2
<1>4. IsPiece(g)
  BY <1>2, <1>3
<1>5. /\ g \in Piece /\ g.start + g.len <= L /\ g.hl <= cfg.hl /\ (cfg.hl > 0 => g.hl > 0)
      /\ g.start \in Nat /\ g.len \in Nat \ {0} /\ g.hl \in 0..5 /\ g.idr \in BOOLEAN
      /\ (g.idr <=> g.start + g.len = L /\ window[L].idr)
  BY <1>4 DEF IsPiece, Piece
<1>6. /\ window \in Seq(InputPicture) /\ L \in Nat /\ L <= poc + 1 /\ poc \in Int
      /\ \A i \in 1..L : window[i].num = poc - L + i
      /\ \A i \in 1..(L - 1) : ~IsKey(window[i])
      /\ LowDelay => L = 1
  BY <1>1 DEF WindowInv, None
<1>7. Built = poc + 1 - L + g.start
  <2>1. ~Before
    BY DEF Before
  <2> QED BY <1>1, <1>3, <2>1, BuiltIs
<1> DEFINE n == g.len
           s == g.start
<1>8. n \in Nat \ {0} /\ s \in Nat /\ s + n <= L
  BY <1>5
<1>9. /\ pics \in Seq(InputPicture) /\ Len(pics) = n
      /\ \A i \in 1..n : pics[i] = window[s + i]
  <2>1. s + 1 \in 1..(L + 1) /\ s + n \in 0..L
    BY <1>6, <1>8
  <2> HIDE DEF s, n, L, g
  <2>2. \A i \in (s + 1)..(s + n) : window[i] \in InputPicture
    BY <1>6, <1>8 DEF L
  <2>3. SubSeq(window, s + 1, s + n) \in Seq(InputPicture) /\ Len(SubSeq(window, s + 1, s + n)) = n
        /\ \A i \in 1..n : SubSeq(window, s + 1, s + n)[i] = window[s + i]
    <3>1. SubSeq(window, s + 1, s + n) = [i \in 1..n |-> window[s + i]]
      BY <1>6, <1>8
    <3>2. \A i \in 1..n : window[s + i] \in InputPicture
      BY <1>6, <1>8 DEF L
    <3> DEFINE u == [i \in 1..n |-> window[s + i]]
    <3>3. u \in [1..n -> InputPicture] /\ \A i \in 1..n : u[i] = window[s + i]
      BY <3>2
    <3>4. n \in Nat
      BY <1>8
    <3> HIDE DEF u
    <3>5. u \in Seq(InputPicture) /\ Len(u) = n
      BY <3>3, <3>4
    <3> QED BY <3>1, <3>3, <3>5 DEF u
  <2> QED BY <2>3 DEF s, n
<1> HIDE DEF L, pics, g, n, s
<1>10. \A i \in 1..(n - 1) : ~IsKey(pics[i])
  <2> TAKE i \in 1..(n - 1)
  <2>1. s + i \in 1..(L - 1) /\ i \in 1..n
    BY <1>6, <1>8
  <2>2. pics[i] = window[s + i] /\ ~IsKey(window[s + i])
    BY <1>6, <1>9, <2>1
  <2> QED BY <2>2
<1>11. g.idr <=> pics[n].idr
  <2>1. pics[n] = window[s + n] /\ n \in 1..n
    BY <1>8, <1>9
  <2>2. CASE s + n = L
    BY <1>5, <2>1, <2>2 DEF s, n
  <2>3. CASE s + n # L
    <3>1. s + n \in 1..(L - 1)
      BY <1>6, <1>8, <2>3
    <3>2. ~window[s + n].idr
      BY <1>6, <3>1 DEF IsKey
    <3> QED BY <1>5, <2>1, <2>3, <3>2 DEF s, n
  <2> QED BY <2>2, <2>3
<1>12. \A i \in 1..n : pics[i].num = Built + i - 1
  <2> TAKE i \in 1..n
  <2>1. s + i \in 1..L
    BY <1>6, <1>8
  <2>2. window[s + i].num = poc - L + (s + i)
    BY <1>6, <2>1
  <2>3. Built = poc + 1 - L + s
    BY <1>7 DEF s
  <2> QED BY <1>6, <1>8, <1>9, <2>2, <2>3
<1>13. LowDelay => n = 1
  BY <1>6, <1>8
<1>14. cfg.hl \in 0..5
  BY <1>1, ConfigOK
<1>15. MiniGopOK(g, pics)
  <2>1. g.hl \in 0..cfg.hl
    BY <1>5, <1>14
  <2> QED BY <1>5, <1>9, <1>10, <1>11, <1>12, <1>13, <2>1 DEF MiniGopOK, n
<1>16. PositionInv
  BY <1>1, <1>14 DEF PositionInv, NumbersInv
<1> QED BY <1>3, <1>4, <1>15, <1>16 DEF g, pics


\* A picture as it is built.
LEMMA PictureOK ==
    ASSUME NEW g, NEW pics, MiniGopOK(g, pics), PositionInv, altNumber \in Nat, baseNumber = altNumber,
           Built \in Nat, NEW i \in 1..g.len
    PROVE  LET p == Picture(g, pics, i)
           IN  /\ IsPicture(p) /\ Refreshes(p) /\ p.refresh = {} /\ ~p.overlay /\ p.num = Built + i - 1 /\ p.len = g.len
               /\ p.dec = DecOf(g, pics, i) /\ p.position = Positions(g, pics)[i]
               /\ (IsKey(p) <=> IsKey(pics[i])) /\ (i # g.len => ~IsKey(p))
               /\ p.altRef => ~IsKey(p) /\ cfg.overlays
               /\ p.hl = LevelsOf(g, pics[i]) /\ p.idr = pics[i].idr
               /\ p.inOrder <=> LowDelay \/ CutsShort(g, pics[i])
<1> DEFINE p == Picture(g, pics, i)
           in == pics[i]
           hl == LevelsOf(g, in)
           pos == Positions(g, pics)[i]
<1>1. p = [num |-> in.num, idr |-> in.idr, cra |-> in.cra, eos |-> in.eos, hl |-> hl,
         inOrder |-> LowDelay \/ CutsShort(g, in), position |-> pos, layer |-> Layer(hl, pos),
         idx |-> IdxInMg(i, pos, hl), len |-> g.len, dec |-> DecodeNumber(g, hl, pos, i),
         altRef |-> cfg.overlays /\ Layer(hl, pos) = 0 /\ ~IsKey(in), overlay |-> FALSE,
         refs |-> {}, last |-> None, bwd |-> None, refresh |-> {}, show |-> FALSE, existing |-> None, released |-> {}]
  BY Zenon DEF Picture
<1>2. /\ in.num \in Nat /\ {in.idr, in.cra, in.eos, IsKey(in)} \subseteq BOOLEAN
      /\ i # g.len => ~IsKey(in)
  BY InputOK
<1>3. in.num = Built + i - 1 /\ g.len \in Nat \ {0} /\ (LowDelay => g.len = 1)
  BY DEF MiniGopOK
<1>4. hl \in 0..cfg.hl /\ hl \in 0..5 /\ (cfg.hl > 0 => hl > 0)
  BY LevelsOK
<1>5. pos \in 0..(EntryCount(hl) - 1) /\ EntryCount(hl) \in Nat \ {0}
  BY <1>4, PositionsInRange, EntryCountOK
<1>6. Layer(hl, pos) \in 0..hl
  BY <1>4, <1>5, LayerOK
<1>7. DecodeNumber(g, hl, pos, i) = DecOf(g, pics, i)
  BY DEF DecOf
<1>8. DecOf(g, pics, i) \in Nat
  <2>1. DecOf(g, pics, i) \in altNumber..(altNumber + g.len - 1)
    BY DecsOK
  <2> QED BY <2>1
<1>9. LowDelay => IdxInMg(i, pos, hl) = IF pos = 0 THEN 0 ELSE (pos - 1) % EntryCount(hl)
  BY DEF IdxInMg, LowDelay
<1>10. CutsShort(g, in) => ~IsKey(in)
  BY DEF CutsShort
<1>17. in.idr => pos = 0
  <2>1. Len(pics) = g.len /\ PositionsUpTo(g, pics, Positions(g, pics), Len(pics))
    BY <1>3, PositionsOK DEF MiniGopOK
  <2>2. Positions(g, pics)[i] = NextPosition(g, pics[i], Positions(g, pics)[i - 1],
                                             IF i = 1 THEN afterIntra ELSE IsKey(pics[i - 1]))
    BY <1>3, <2>1 DEF PositionsUpTo
  <2> QED BY <2>2 DEF NextPosition
<1> HIDE DEF p, in, hl, pos
<1>11. DOMAIN p = Fields
  BY <1>1 DEF Fields
<1>12. /\ p.num = in.num /\ p.idr = in.idr /\ p.cra = in.cra /\ p.eos = in.eos /\ p.hl = hl
       /\ p.position = pos /\ p.layer = Layer(hl, pos) /\ p.idx = IdxInMg(i, pos, hl) /\ p.len = g.len
       /\ p.dec = DecodeNumber(g, hl, pos, i) /\ p.refresh = {}
  BY <1>1
<1>13. /\ p.inOrder <=> LowDelay \/ CutsShort(g, in)
       /\ p.inOrder \in BOOLEAN /\ p.overlay \in BOOLEAN /\ ~p.overlay
       /\ p.altRef => cfg.overlays /\ ~IsKey(in)
  BY <1>1
<1>14. IsKey(p) <=> IsKey(in)
  BY <1>12 DEF IsKey
<1>15. IsPicture(p)
  BY <1>2, <1>3, <1>4, <1>5, <1>6, <1>7, <1>8, <1>9, <1>10, <1>11, <1>12, <1>13, <1>14, <1>17 DEF IsPicture
<1>16. Refreshes(p)
  BY <1>12 DEF Refreshes
<1> QED BY <1>2, <1>3, <1>7, <1>12, <1>13, <1>14, <1>15, <1>16 DEF p, in, hl, pos

\* The overlay of a picture.
LEMMA OverlayOK ==
    ASSUME NEW p, IsPicture(p), p.refresh = {}, ~p.overlay, p.altRef, ~IsKey(p), cfg.overlays,
           RandomAccess, altNumber \in Nat
    PROVE  LET q == OverlayOf(p)
           IN  IsPicture(q) /\ Refreshes(q) /\ q.overlay /\ ~IsKey(q) /\ q.num = p.num /\ q.len = p.len
               /\ q.dec = altNumber + p.len
<1> DEFINE q == OverlayOf(p)
<1>1. q = [p EXCEPT !.overlay = TRUE, !.altRef = FALSE, !.layer = p.hl, !.dec = altNumber + p.len]
  BY Zenon DEF OverlayOf
<1>2. DOMAIN p = Fields
  BY DEF IsPicture
<1> HIDE DEF q
<1>3. DOMAIN q = Fields
  BY <1>1, <1>2
<1>4. /\ q.num = p.num /\ q.idr = p.idr /\ q.cra = p.cra /\ q.eos = p.eos /\ q.hl = p.hl
      /\ q.inOrder = p.inOrder /\ q.position = p.position /\ q.idx = p.idx /\ q.len = p.len
      /\ q.refresh = p.refresh /\ q.layer = p.hl /\ q.dec = altNumber + p.len /\ q.overlay = TRUE
  BY <1>1, <1>2 DEF Fields
<1>5. ~IsKey(q)
  BY <1>4 DEF IsKey
<1>6. p.len \in Nat \ {0} /\ altNumber + p.len \in Nat /\ p.hl \in 0..p.hl
  <2>1. p.len \in Nat \ {0} /\ p.hl \in Nat
    BY DEF IsPicture
  <2> QED BY <2>1
<1>7. IsPicture(q)
  BY <1>3, <1>4, <1>5, <1>6 DEF IsPicture, LowDelay
<1>8. Refreshes(q)
  BY <1>4 DEF Refreshes
<1> QED BY <1>4, <1>5, <1>7, <1>8 DEF q

\* All pictures of a mini-GOP, in display order, an overlay last.
AllOf(g, pics) ==
    [i \in 1..g.len |-> Picture(g, pics, i)]
      \o (IF Picture(g, pics, g.len).altRef THEN <<OverlayOf(Picture(g, pics, g.len))>> ELSE <<>>)

\* What they are.
LEMMA AllOK ==
    ASSUME NEW g, NEW pics, MiniGopOK(g, pics), PositionInv, altNumber \in Nat, baseNumber = altNumber,
           Built \in Nat, cfg.overlays => RandomAccess
    PROVE  LET all == AllOf(g, pics)
               N   == Len(all)
           IN  /\ N \in {g.len, g.len + 1} /\ all = [k \in 1..N |-> all[k]] /\ (N = g.len + 1 => cfg.overlays)
               /\ \A i \in 1..g.len : all[i] = Picture(g, pics, i)
               /\ N = g.len + 1 => /\ all[N] = OverlayOf(Picture(g, pics, g.len))
                                   /\ Picture(g, pics, g.len).altRef
<1> DEFINE n == g.len
           b == [i \in 1..n |-> Picture(g, pics, i)]
           f == Picture(g, pics, n)
           o == IF f.altRef THEN <<OverlayOf(f)>> ELSE <<>>
           all == AllOf(g, pics)
           S == {b[i] : i \in 1..n} \cup {OverlayOf(f)}
<1>1. n \in Nat \ {0} /\ n \in 1..n
  BY DEF MiniGopOK
<1>2. all = b \o o
  BY DEF AllOf
<1>3. f.altRef => cfg.overlays
  BY <1>1, PictureOK
<1> HIDE DEF all, f
<1>4. b \in Seq(S) /\ Len(b) = n
  <2>1. \A i \in 1..n : b[i] \in S
    BY Zenon
  <2>2. b \in [1..n -> S]
    <3> HIDE DEF S
    <3>1. b = [i \in 1..n |-> b[i]]
      OBVIOUS
    <3> HIDE DEF b
    <3> QED BY <2>1, <3>1
  <2> HIDE DEF b, S
  <2> QED BY <1>1, <2>2
<1>5. \A i \in 1..n : b[i] = Picture(g, pics, i)
  BY Zenon
<1>6. OverlayOf(f) \in S
  BY Zenon
<1>7. o \in Seq(S) /\ (f.altRef => Len(o) = 1 /\ o[1] = OverlayOf(f)) /\ (~f.altRef => Len(o) = 0)
  <2> HIDE DEF S
  <2>1. CASE f.altRef
    BY <1>6, <2>1
  <2>2. CASE ~f.altRef
    BY <2>2
  <2> QED BY <2>1, <2>2
<1> HIDE DEF b, o, S, n
<1>8. /\ all \in Seq(S) /\ Len(all) = Len(b) + Len(o)
      /\ \A i \in 1..(Len(b) + Len(o)) : all[i] = IF i <= Len(b) THEN b[i] ELSE o[i - Len(b)]
  BY <1>2, <1>4, <1>7, ConcatProperties
<1>9. all = [k \in 1..Len(all) |-> all[k]]
  BY <1>8
<1>10. Len(all) \in {n, n + 1} /\ (Len(all) = n + 1 => f.altRef)
  BY <1>1, <1>4, <1>7, <1>8
<1>11. \A i \in 1..n : all[i] = Picture(g, pics, i)
  <2> TAKE i \in 1..n
  <2>1. i \in 1..(Len(b) + Len(o)) /\ i <= Len(b)
    BY <1>1, <1>4, <1>7
  <2>2. all[i] = b[i]
    BY <1>8, <2>1
  <2> QED BY <1>5, <2>2
<1>12. Len(all) = n + 1 => all[Len(all)] = OverlayOf(f)
  <2> SUFFICES ASSUME Len(all) = n + 1
               PROVE  all[Len(all)] = OverlayOf(f)
    OBVIOUS
  <2>1. f.altRef
    BY <1>10
  <2>2. Len(o) = 1 /\ o[1] = OverlayOf(f) /\ Len(b) = n
    BY <1>4, <1>7, <2>1
  <2>3. n + 1 \in 1..(Len(b) + Len(o)) /\ ~(n + 1 <= Len(b)) /\ (n + 1) - Len(b) = 1
    BY <1>1, <2>2
  <2> QED BY <1>8, <2>2, <2>3
<1> QED BY <1>3, <1>9, <1>10, <1>11, <1>12 DEF all, n, f

\* The mini-GOP, in decode order, is as it should be, with the next numbers.
LEMMA GroupBuilt ==
    ASSUME NEW g, NEW pics, MiniGopOK(g, pics), PositionInv, altNumber \in Nat, baseNumber = altNumber,
           Built \in Nat, cfg.overlays => RandomAccess
    PROVE  LET all == AllOf(g, pics)
               q   == InDecodeOrder(all)
           IN  /\ GroupOK(q) /\ Len(q) = Len(all)
               /\ \A k \in 1..Len(q) : q[k].dec = altNumber + k - 1 /\ q[k].num \in Built..(Built + g.len - 1)
<1> DEFINE n == g.len
           all == AllOf(g, pics)
           N == Len(all)
           q == InDecodeOrder(all)
           P(i) == Picture(g, pics, i)
<1>1. n \in Nat \ {0} /\ n \in 1..n
  BY DEF MiniGopOK
<1>2. /\ N \in {n, n + 1} /\ all = [k \in 1..N |-> all[k]] /\ (N = n + 1 => cfg.overlays)
      /\ \A i \in 1..n : all[i] = P(i)
      /\ N = n + 1 => all[N] = OverlayOf(P(n)) /\ P(n).altRef
  BY AllOK, Zenon
<1>3. \A i \in 1..n : /\ IsPicture(P(i)) /\ Refreshes(P(i)) /\ P(i).refresh = {} /\ ~P(i).overlay
                      /\ P(i).num = Built + i - 1 /\ P(i).len = n /\ P(i).dec = DecOf(g, pics, i)
                      /\ (IsKey(P(i)) <=> IsKey(pics[i])) /\ (i # n => ~IsKey(P(i)))
                      /\ (P(i).altRef => ~IsKey(P(i)) /\ cfg.overlays)
                      /\ P(i).hl = LevelsOf(g, pics[i]) /\ P(i).idr = pics[i].idr
                      /\ (P(i).inOrder <=> LowDelay \/ CutsShort(g, pics[i]))
  BY PictureOK
<1>4. N = n + 1 => /\ IsPicture(all[N]) /\ Refreshes(all[N]) /\ all[N].overlay /\ ~IsKey(all[N])
                   /\ all[N].num = Built + n - 1 /\ all[N].dec = altNumber + n
                   /\ ~IsKey(P(n)) /\ RandomAccess
  <2> SUFFICES ASSUME N = n + 1
               PROVE  /\ IsPicture(all[N]) /\ Refreshes(all[N]) /\ all[N].overlay /\ ~IsKey(all[N])
                      /\ all[N].num = Built + n - 1 /\ all[N].dec = altNumber + n
                      /\ ~IsKey(P(n)) /\ RandomAccess
    OBVIOUS
  <2>1. all[N] = OverlayOf(P(n)) /\ P(n).altRef /\ cfg.overlays /\ RandomAccess
    BY <1>2
  <2>2. IsPicture(P(n)) /\ P(n).refresh = {} /\ ~P(n).overlay /\ ~IsKey(P(n)) /\ P(n).num = Built + n - 1 /\ P(n).len = n
    BY <1>1, <1>3, <2>1
  <2> HIDE DEF n, all, P, N
  <2> QED BY <2>1, <2>2, OverlayOK
<1>5. /\ \A i \in 1..n : DecOf(g, pics, i) \in altNumber..(altNumber + n - 1)
      /\ \A i, j \in 1..n : DecOf(g, pics, i) = DecOf(g, pics, j) => i = j
      /\ \A d \in altNumber..(altNumber + n - 1) : \E i \in 1..n : DecOf(g, pics, i) = d
      /\ ~(~g.idr /\ RandomAccess /\ n = EntryCount(g.hl)) =>
            \A i \in 1..n : DecOf(g, pics, i) = altNumber + i - 1
  BY DecsOK
<1>6. /\ \A i \in 1..n : LevelsOf(g, pics[i]) \in 0..5 /\ (i # n => LevelsOf(g, pics[i]) = g.hl)
                         /\ (~g.idr => LevelsOf(g, pics[i]) = g.hl)
      /\ g.hl \in 0..5
  <2>1. \A i \in 1..n : /\ LevelsOf(g, pics[i]) \in 0..5 /\ (i # n => LevelsOf(g, pics[i]) = g.hl)
                         /\ (~g.idr => LevelsOf(g, pics[i]) = g.hl)
                         /\ g.hl \in 0..5
    BY LevelsOK
  <2> QED BY <1>1, <2>1
<1>7. pics[n].idr <=> g.idr
  BY DEF MiniGopOK
<1> HIDE DEF n, all, N, q, P
<1>8. N \in Nat /\ DOMAIN all = 1..N
  BY <1>1, <1>2
\* Every picture of them, in one form.
<1>9. \A i \in 1..N : /\ IsPicture(all[i]) /\ Refreshes(all[i]) /\ all[i].num \in Built..(Built + n - 1)
                      /\ all[i].num \in Nat
                      /\ all[i].dec \in altNumber..(altNumber + N - 1)
                      /\ (i # n => ~IsKey(all[i])) /\ (all[i].overlay <=> i = n + 1)
                      /\ (i # n + 1 => all[i].num = Built + i - 1)
  <2> TAKE i \in 1..N
  <2>1. CASE i = n + 1
    <3>1. N = n + 1
      BY <1>1, <1>2, <2>1
    <3> QED BY <1>1, <1>4, <2>1, <3>1
  <2>2. CASE i # n + 1
    <3>1. i \in 1..n
      BY <1>1, <1>2, <2>2
    <3>2. DecOf(g, pics, i) \in altNumber..(altNumber + N - 1)
      <4>1. DecOf(g, pics, i) \in altNumber..(altNumber + n - 1)
        BY <1>5, <3>1
      <4> QED BY <1>1, <1>2, <4>1
    <3>3. all[i] = P(i)
      BY <1>2, <3>1
    <3>4. Built + i - 1 \in Built..(Built + n - 1) /\ Built + i - 1 \in Nat
      BY <1>1, <3>1
    <3> QED BY <1>3, <2>2, <3>1, <3>2, <3>3, <3>4
  <2> QED BY <2>1, <2>2
<1>10. \A i, j \in 1..N : all[i].dec = all[j].dec => i = j
  <2>1. \A i \in 1..n : all[i].dec = DecOf(g, pics, i)
    BY <1>2, <1>3
  <2>2. CASE N = n
    BY <1>5, <2>1, <2>2
  <2>3. CASE N = n + 1
    <3>1. all[n + 1].dec = altNumber + n
      BY <1>4, <2>3
    <3>2. \A i \in 1..n : all[i].dec \in altNumber..(altNumber + n - 1)
      BY <1>5, <2>1
    <3>3. \A i \in 1..N : i \in 1..n \/ i = n + 1
      BY <1>1, <2>3
    <3>4. \A i \in 1..n : all[i].dec # all[n + 1].dec
      BY <1>1, <3>1, <3>2
    <3> QED BY <1>5, <2>1, <3>3, <3>4
  <2> QED BY <1>2, <2>2, <2>3
<1>11. \A d \in altNumber..(altNumber + N - 1) : \E i \in 1..N : all[i].dec = d
  <2> TAKE d \in altNumber..(altNumber + N - 1)
  <2>1. \A i \in 1..n : all[i].dec = DecOf(g, pics, i) /\ i \in 1..N
    <3> TAKE i \in 1..n
    <3>1. all[i] = P(i) /\ P(i).dec = DecOf(g, pics, i)
      BY <1>2, <1>3
    <3>2. i \in 1..N
      BY <1>1, <1>2
    <3> QED BY <3>1, <3>2
  <2>2. CASE d \in altNumber..(altNumber + n - 1)
    <3>1. PICK i \in 1..n : DecOf(g, pics, i) = d
      BY <1>5, <2>2
    <3> QED BY <2>1, <3>1
  <2>3. CASE d \notin altNumber..(altNumber + n - 1)
    <3>1. N = n + 1 /\ d = altNumber + n /\ n + 1 \in 1..N
      BY <1>1, <1>2, <2>3
    <3> QED BY <1>4, <3>1
  <2> QED BY <2>2, <2>3
<1>12. /\ DOMAIN q = 1..N
       /\ \A k \in 1..N : \E i \in 1..N : q[k] = all[i] /\ all[i].dec = altNumber + k - 1
  <2>1. \A i \in 1..N : all[i].dec \in altNumber..(altNumber + N - 1)
    BY <1>9
  <2>2. Ordered(InDecodeOrder(all), all, N, altNumber)
    <3>1. Numbered(all, N, altNumber)
      BY <1>8, <1>10, <1>11, <2>1 DEF Numbered
    <3> QED BY <1>8, <3>1, InDecodeOrderOK
  <2> QED BY <2>2 DEF Ordered, q
<1>13. q = [k \in 1..N |-> q[k]] /\ Len(q) = N
  <2>1. q = [k \in DOMAIN all |-> all[CHOOSE i \in DOMAIN all : Cardinality(DecodedBefore(all, i)) = k - 1]]
    BY Zenon DEF q, InDecodeOrder
  <2>2. q = [k \in 1..N |-> q[k]]
    BY <1>8, <2>1
  <2> QED BY <1>8, <2>2, FunctionIsSeq
\* A key frame that waits.
<1>14. ASSUME IsDelayedIntra(P(n))
       PROVE  /\ N = n /\ \A i \in 1..n : all[i].dec = altNumber + i - 1
              /\ n > 1 => all[1].inOrder
  <2>1. /\ IsKey(P(n)) /\ RandomAccess /\ (P(n).idr \/ P(n).len < EntryCount(P(n).hl))
    BY <1>14 DEF IsDelayedIntra
  <2>2. N = n
    BY <1>2, <1>4, <2>1
  <2>3. g.idr \/ n < EntryCount(g.hl)
    <3>1. P(n).idr = pics[n].idr /\ P(n).len = n /\ P(n).hl = LevelsOf(g, pics[n])
      BY <1>1, <1>3
    <3>2. ~g.idr => LevelsOf(g, pics[n]) = g.hl
      BY <1>1, <1>6
    <3> QED BY <1>7, <2>1, <3>1, <3>2
  <2>4. EntryCount(g.hl) \in Nat
    BY <1>6, EntryCountOK
  <2>5. \A i \in 1..n : DecOf(g, pics, i) = altNumber + i - 1
    BY <1>1, <1>5, <2>3, <2>4
  <2>6. \A i \in 1..n : all[i].dec = altNumber + i - 1
    BY <1>2, <1>3, <2>5
  <2>7. n > 1 => all[1].inOrder
    <3> SUFFICES ASSUME n > 1
                 PROVE  all[1].inOrder
      OBVIOUS
    <3>1. 1 \in 1..n /\ 1 # n
      BY <1>1
    <3>2. LevelsOf(g, pics[1]) = g.hl /\ ~IsKey(pics[1])
      BY <1>3, <1>6, <3>1
    <3>3. CutsShort(g, pics[1])
      BY <2>1, <2>3, <3>2 DEF CutsShort, n
    <3> QED BY <1>2, <1>3, <3>1, <3>3
  <2> QED BY <2>2, <2>6, <2>7
<1>15. \A k \in 1..N : /\ IsPicture(q[k]) /\ Refreshes(q[k]) /\ q[k].num \in Built..(Built + n - 1)
                       /\ q[k].dec = altNumber + k - 1
                       /\ IsDelayedIntra(q[k]) => k = N /\ (k > 1 => q[1].inOrder)
  <2> TAKE k \in 1..N
  <2>1. PICK i \in 1..N : q[k] = all[i] /\ all[i].dec = altNumber + k - 1
    BY <1>12
  <2>2. ASSUME IsDelayedIntra(all[i])
        PROVE  k = N /\ (k > 1 => q[1].inOrder)
    <3>1. IsKey(all[i])
      BY <2>2 DEF IsDelayedIntra
    <3>2. i = n
      BY <1>9, <3>1
    <3>3. all[n] = P(n)
      BY <1>1, <1>2
    <3>4. IsDelayedIntra(P(n))
      BY <2>2, <3>2, <3>3
    <3>5. /\ N = n /\ \A j \in 1..n : all[j].dec = altNumber + j - 1
          /\ n > 1 => all[1].inOrder
      BY <1>14, <3>4
    <3>6. k = N
      <4>1. all[n].dec = altNumber + n - 1 /\ all[n].dec = altNumber + k - 1
        BY <1>1, <2>1, <3>2, <3>5
      <4>2. n \in Nat /\ k \in Nat
        BY <1>1, <1>8
      <4> QED BY <3>5, <4>1, <4>2
    <3>7. ASSUME k > 1
          PROVE  q[1].inOrder
      <4>1. 1 \in 1..N /\ 1 \in 1..n /\ n > 1
        BY <1>1, <3>5, <3>6, <3>7
      <4>2. PICK j \in 1..N : q[1] = all[j] /\ all[j].dec = altNumber + 1 - 1
        BY <1>12, <4>1
      <4>3. all[1].dec = altNumber + 1 - 1
        BY <3>5, <4>1
      <4>4. j = 1
        BY <1>10, <4>1, <4>2, <4>3
      <4> QED BY <3>5, <4>1, <4>2, <4>4
    <3> QED BY <3>6, <3>7
  <2>3. IsPicture(all[i]) /\ Refreshes(all[i]) /\ all[i].num \in Built..(Built + n - 1)
    BY <1>9
  <2> QED BY <2>1, <2>2, <2>3
<1>16. \A j, k \in 1..N : j # k =>
          /\ q[j].num # q[k].num \/ q[j].overlay \/ q[k].overlay
          /\ ~IsKey(q[j]) \/ ~IsKey(q[k])
  <2> SUFFICES ASSUME NEW j \in 1..N, NEW k \in 1..N, j # k
               PROVE  /\ q[j].num # q[k].num \/ q[j].overlay \/ q[k].overlay
                      /\ ~IsKey(q[j]) \/ ~IsKey(q[k])
    OBVIOUS
  <2>1. PICK a \in 1..N : q[j] = all[a] /\ all[a].dec = altNumber + j - 1
    BY <1>12
  <2>2. PICK b \in 1..N : q[k] = all[b] /\ all[b].dec = altNumber + k - 1
    BY <1>12
  <2>3. a # b
    <3>1. altNumber + j - 1 # altNumber + k - 1
      BY <1>8
    <3> QED BY <2>1, <2>2, <3>1
  <2>4. ~IsKey(all[a]) \/ ~IsKey(all[b])
    BY <1>9, <2>3
  <2>5. all[a].num # all[b].num \/ all[a].overlay \/ all[b].overlay
    <3>1. CASE a = n + 1 \/ b = n + 1
      BY <1>9, <3>1
    <3>2. CASE a # n + 1 /\ b # n + 1
      <4>1. all[a].num = Built + a - 1 /\ all[b].num = Built + b - 1
        BY <1>9, <3>2
      <4> QED BY <1>8, <2>3, <4>1
    <3> QED BY <3>1, <3>2
  <2> QED BY <2>1, <2>2, <2>4, <2>5
<1>17. GroupOK(q)
  BY <1>8, <1>13, <1>15, <1>16 DEF GroupOK
<1> QED BY <1>13, <1>15, <1>17 DEF q, all, N, n

\* An instantaneous refresh has position 0, whatever the levels of its mini-GOP.
LEMMA LastPosition ==
    ASSUME NEW g, NEW pics, MiniGopOK(g, pics), PositionInv
    PROVE  Positions(g, pics)[g.len] \in 0..(EntryCount(g.hl) - 1)
<1> DEFINE n == g.len
           pos == Positions(g, pics)
<1>1. n \in Nat \ {0} /\ Len(pics) = n /\ n \in 1..n
  BY DEF MiniGopOK
<1>2. pos[n] \in 0..(EntryCount(LevelsOf(g, pics[n])) - 1) /\ EntryCount(g.hl) \in Nat \ {0}
  BY <1>1, PositionsInRange, LevelsOK, EntryCountOK
<1>3. CASE pics[n].idr
  <2>1. PositionsUpTo(g, pics, pos, n)
    BY <1>1, PositionsOK
  <2>2. pos = [i \in 0..n |->
               IF i = 0 THEN EntryPosition(g, pics[1])
               ELSE NextPosition(g, pics[i], pos[i - 1], IF i = 1 THEN afterIntra ELSE IsKey(pics[i - 1]))]
    BY <2>1 DEF PositionsUpTo
  <2>3. n \in 0..n /\ n # 0
    BY <1>1
  <2> HIDE DEF pos, n
  <2>4. pos[n] = NextPosition(g, pics[n], pos[n - 1], IF n = 1 THEN afterIntra ELSE IsKey(pics[n - 1]))
    BY <2>2, <2>3, Zenon
  <2>5. pos[n] = 0
    BY <1>3, <2>4 DEF NextPosition
  <2> QED BY <1>2, <2>5 DEF n, pos
<1>4. CASE ~pics[n].idr
  <2>1. LevelsOf(g, pics[n]) = g.hl
    BY <1>4, Zenon DEF LevelsOf
  <2> QED BY <1>2, <2>1
<1> QED BY <1>3, <1>4

\* What a mini-GOP is does not depend on the state.
LEMMA GroupCarries ==
    ASSUME cfg' = cfg, GroupOK(group')
    PROVE  GroupOK(group)'
<1>1. LowDelay' <=> LowDelay
  BY DEF LowDelay, RandomAccess
<1>2. group' = [k \in 1..Len(group') |-> group'[k]] /\ Len(group') \in Nat
  BY DEF GroupOK
<1>3. \A k \in 1..Len(group') : IsPicture(group[k])' /\ Refreshes(group[k])'
  <2> TAKE k \in 1..Len(group')
  <2>1. IsPicture(group'[k]) /\ Refreshes(group'[k])
    BY DEF GroupOK
  <2>2. IsPicture(group[k])'
    BY <1>1, <2>1 DEF IsPicture
  <2> QED BY <2>1, <2>2 DEF Refreshes
<1>4. \A k \in 1..Len(group') : IsDelayedIntra(group[k])' => k = Len(group') /\ (k > 1 => group'[1].inOrder)
  <2> TAKE k \in 1..Len(group')
  <2>1. IsDelayedIntra(group'[k]) => k = Len(group') /\ (k > 1 => group'[1].inOrder)
    BY DEF GroupOK
  <2>2. IsDelayedIntra(group[k])' <=> IsDelayedIntra(group'[k])
    BY DEF IsDelayedIntra, RandomAccess
  <2> QED BY <2>1, <2>2
<1>5. \A j, k \in 1..Len(group') : j # k =>
          /\ group'[j].num # group'[k].num \/ group'[j].overlay \/ group'[k].overlay
          /\ ~IsKey(group'[j]) \/ ~IsKey(group'[k])
  BY DEF GroupOK
<1> QED BY <1>2, <1>3, <1>4, <1>5 DEF GroupOK

\* Building a mini-GOP keeps the invariant.
LEMMA StartKeeps ==
    ASSUME Inv, StartMiniGop
    PROVE  Inv'
<1> DEFINE g == Head(miniGops)
           pics == SubSeq(window, g.start + 1, g.start + g.len)
           all == AllOf(g, pics)
           n == g.len
           N == Len(all)
<1>1. phase = "build" /\ miniGops # <<>>
  BY DEF StartMiniGop
<1>2. g = miniGops[1] /\ IsPiece(g) /\ MiniGopOK(g, pics) /\ PositionInv
  BY <1>1, MiniGopReady
<1>3. n \in Nat \ {0} /\ n \in 1..n /\ g.hl \in 0..cfg.hl
  BY <1>2 DEF MiniGopOK
<1>4. /\ prevLevels' = g.hl /\ position' = Picture(g, pics, n).position /\ afterIntra' = IsKey(pics[n])
      /\ altNumber' = altNumber + N /\ baseNumber' = baseNumber + N /\ group' = InDecodeOrder(all)
      /\ miniGops' = Tail(miniGops) /\ at' = 1 /\ phase' = "decide"
      /\ cfg' = cfg /\ poc' = poc /\ window' = window /\ forcedLeft' = forcedLeft /\ startup' = startup
      /\ UNCHANGED <<toggles, pdDpb, sending>>
  <2> DEFINE built == [i \in 1..g.len |-> Picture(g, pics, i)]
             final == built[g.len]
             overlays == IF final.altRef THEN <<OverlayOf(final)>> ELSE <<>>
  <2>1. final = Picture(g, pics, n)
    BY <1>3
  <2>2. /\ prevLevels' = g.hl /\ position' = final.position /\ afterIntra' = IsKey(pics[g.len])
        /\ altNumber' = altNumber + Len(built \o overlays) /\ baseNumber' = baseNumber + Len(built \o overlays)
        /\ group' = InDecodeOrder(built \o overlays)
        /\ miniGops' = Tail(miniGops) /\ at' = 1 /\ phase' = "decide"
        /\ UNCHANGED <<cfg, poc, window, forcedLeft, startup, toggles, pdDpb, sending>>
    BY Zenon DEF StartMiniGop
  <2> HIDE DEF final
  <2>3. built \o overlays = all
    BY <2>1 DEF AllOf
  <2> HIDE DEF built, overlays
  <2> QED BY <2>1, <2>2, <2>3
<1>5. WindowInv /\ PiecesInv /\ NumbersInv /\ GroupInv /\ Toggles /\ BuffersInv /\ SendInv
  BY DEF Inv
<1>6. /\ Built \in Nat /\ altNumber \in Nat /\ baseNumber = altNumber /\ (cfg.overlays => RandomAccess)
      /\ altNumber \in Built..(2 * Built) /\ (~cfg.overlays => altNumber = Built) /\ group = <<>> /\ Len(group) = 0
      /\ mgId \in Nat /\ mgId <= altNumber
  <2>1. Built \in Nat
    BY <1>5, BuiltIs
  <2>2. group = <<>> /\ Len(group) = 0
    BY <1>1, <1>5 DEF GroupInv
  <2>3. altNumber \in Built..(2 * Built) /\ mgId \in Nat /\ mgId + Len(group) <= altNumber
        /\ baseNumber = altNumber /\ (~cfg.overlays => altNumber = Built)
    BY <1>5 DEF NumbersInv
  <2>4. cfg.overlays => RandomAccess
    BY <1>5, ConfigOK
  <2> QED BY <2>1, <2>2, <2>3, <2>4
<1>7. N \in {n, n + 1} /\ (N = n + 1 => cfg.overlays)
  BY <1>2, <1>6, AllOK
<1>8. /\ GroupOK(group') /\ Len(group') = N
      /\ \A k \in 1..N : group'[k].dec = altNumber + k - 1 /\ group'[k].num \in Built..(Built + n - 1)
  BY <1>2, <1>4, <1>6, GroupBuilt
<1>9. position' \in 0..(EntryCount(g.hl) - 1)
  <2>1. position' = Positions(g, pics)[n]
    BY <1>2, <1>3, <1>4, <1>6, PictureOK
  <2> QED BY <1>2, <2>1, LastPosition
<1>10. /\ g.start \in Nat /\ g.start + n <= Len(window)
       /\ miniGops \in Seq(Piece) /\ (\A k \in 1..Len(miniGops) : IsPiece(miniGops[k]))
       /\ (\A k \in 1..(Len(miniGops) - 1) : miniGops[k + 1].start = miniGops[k].start + miniGops[k].len)
       /\ miniGops[Len(miniGops)].start + miniGops[Len(miniGops)].len = Len(window)
       /\ Len(window) \in Nat /\ poc \in Int /\ Len(window) <= poc + 1
  <2>1. Len(window) \in Nat /\ poc \in Int /\ Len(window) <= poc + 1
    BY <1>5 DEF WindowInv, None
  <2>2. g.start \in Nat /\ g.start + n <= Len(window)
    BY <1>2 DEF IsPiece, Piece
  <2> QED BY <1>1, <1>5, <2>1, <2>2 DEF PiecesInv, Chained
<1> HIDE DEF g, pics, all, n, N
<1>11. WindowInv'
  <2>1. (LowDelay' <=> LowDelay)
    BY <1>4 DEF LowDelay, RandomAccess
  <2> QED BY <1>1, <1>4, <1>5, <2>1 DEF WindowInv, IsKey
<1> DEFINE M == Len(miniGops)
<1>12. /\ M \in Nat \ {0} /\ miniGops' \in Seq(Piece) /\ Len(miniGops') = M - 1
       /\ \A k \in 1..(M - 1) : miniGops'[k] = miniGops[k + 1]
  BY <1>1, <1>4, <1>10
<1>13. PiecesInv'
  <2>1. \A k \in 1..(M - 1) : IsPiece(miniGops'[k])
    <3> TAKE k \in 1..(M - 1)
    <3>1. k + 1 \in 1..M
      BY <1>12
    <3> QED BY <1>10, <1>12, <3>1
  <2>2. \A k \in 1..(M - 1) : IsPiece(miniGops[k])'
    BY <1>4, <2>1 DEF IsPiece
  <2>3. \A k \in 1..(M - 2) : miniGops'[k + 1].start = miniGops'[k].start + miniGops'[k].len
    <3> TAKE k \in 1..(M - 2)
    <3>1. k \in 1..(M - 1) /\ k + 1 \in 1..(M - 1)
      BY <1>12
    <3> QED BY <1>10, <1>12, <3>1
  <2>4. miniGops' # <<>> => miniGops'[M - 1].start + miniGops'[M - 1].len = Len(window)
    <3> SUFFICES ASSUME miniGops' # <<>>
                 PROVE  miniGops'[M - 1].start + miniGops'[M - 1].len = Len(window)
      OBVIOUS
    <3>1. M - 1 \in 1..(M - 1) /\ (M - 1) + 1 = M
      BY <1>12
    <3> QED BY <1>10, <1>12, <3>1
  <2>5. Chained(miniGops)'
    <3>1. (M - 1) - 1 = M - 2
      BY <1>12
    <3> QED BY <1>4, <1>12, <2>2, <2>3, <2>4, <3>1 DEF Chained
  <2> QED BY <1>4, <2>5 DEF PiecesInv, Before
<1>14. Built' = Built + n
  <2>1. ~Before /\ ~Before'
    BY <1>1, <1>4 DEF Before
  <2>2. Built = poc + 1 - Len(window) + g.start
    BY <1>1, <1>2, <1>5, <2>1, BuiltIs
  <2>3. CASE miniGops' = <<>>
    <3>1. Built' = poc + 1 - Len(window) + Len(window)
      BY <1>4, <2>1, <2>3 DEF Built
    <3>2. M = 1
      BY <1>12, <2>3
    <3>3. g.start + n = Len(window)
      BY <1>2, <1>10, <3>2 DEF n
    <3> QED BY <1>3, <1>10, <2>2, <3>1, <3>3
  <2>4. CASE miniGops' # <<>>
    <3>1. Built' = poc + 1 - Len(window) + miniGops'[1].start
      BY <1>4, <2>1, <2>4 DEF Built
    <3>2. 1 \in 1..(M - 1)
      BY <1>12, <2>4
    <3>3. miniGops'[1].start = g.start + n
      BY <1>2, <1>10, <1>12, <3>2 DEF n
    <3> QED BY <1>3, <1>10, <2>2, <3>1, <3>3
  <2> QED BY <2>3, <2>4
<1>15. First = altNumber /\ First' = altNumber /\ altNumber' = altNumber + N /\ N \in Nat
  <2>1. N \in Nat
    BY <1>3, <1>7
  <2> QED BY <1>4, <1>6, <1>8, <2>1 DEF First
<1>16. NumbersInv'
  <2>1. altNumber' \in Built'..(2 * Built') /\ baseNumber' = altNumber' /\ (~cfg.overlays => altNumber' = Built')
    BY <1>3, <1>4, <1>6, <1>7, <1>14
  <2>2. afterIntra' \in BOOLEAN
    BY <1>4 DEF IsKey
  <2>3. poc' # None /\ phase' # "split"
    <3>1. poc # None
      <4>1. Len(window) # 0
        BY <1>3, <1>10
      <4> QED BY <1>10, <4>1 DEF None
    <3> QED BY <1>4, <3>1
  <2>4. mgId' \in Nat /\ Len(group') \in Nat /\ mgId' + Len(group') <= altNumber'
    <3>1. mgId' = mgId
      BY <1>4 DEF sending
    <3> QED BY <1>6, <1>8, <1>15, <3>1
  <2> QED BY <1>3, <1>4, <1>5, <1>9, <2>1, <2>2, <2>3, <2>4 DEF NumbersInv
<1>17. GroupInv'
  <2>1. GroupOK(group)'
    BY <1>4, <1>8, GroupCarries
  <2>2. group' # <<>> /\ 1 \in 1..(Len(group') + 1)
    <3>1. Len(group') # 0 /\ Len(group') \in Nat
      BY <1>3, <1>7, <1>8
    <3> QED BY <3>1
  <2>3. \A k \in 1..N : group'[k].dec = First' + k - 1 /\ group'[k].num < Built'
    <3> TAKE k \in 1..N
    <3>1. group'[k].num \in Built..(Built + n - 1)
      BY <1>8
    <3>2. group'[k].num < Built + n
      BY <1>3, <1>6, <3>1
    <3> QED BY <1>8, <1>14, <1>15, <3>2
  <2> QED BY <1>4, <1>8, <2>1, <2>2, <2>3 DEF GroupInv
<1>18. Toggles'
  BY <1>4, <1>5 DEF Toggles, toggles, RandomAccess
<1>19. BuffersInv'
  <2>1. Decided = 0 /\ Assigned = 0 /\ Decided' = 0 /\ Assigned' = 0
    BY <1>1, <1>4 DEF Decided, Assigned
  <2>2. dpb' = dpb /\ pdDpb' = pdDpb
    BY <1>4 DEF toggles
  <2>3. ASSUME NEW b, BufferOK(b, 0)
        PROVE  /\ \A i \in Slot : b[i].num < Built' /\ b[i].dec < First' + 0
               /\ \A i \in Slot : \A k \in (0 + 1)..Len(group') : group'[k].overlay \/ b[i].num # group'[k].num
    <3>1. \A i \in Slot : b[i].num < Built /\ b[i].dec < First + 0 /\ b[i].num \in Nat \cup {None}
      BY <2>3 DEF BufferOK, Entry
    <3>2. \A k \in 1..N : group'[k].num >= Built /\ group'[k].num \in Nat
      BY <1>6, <1>8
    <3>3. \A i \in Slot : b[i].num < Built'
      BY <1>3, <1>6, <1>14, <3>1 DEF None
    <3>4. ASSUME NEW i \in Slot, NEW k \in (0 + 1)..Len(group')
          PROVE  b[i].num # group'[k].num
      <4>1. k \in 1..N
        BY <1>8
      <4> QED BY <1>6, <3>1, <3>2, <4>1 DEF None
    <3> QED BY <1>15, <3>1, <3>3, <3>4
  <2>4. BufferOK(dpb, 0) /\ BufferOK(pdDpb, 0)
    BY <1>5, <2>1 DEF BuffersInv
  <2>5. BufferOK(dpb, Decided)' /\ BufferOK(pdDpb, Assigned)'
    BY <2>1, <2>2, <2>3, <2>4 DEF BufferOK
  <2> QED BY <2>5 DEF BuffersInv
<1>20. SendInv'
  <2>1. sent' = sent /\ delayed' = delayed /\ mgId' = mgId /\ First' = First
    BY <1>4, <1>15 DEF sending
  <2>2. IsSeq(sent)' /\ IsSeq(delayed)'
    BY <1>5, <2>1 DEF SendInv, IsSeq
  <2>3. Whole(sent)'
    BY <1>5, <2>1 DEF SendInv
  <2> QED BY <1>5, <2>1, <2>2, <2>3 DEF SendInv
<1> QED BY <1>11, <1>13, <1>16, <1>17, <1>18, <1>19, <1>20 DEF Inv

\* A picture that has been given references, slots or what it shows: no more.
Alike(new, p) ==
    /\ DOMAIN new = Fields
    /\ new.num = p.num /\ new.idr = p.idr /\ new.cra = p.cra /\ new.eos = p.eos /\ new.hl = p.hl
    /\ new.inOrder = p.inOrder /\ new.position = p.position /\ new.layer = p.layer /\ new.idx = p.idx
    /\ new.len = p.len /\ new.dec = p.dec /\ new.overlay = p.overlay

\* It is as good a picture as before.
LEMMA AlikeOK ==
    ASSUME NEW p, IsPicture(p), NEW new, Alike(new, p)
    PROVE  IsPicture(new) /\ (IsKey(new) <=> IsKey(p)) /\ (IsDelayedIntra(new) <=> IsDelayedIntra(p))
<1>1. IsKey(new) <=> IsKey(p)
  BY DEF Alike, IsKey
<1>2. IsDelayedIntra(new) <=> IsDelayedIntra(p)
  BY <1>1 DEF Alike, IsDelayedIntra
<1>3. IsPicture(new)
  BY <1>1 DEF Alike, IsPicture
<1> QED BY <1>1, <1>2, <1>3

\* And so is the mini-GOP.
LEMMA AlikeGroup ==
    ASSUME NEW q, GroupOK(q), NEW r, r = [k \in 1..Len(q) |-> r[k]],
           \A k \in 1..Len(q) : Alike(r[k], q[k]) /\ Refreshes(r[k])
    PROVE  GroupOK(r) /\ Len(r) = Len(q)
<1>1. /\ Len(q) \in Nat
      /\ \A k \in 1..Len(q) : /\ IsPicture(q[k])
                              /\ IsDelayedIntra(q[k]) => k = Len(q) /\ (k > 1 => q[1].inOrder)
      /\ \A j, k \in 1..Len(q) : j # k =>
            /\ q[j].num # q[k].num \/ q[j].overlay \/ q[k].overlay
            /\ ~IsKey(q[j]) \/ ~IsKey(q[k])
  BY DEF GroupOK
<1>2. Len(r) = Len(q)
  BY <1>1, FunctionIsSeq
<1>3. \A k \in 1..Len(q) : /\ IsPicture(r[k]) /\ (IsKey(r[k]) <=> IsKey(q[k]))
                           /\ (IsDelayedIntra(r[k]) <=> IsDelayedIntra(q[k]))
                           /\ r[k].num = q[k].num /\ r[k].overlay = q[k].overlay /\ r[k].inOrder = q[k].inOrder
  <2> TAKE k \in 1..Len(q)
  <2>1. IsPicture(q[k]) /\ Alike(r[k], q[k])
    BY <1>1
  <2> QED BY <2>1, AlikeOK DEF Alike
<1>4. \A k \in 1..Len(q) : IsDelayedIntra(r[k]) => k = Len(q) /\ (k > 1 => r[1].inOrder)
  <2> TAKE k \in 1..Len(q)
  <2>1. 1 \in 1..Len(q)
    BY <1>1
  <2> QED BY <1>1, <1>3, <2>1
<1>5. \A j, k \in 1..Len(q) : j # k =>
            /\ r[j].num # r[k].num \/ r[j].overlay \/ r[k].overlay
            /\ ~IsKey(r[j]) \/ ~IsKey(r[k])
  BY <1>1, <1>3
<1> QED BY <1>1, <1>2, <1>3, <1>4, <1>5 DEF GroupOK

\* A buffer that gets a picture in some of its slots.
LEMMA RefreshedOK ==
    ASSUME NEW b, NEW at0 \in 1..Len(group), BufferOK(b, at0 - 1), GroupInv, NEW slots \in SUBSET Slot,
           group[at0].overlay => slots = {}, Built \in Nat, First \in Nat, cfg.hl \in 0..5
    PROVE  BufferOK(Refreshed(b, slots, group[at0]), at0)
<1> DEFINE p == group[at0]
           e == [num |-> p.num, dec |-> p.dec, layer |-> p.layer]
           r == Refreshed(b, slots, p)
           done == at0 - 1
<1>1. /\ Len(group) \in Nat /\ IsPicture(p) /\ p.dec = First + at0 - 1 /\ p.num < Built
      /\ \A k \in 1..Len(group) : k # at0 => p.num # group[k].num \/ p.overlay \/ group[k].overlay
  BY DEF GroupInv, GroupOK
<1>2. /\ p.num \in Nat /\ p.dec \in Nat /\ p.layer \in 0..5
  <2>1. /\ p.num \in Nat /\ p.dec \in Nat /\ p.hl \in 0..cfg.hl /\ p.layer \in 0..p.hl
    BY <1>1 DEF IsPicture
  <2> QED BY <2>1
<1>3. /\ b \in [Slot -> Entry]
      /\ \A i \in Slot :
          /\ b[i].num < Built /\ b[i].dec < First + done
          /\ b[i].num = None \/ b[i].dec = None => b[i] = Nobody
          /\ \A j \in Slot : b[i].num = b[j].num \/ b[i].dec = b[j].dec => b[i] = b[j]
          /\ \A k \in (done + 1)..Len(group) : group[k].overlay \/ b[i].num # group[k].num
  BY DEF BufferOK
<1> HIDE DEF p
<1>4. e \in Entry /\ e.num = p.num /\ e.dec = p.dec /\ e.layer = p.layer
  BY <1>2 DEF Entry
<1>5. r = [i \in Slot |-> IF i \in slots THEN e ELSE b[i]]
  BY Zenon DEF Refreshed
<1> HIDE DEF e, r
<1>6. r \in [Slot -> Entry] /\ \A i \in Slot : r[i] = IF i \in slots THEN e ELSE b[i]
  BY <1>3, <1>4, <1>5
<1>7. at0 \in Nat \ {0} /\ done + 1 = at0 /\ at0 \in (done + 1)..Len(group) /\ done \in Nat
  BY <1>1
<1>8. \A i \in Slot : b[i].num \in Nat \cup {None} /\ b[i].dec \in Nat \cup {None}
  BY <1>3 DEF Entry
<1>9. ASSUME NEW i \in Slot, i \in slots
      PROVE  ~p.overlay
  BY <1>9 DEF p
<1>10. ASSUME NEW i \in Slot, ~p.overlay
       PROVE  b[i].num # e.num /\ b[i].dec # e.dec
  <2>1. b[i].num # p.num
    BY <1>3, <1>7, <1>10 DEF p
  <2>2. b[i].dec < First + done
    BY <1>3
  <2>3. p.dec = First + done
    BY <1>1, <1>7
  <2>4. b[i].dec # p.dec
    BY <1>7, <1>8, <2>2, <2>3 DEF None
  <2> QED BY <1>4, <2>1, <2>4
<1>11. ASSUME NEW i \in Slot
       PROVE  /\ r[i].num < Built /\ r[i].dec < First + at0
              /\ r[i].num = None \/ r[i].dec = None => r[i] = Nobody
  <2>1. CASE i \in slots
    <3>1. r[i] = e /\ e.num \in Nat /\ e.dec \in Nat /\ e.num < Built /\ e.dec = First + at0 - 1
      BY <1>1, <1>2, <1>4, <1>6, <2>1
    <3> QED BY <1>7, <3>1 DEF None
  <2>2. CASE i \notin slots
    <3>1. r[i] = b[i]
      BY <1>6, <2>2
    <3>2. b[i].dec < First + at0
      BY <1>3, <1>7, <1>8 DEF None
    <3> QED BY <1>3, <3>1, <3>2
  <2> QED BY <2>1, <2>2
<1>12. ASSUME NEW i \in Slot, NEW j \in Slot, r[i].num = r[j].num \/ r[i].dec = r[j].dec
       PROVE  r[i] = r[j]
  <2>1. CASE i \in slots /\ j \in slots
    BY <1>6, <2>1
  <2>2. CASE i \notin slots /\ j \notin slots
    BY <1>3, <1>6, <1>12, <2>2
  <2>3. CASE i \in slots /\ j \notin slots
    BY <1>6, <1>9, <1>10, <1>12, <2>3
  <2>4. CASE i \notin slots /\ j \in slots
    BY <1>6, <1>9, <1>10, <1>12, <2>4
  <2> QED BY <2>1, <2>2, <2>3, <2>4
<1>13. ASSUME NEW i \in Slot, NEW k \in (at0 + 1)..Len(group)
       PROVE  group[k].overlay \/ r[i].num # group[k].num
  <2>1. k \in 1..Len(group) /\ k # at0 /\ k \in (done + 1)..Len(group)
    BY <1>1, <1>7
  <2>2. CASE i \in slots
    <3>1. ~p.overlay /\ r[i].num = p.num
      BY <1>4, <1>6, <1>9, <2>2
    <3> QED BY <1>1, <2>1, <3>1
  <2>3. CASE i \notin slots
    BY <1>3, <1>6, <2>1, <2>3
  <2> QED BY <2>2, <2>3
<1>14. BufferOK(r, at0)
  BY <1>6, <1>11, <1>12, <1>13 DEF BufferOK
<1> QED BY <1>14 DEF r, p

-----------------------------------------------------------------------------
(* The choice of slots.                                                     *)

\* A circular counter stays in its range.
LEMMA CircOK ==
    ASSUME NEW lo \in Int, NEW hi \in Int, NEW x \in lo..hi
    PROVE  CircInc(x, lo, hi) \in lo..hi /\ CircDec(x, lo, hi) \in lo..hi
<1>1. CircInc(x, lo, hi) \in lo..hi
  BY DEF CircInc
<1>2. CircDec(x, lo, hi) \in lo..hi
  BY DEF CircDec
<1> QED BY <1>1, <1>2

\* The parts of a choice.
LEMMA ChoiceIs ==
    ASSUME NEW row, NEW l0, NEW l1, NEW refresh
    PROVE  /\ Choice(row, l0, l1, refresh).row = row /\ Choice(row, l0, l1, refresh).lay0 = l0
           /\ Choice(row, l0, l1, refresh).lay1 = l1 /\ Choice(row, l0, l1, refresh).refresh = refresh
  BY DEF Choice

\* A choice whose slots and toggles are in range.
Within(c, n0, n1) == c.refresh \subseteq Slot /\ c.lay0 \in 0..n0 /\ c.lay1 \in 0..n1

\* A choice is within the ranges of its parts.
LEMMA WithinIs ==
    ASSUME NEW row, NEW l0, NEW l1, NEW refresh, NEW n0, NEW n1, refresh \subseteq Slot, l0 \in 0..n0, l1 \in 0..n1
    PROVE  Within(Choice(row, l0, l1, refresh), n0, n1)
BY ChoiceIs DEF Within

\* The slots, by number.
LEMMA SlotsAre == /\ \A k \in 0..7 : k \in Slot
                  /\ \A lo \in 0..7 : lo..7 \subseteq Slot
  BY DEF Slot, REF_FRAMES

\* Flat real-time coding.
LEMMA RtcFlatOK ==
    ASSUME cfg.flatMaxRefs \in 1..4, lay0 \in 0..(cfg.flatMaxRefs - 1), lay1 \in 0..1
    PROVE  Within(RtcFlat(cfg, lay0, lay1), cfg.flatMaxRefs - 1, 1)
<1> DEFINE last == cfg.flatMaxRefs - 1
           new == CircInc(lay0, 0, last)
<1>1. last \in 0..3
  OBVIOUS
<1>2. new \in 0..last
  BY <1>1 DEF CircInc
<1>3. {new} \cup (cfg.flatMaxRefs..7) \subseteq Slot
  <2> HIDE DEF new
  <2> QED BY <1>1, <1>2, SlotsAre
<1> DEFINE row == <<lay0, CircDec(lay0, 0, last), CircDec(CircDec(lay0, 0, last), 0, last),
                    CircDec(CircDec(CircDec(lay0, 0, last), 0, last), 0, last), lay0, lay0, lay0>>
<1>4. RtcFlat(cfg, lay0, lay1) = Choice(row, new, lay1, {new} \cup (cfg.flatMaxRefs..7))
  BY Zenon DEF RtcFlat
<1> HIDE DEF new, row
<1> QED BY <1>2, <1>3, <1>4, WithinIs DEF last

\* Constant quality.
LEMMA LowDelayCrfOK ==
    ASSUME lay0 \in 0..2, lay1 \in 0..2, NEW p, NEW isRef \in BOOLEAN, cfg.reduce \in 0..2
    PROVE  Within(LowDelayCrf(cfg, p, isRef, lay0, lay1), 2, 2)
<1> DEFINE offset == IF cfg.reduce = 0 THEN LAY1_OFF ELSE 1
           base == CircInc(lay0, 0, 2)
           other == CircInc(lay1, 0, 2)
           c == LowDelayCrf(cfg, p, isRef, lay0, lay1)
<1>1. base \in 0..2 /\ other \in 0..2
  BY DEF CircInc
<1>2. offset \in 1..3
  BY DEF LAY1_OFF
<1>3. \E row :
      \/ c = Choice(row, base, lay1, {base})
      \/ c = Choice(row, lay0, lay1, {lay0} \cup (IF cfg.reduce = 2 THEN 2..7 ELSE 4..7))
      \/ c = Choice(row, lay0, lay1, {})
      \/ c = Choice(row, lay0, lay1, {1})
      \/ c = Choice(row, lay0, other, {offset + other})
  <2> HIDE DEF base, other, offset
  <2>1. CASE p.layer = 0 /\ cfg.reduce = 0
    BY <2>1 DEF LowDelayCrf, base
  <2>2. CASE p.layer = 0 /\ cfg.reduce > 0
    BY <2>2 DEF LowDelayCrf
  <2>3. CASE p.layer # 0 /\ ~isRef
    BY <2>3 DEF LowDelayCrf
  <2>4. CASE p.layer # 0 /\ isRef /\ cfg.reduce = 2
    BY <2>4 DEF LowDelayCrf
  <2>5. CASE p.layer # 0 /\ isRef /\ cfg.reduce # 2
    BY <2>5 DEF LowDelayCrf, other, offset
  <2>6. \/ p.layer = 0 /\ cfg.reduce = 0
        \/ p.layer = 0 /\ cfg.reduce > 0
        \/ p.layer # 0 /\ ~isRef
        \/ p.layer # 0 /\ isRef /\ cfg.reduce = 2
        \/ p.layer # 0 /\ isRef /\ cfg.reduce # 2
    OBVIOUS
  <2> QED BY ONLY <2>1, <2>2, <2>3, <2>4, <2>5, <2>6, Zenon
<1> HIDE DEF base, other, offset, c
<1>4. PICK row :
      \/ c = Choice(row, base, lay1, {base})
      \/ c = Choice(row, lay0, lay1, {lay0} \cup (IF cfg.reduce = 2 THEN 2..7 ELSE 4..7))
      \/ c = Choice(row, lay0, lay1, {})
      \/ c = Choice(row, lay0, lay1, {1})
      \/ c = Choice(row, lay0, other, {offset + other})
  BY <1>3
<1>5. {base} \subseteq Slot /\ ({lay0} \cup (IF cfg.reduce = 2 THEN 2..7 ELSE 4..7)) \subseteq Slot
      /\ {} \subseteq Slot /\ {1} \subseteq Slot /\ {offset + other} \subseteq Slot
  BY <1>1, <1>2, SlotsAre
<1>6. Within(c, 2, 2)
  <2>1. CASE c = Choice(row, base, lay1, {base})
    BY <1>1, <1>5, <2>1, WithinIs
  <2>2. CASE c = Choice(row, lay0, lay1, {lay0} \cup (IF cfg.reduce = 2 THEN 2..7 ELSE 4..7))
    BY <1>1, <1>5, <2>2, WithinIs
  <2>3. CASE c = Choice(row, lay0, lay1, {})
    BY <1>1, <1>5, <2>3, WithinIs
  <2>4. CASE c = Choice(row, lay0, lay1, {1})
    BY <1>1, <1>5, <2>4, WithinIs
  <2>5. CASE c = Choice(row, lay0, other, {offset + other})
    BY <1>1, <1>5, <2>5, WithinIs
  <2> QED BY <1>4, <2>1, <2>2, <2>3, <2>4, <2>5
<1> QED BY <1>6 DEF c

\* Constant bit rate.
LEMMA LowDelayCbrOK ==
    ASSUME lay0 \in 0..2, lay1 \in 0..1, NEW p, NEW isRef \in BOOLEAN, cfg.reduce \in 0..2
    PROVE  Within(LowDelayCbr(cfg, p, isRef, lay0, lay1), 2, 1)
<1> DEFINE base == CircInc(lay0, 0, 2)
           l11 == CASE cfg.reduce = 2 -> IF lay0 = 0 THEN 1 ELSE 0
                  [] cfg.reduce = 1 -> LAY1_OFF
                  [] OTHER -> LAY1_OFF + lay1
           c == LowDelayCbr(cfg, p, isRef, lay0, lay1)
<1>1. base \in 0..2
  BY DEF CircInc
<1>2. cfg.reduce = 2 => l11 \in 0..1
  OBVIOUS
<1>3. \E row :
      \/ c = Choice(row, lay0, lay1, {lay0} \cup (2..7))
      \/ c = Choice(row, base, lay1, {base} \cup (IF cfg.reduce = 1 THEN 4..7 ELSE {}))
      \/ cfg.reduce = 2 /\ c = Choice(row, lay0, lay1, {l11} \cup (2..7))
      \/ c = Choice(row, lay0, lay1, {LAY1_OFF} \cup (4..7))
      \/ c = Choice(row, lay0, 1 - lay1, {LAY1_OFF + 1 - lay1})
      \/ c = Choice(row, lay0, lay1, {5})
      \/ c = Choice(row, lay0, lay1, {})
  <2> HIDE DEF base, l11
  <2>1. CASE p.layer = 0 /\ cfg.reduce = 2
    BY <2>1 DEF LowDelayCbr
  <2>2. CASE p.layer = 0 /\ cfg.reduce # 2
    BY <2>2 DEF LowDelayCbr, base
  <2>3. CASE p.layer = 1 /\ (isRef \/ p.hl = 2)
    <3>1. CASE cfg.reduce = 2
      BY <2>3, <3>1 DEF LowDelayCbr, l11
    <3>2. CASE cfg.reduce = 1
      BY <2>3, <3>2 DEF LowDelayCbr
    <3>3. CASE cfg.reduce = 0
      BY <2>3, <3>3 DEF LowDelayCbr
    <3>4. cfg.reduce = 0 \/ cfg.reduce = 1 \/ cfg.reduce = 2
      OBVIOUS
    <3> QED BY ONLY <3>1, <3>2, <3>3, <3>4, Zenon
  <2>4. CASE p.layer = 2 /\ isRef /\ cfg.reduce = 0
    BY <2>4 DEF LowDelayCbr
  <2>5. CASE p.layer # 0 /\ ~(p.layer = 1 /\ (isRef \/ p.hl = 2)) /\ ~(p.layer = 2 /\ isRef /\ cfg.reduce = 0)
    BY <2>5 DEF LowDelayCbr
  <2> QED BY <2>1, <2>2, <2>3, <2>4, <2>5
<1> HIDE DEF base, l11, c
<1>4. PICK row :
      \/ c = Choice(row, lay0, lay1, {lay0} \cup (2..7))
      \/ c = Choice(row, base, lay1, {base} \cup (IF cfg.reduce = 1 THEN 4..7 ELSE {}))
      \/ cfg.reduce = 2 /\ c = Choice(row, lay0, lay1, {l11} \cup (2..7))
      \/ c = Choice(row, lay0, lay1, {LAY1_OFF} \cup (4..7))
      \/ c = Choice(row, lay0, 1 - lay1, {LAY1_OFF + 1 - lay1})
      \/ c = Choice(row, lay0, lay1, {5})
      \/ c = Choice(row, lay0, lay1, {})
  BY <1>3
<1>5. /\ ({lay0} \cup (2..7)) \subseteq Slot
      /\ ({base} \cup (IF cfg.reduce = 1 THEN 4..7 ELSE {})) \subseteq Slot
      /\ (cfg.reduce = 2 => ({l11} \cup (2..7)) \subseteq Slot)
      /\ ({LAY1_OFF} \cup (4..7)) \subseteq Slot
      /\ {LAY1_OFF + 1 - lay1} \subseteq Slot /\ {5} \subseteq Slot /\ {} \subseteq Slot
  BY <1>1, <1>2, SlotsAre DEF LAY1_OFF
<1>6. 1 - lay1 \in 0..1
  OBVIOUS
<1>7. Within(c, 2, 1)
  <2>1. CASE c = Choice(row, lay0, lay1, {lay0} \cup (2..7))
    BY <1>5, <2>1, WithinIs
  <2>2. CASE c = Choice(row, base, lay1, {base} \cup (IF cfg.reduce = 1 THEN 4..7 ELSE {}))
    BY <1>1, <1>5, <2>2, WithinIs
  <2>3. CASE cfg.reduce = 2 /\ c = Choice(row, lay0, lay1, {l11} \cup (2..7))
    BY <1>5, <2>3, WithinIs
  <2>4. CASE c = Choice(row, lay0, lay1, {LAY1_OFF} \cup (4..7))
    BY <1>5, <2>4, WithinIs
  <2>5. CASE c = Choice(row, lay0, 1 - lay1, {LAY1_OFF + 1 - lay1})
    BY <1>5, <1>6, <2>5, WithinIs
  <2>6. CASE c = Choice(row, lay0, lay1, {5})
    BY <1>5, <2>6, WithinIs
  <2>7. CASE c = Choice(row, lay0, lay1, {})
    BY <1>5, <2>7, WithinIs
  <2> QED BY <1>4, <2>1, <2>2, <2>3, <2>4, <2>5, <2>6, <2>7
<1> QED BY <1>7 DEF c

\* One picture per slot in turn.
LEMMA FlatOK ==
    ASSUME lay0 \in 0..7, lay1 \in 0..1, NEW p
    PROVE  Within(Flat(p), 7, 1) /\ (p.overlay => Flat(p).refresh = {})
<1> DEFINE new == CircInc(lay0, 0, 7)
           row == [k \in 1..7 |-> FlatSlots(lay0)[FlatRow[k]]]
           refresh == IF p.overlay THEN {} ELSE {new}
<1>1. new \in 0..7
  BY DEF CircInc
<1>2. Flat(p) = Choice(row, new, lay1, refresh)
  BY Zenon DEF Flat
<1>3. refresh \subseteq Slot /\ (p.overlay => refresh = {})
  <2> HIDE DEF new
  <2> QED BY <1>1, SlotsAre
<1> HIDE DEF new, row, refresh
<1> QED BY <1>1, <1>2, <1>3, WithinIs, ChoiceIs

\* A picture of a pyramid: a base picture takes the next base slot, one of the
\* layer above it the other slot of its layer, and the rest have a slot per layer.
LEMMA PyramidOK ==
    ASSUME lay0 \in 0..2, lay1 \in 0..1, NEW p, p.hl \in 1..5, p.layer \in 0..p.hl, p.overlay \in BOOLEAN,
           p.overlay => p.layer = p.hl
    PROVE  Within(Pyramid(p), 2, 1) /\ (p.overlay => Pyramid(p).refresh = {})
<1> DEFINE row == [k \in 1..7 |-> SlotsSeenBy(p)[RowOf(p)[k]]]
           base == CircInc(lay0, 0, 2)
           other == 1 - lay1
           one == IF IsRef(p) THEN {LAY1_OFF + other} ELSE {}
           rest == IF IsRef(p) THEN {3 + p.layer} ELSE {}
<1>1. base \in 0..2 /\ other \in 0..1
  BY DEF CircInc
<1>2. Pyramid(p) = CASE p.layer = 0 -> Choice(row, base, lay1, {base})
                     [] p.layer = 1 /\ ~p.overlay -> Choice(row, lay0, other, one)
                     [] OTHER -> Choice(row, lay0, lay1, rest)
  BY Zenon DEF Pyramid
<1>3. IsRef(p) => p.layer <= 4 /\ ~p.overlay
  BY DEF IsRef, IsUsedAsRef
<1> HIDE DEF base, other, row
<1>4. {base} \subseteq Slot /\ one \subseteq Slot
  BY <1>1, SlotsAre DEF LAY1_OFF
<1>5. p.layer # 0 => rest \subseteq Slot
  <2>1. p.layer \in 0..5
    OBVIOUS
  <2> QED BY <1>3, <2>1, SlotsAre
<1>6. (p.overlay => rest = {}) /\ (p.overlay => p.layer # 0)
  BY <1>3
<1> HIDE DEF one, rest
<1>7. CASE p.layer = 0
  BY <1>1, <1>2, <1>4, <1>6, <1>7, WithinIs
<1>8. CASE p.layer = 1 /\ ~p.overlay
  <2>1. Pyramid(p) = Choice(row, lay0, other, one)
    BY <1>2, <1>8
  <2> QED BY <1>1, <1>4, <1>8, <2>1, WithinIs
<1>9. CASE p.layer # 0 /\ ~(p.layer = 1 /\ ~p.overlay)
  <2>1. Pyramid(p) = Choice(row, lay0, lay1, rest)
    BY <1>2, <1>9
  <2> QED BY <1>5, <1>6, <1>9, <2>1, WithinIs, ChoiceIs
<1> QED BY <1>7, <1>8, <1>9

\* A choice that suits a picture: it keeps the toggles in their ranges, and gives
\* an overlay no slot.
Suits(c, p) ==
    /\ c.refresh \subseteq Slot /\ (p.overlay => c.refresh = {})
    /\ c.lay0 \in 0..(IF cfg.structure = "flat" THEN cfg.flatMaxRefs - 1
                      ELSE IF RandomAccess /\ cfg.hl = 0 THEN 7 ELSE 2)
    /\ c.lay1 \in 0..(IF cfg.structure = "crf" THEN 2 ELSE 1)

\* The choice made for a picture suits it.
LEMMA ChoiceOK ==
    ASSUME WindowInv, Toggles, NEW p, IsPicture(p)
    PROVE  Suits(ChoiceFor(p), p)
<1> DEFINE c == ChoiceFor(p)
<1>1. /\ cfg.hl \in 0..5 /\ cfg.flatMaxRefs \in 1..4 /\ cfg.reduce \in 0..2
      /\ cfg.structure \in {"random access", "crf", "cbr", "flat"}
      /\ cfg.overlays => RandomAccess
  BY ConfigOK
<1>2. /\ p.hl \in 0..cfg.hl /\ (cfg.hl > 0 => p.hl > 0) /\ p.layer \in 0..p.hl /\ p.idr \in BOOLEAN
      /\ p.overlay \in BOOLEAN /\ (p.overlay => cfg.overlays /\ ~p.idr /\ p.layer = p.hl)
  BY DEF IsPicture, IsKey
<1>3. IsRef(p) \in BOOLEAN
  BY DEF IsRef, IsUsedAsRef
<1>11. cfg.hl \in 0..5 /\ p.hl \in 0..cfg.hl /\ (cfg.hl > 0 => p.hl > 0)
  BY <1>1, <1>2
<1>12. (p.hl = 0 => cfg.hl = 0) /\ (p.hl # 0 => cfg.hl # 0 /\ p.hl \in 1..5)
  BY ONLY <1>11
<1>13. /\ 0 \in 0..(IF cfg.structure = "flat" THEN cfg.flatMaxRefs - 1
                                 ELSE IF RandomAccess /\ cfg.hl = 0 THEN 7 ELSE 2)
       /\ 0 \in 0..(IF cfg.structure = "crf" THEN 2 ELSE 1)
  <2>1. cfg.flatMaxRefs \in 1..4
    BY <1>1
  <2>2. 0 \in 0..(cfg.flatMaxRefs - 1) /\ 0 \in 0..7 /\ 0 \in 0..2 /\ 0 \in 0..1
    BY ONLY <2>1
  <2> QED BY ONLY <2>2
<1>14. p.idr \in BOOLEAN
  BY <1>2
<1>4. CASE p.idr
  <2>1. c = Choice([k \in 1..7 |-> 0], 0, 0, Slot)
    BY <1>4, Zenon DEF ChoiceFor
  <2> HIDE DEF c
  <2>2. c.refresh = Slot /\ c.lay0 = 0 /\ c.lay1 = 0
    BY <2>1, ChoiceIs
  <2>3. Suits(c, p)
    <3>1. ~p.overlay
      BY <1>2, <1>4
    <3> QED BY <1>13, <2>2, <3>1 DEF Suits
  <2> QED BY <2>3 DEF c
<1>5. CASE ~p.idr /\ cfg.structure = "flat"
  <2>1. c = RtcFlat(cfg, lay0, lay1)
    BY <1>5, <1>14 DEF ChoiceFor, RandomAccess
  <2> HIDE DEF c
  <2>2. lay0 \in 0..(cfg.flatMaxRefs - 1) /\ lay1 \in 0..1
    BY <1>5 DEF Toggles
  <2>3. Within(c, cfg.flatMaxRefs - 1, 1)
    BY <1>1, <2>1, <2>2, RtcFlatOK
  <2>4. ~p.overlay
    BY <1>1, <1>2, <1>5 DEF RandomAccess
  <2>5. Suits(c, p)
    BY <1>5, <2>3, <2>4 DEF Within, Suits
  <2> QED BY <2>5 DEF c
<1>6. CASE ~p.idr /\ cfg.structure = "crf"
  <2>1. c = LowDelayCrf(cfg, p, IsRef(p), lay0, lay1)
    BY <1>6, <1>14 DEF ChoiceFor, RandomAccess
  <2> HIDE DEF c
  <2>2. lay0 \in 0..2 /\ lay1 \in 0..2
    BY <1>6 DEF Toggles, RandomAccess
  <2>3. Within(c, 2, 2)
    BY <1>1, <1>3, <2>1, <2>2, LowDelayCrfOK
  <2>4. ~p.overlay /\ ~RandomAccess
    BY <1>1, <1>2, <1>6 DEF RandomAccess
  <2>5. Suits(c, p)
    BY <1>6, <2>3, <2>4 DEF Within, Suits
  <2> QED BY <2>5 DEF c
<1>7. CASE ~p.idr /\ cfg.structure = "cbr"
  <2>1. c = LowDelayCbr(cfg, p, IsRef(p), lay0, lay1)
    BY <1>7, <1>14 DEF ChoiceFor, RandomAccess
  <2> HIDE DEF c
  <2>2. lay0 \in 0..2 /\ lay1 \in 0..1
    BY <1>7 DEF Toggles, RandomAccess
  <2>3. Within(c, 2, 1)
    BY <1>1, <1>3, <2>1, <2>2, LowDelayCbrOK
  <2>4. ~p.overlay /\ ~RandomAccess
    BY <1>1, <1>2, <1>7 DEF RandomAccess
  <2>5. Suits(c, p)
    BY <1>7, <2>3, <2>4 DEF Within, Suits
  <2> QED BY <2>5 DEF c
<1>8. CASE ~p.idr /\ RandomAccess /\ ~(p.hl # 0)
  <2>1. c = Flat(p)
    BY <1>8 DEF ChoiceFor, RandomAccess
  <2> HIDE DEF c
  <2>2. lay0 \in 0..7 /\ lay1 \in 0..1 /\ cfg.hl = 0
    <3>1. cfg.hl = 0
      BY <1>8, <1>12
    <3> QED BY <1>8, <3>1 DEF Toggles, RandomAccess
  <2>3. Within(c, 7, 1) /\ (p.overlay => c.refresh = {})
    BY <2>1, <2>2, FlatOK
  <2>4. cfg.structure # "flat" /\ cfg.structure # "crf"
    BY <1>8 DEF RandomAccess
  <2>5. Suits(c, p)
    BY <1>8, <2>2, <2>3, <2>4 DEF Within, Suits
  <2> QED BY <2>5 DEF c
<1>9. CASE ~p.idr /\ RandomAccess /\ p.hl # 0
  <2>1. c = Pyramid(p)
    BY <1>9 DEF ChoiceFor, RandomAccess
  <2> HIDE DEF c
  <2>2. lay0 \in 0..2 /\ lay1 \in 0..1 /\ cfg.hl # 0 /\ p.hl \in 1..5
    <3>1. cfg.hl # 0 /\ p.hl \in 1..5
      BY <1>9, <1>12
    <3> QED BY <1>9, <3>1 DEF Toggles, RandomAccess
  <2>3. Within(c, 2, 1) /\ (p.overlay => c.refresh = {})
    BY <1>2, <2>1, <2>2, PyramidOK
  <2>4. cfg.structure # "flat" /\ cfg.structure # "crf"
    BY <1>9 DEF RandomAccess
  <2>5. Suits(c, p)
    BY <1>9, <2>2, <2>3, <2>4 DEF Within, Suits
  <2> QED BY <2>5 DEF c
<1>10. \/ p.idr
       \/ ~p.idr /\ cfg.structure = "flat"
       \/ ~p.idr /\ cfg.structure = "crf"
       \/ ~p.idr /\ cfg.structure = "cbr"
       \/ ~p.idr /\ RandomAccess /\ ~(p.hl # 0)
       \/ ~p.idr /\ RandomAccess /\ p.hl # 0
  BY <1>1, <1>2 DEF RandomAccess
<1> QED BY ONLY <1>10, <1>4, <1>5, <1>6, <1>7, <1>8, <1>9, Zenon

\* A step that does no more than to give the pictures of a mini-GOP references,
\* slots or what they show and release.
LEMMA GroupStep ==
    ASSUME Inv, phase \in {"decide", "assign"}, phase' \in {"decide", "assign"},
           UNCHANGED <<cfg, place, startup, numbers, miniGops, sending>>,
           group' = [k \in 1..Len(group) |-> group'[k]],
           \A k \in 1..Len(group) : Alike(group'[k], group[k]) /\ Refreshes(group'[k]),
           at' \in 1..(Len(group) + 1)
    PROVE  /\ WindowInv' /\ PiecesInv' /\ NumbersInv' /\ GroupInv' /\ SendInv'
           /\ Built' = Built /\ First' = First /\ Len(group') = Len(group) /\ First \in Nat
           /\ \A k \in 1..Len(group) : group'[k].num = group[k].num /\ group'[k].overlay = group[k].overlay
<1>1. WindowInv /\ PiecesInv /\ NumbersInv /\ GroupInv /\ SendInv
  BY DEF Inv
<1>2. /\ cfg' = cfg /\ poc' = poc /\ intraPosition' = intraPosition /\ window' = window /\ forcedLeft' = forcedLeft
      /\ startup' = startup /\ altNumber' = altNumber /\ baseNumber' = baseNumber /\ position' = position
      /\ afterIntra' = afterIntra /\ prevLevels' = prevLevels /\ miniGops' = miniGops
      /\ delayed' = delayed /\ mgId' = mgId /\ sent' = sent
  BY DEF place, numbers, sending
<1>3. ~Before /\ ~Before' /\ phase # "place" /\ phase # "split" /\ phase' # "place" /\ phase' # "split"
  BY DEF Before
<1>4. GroupOK(group') /\ Len(group') = Len(group)
  <2>1. GroupOK(group)
    BY <1>1 DEF GroupInv
  <2> QED BY <2>1, AlikeGroup
<1>5. \A k \in 1..Len(group) : group'[k].num = group[k].num /\ group'[k].overlay = group[k].overlay
                               /\ group'[k].dec = group[k].dec
  BY DEF Alike
<1>6. First' = First /\ First \in Nat
  <2>1. First' = First
    BY <1>2, <1>4 DEF First
  <2>2. First \in Nat
    BY <1>1 DEF NumbersInv, First
  <2> QED BY <2>1, <2>2
<1>7. Built' = Built
  BY <1>2, <1>3 DEF Built
<1>8. WindowInv'
  <2>1. LowDelay' <=> LowDelay
    BY <1>2 DEF LowDelay, RandomAccess
  <2> QED BY <1>1, <1>2, <1>3, <2>1 DEF WindowInv, IsKey
<1>9. PiecesInv'
  BY <1>1, <1>2, <1>3 DEF PiecesInv, Chained, IsPiece
<1>10. NumbersInv'
  BY <1>1, <1>2, <1>3, <1>4, <1>7 DEF NumbersInv
<1>11. GroupInv'
  <2>1. GroupOK(group)'
    BY <1>2, <1>4, GroupCarries
  <2>2. group' # <<>>
    <3>1. group # <<>> /\ Len(group) \in Nat /\ group = [k \in 1..Len(group) |-> group[k]]
      BY <1>1 DEF GroupInv, GroupOK
    <3>2. Len(group) # 0
      BY <3>1
    <3> QED BY <1>4, <3>2
  <2>3. \A k \in 1..Len(group') : group'[k].dec = First' + k - 1 /\ group'[k].num < Built'
    BY <1>1, <1>4, <1>5, <1>6, <1>7 DEF GroupInv
  <2> QED BY <1>4, <2>1, <2>2, <2>3 DEF GroupInv
<1>12. SendInv'
  <2>1. IsSeq(sent)' /\ IsSeq(delayed)'
    BY <1>1, <1>2 DEF SendInv, IsSeq
  <2>2. Whole(sent)'
    <3>1. Whole(sent) /\ sent' = sent
      BY <1>1, <1>2 DEF SendInv
    <3> QED BY ONLY <3>1
  <2> QED BY <1>1, <1>2, <1>6, <2>1, <2>2 DEF SendInv
<1> QED BY <1>4, <1>5, <1>6, <1>7, <1>8, <1>9, <1>10, <1>11, <1>12

\* Deciding a picture keeps the invariant: its slots hold it from now on, and
\* it was in none of them before.
LEMMA DecideKeeps ==
    ASSUME Inv, DecidePicture
    PROVE  Inv'
<1> DEFINE p == group[at]
           choice == ChoiceFor(p)
           slots == choice.refresh \cup (IF KeepsLongBase(p) THEN {long_base_idx} ELSE {})
<1>1. /\ phase = "decide" /\ at <= Len(group) /\ phase' = "decide" /\ at' = at + 1
      /\ lay0' = choice.lay0 /\ lay1' = choice.lay1
      /\ lastLongBase' = IF KeepsLongBase(p) THEN p.num ELSE lastLongBase
      /\ dpb' = Refreshed(dpb, slots, p) /\ pdDpb' = pdDpb
      /\ UNCHANGED <<cfg, place, startup, numbers, miniGops, sending>>
  BY DEF DecidePicture
<1>2. \E show, refs, last, bwd, existing :
        group' = [group EXCEPT ![at] = [p EXCEPT !.refresh = slots, !.show = show, !.refs = refs, !.last = last,
                                                 !.bwd = bwd, !.existing = existing]]
  <2> DEFINE pocs == [k \in 1..7 |-> dpb[choice.row[k]].num]
             used0 == {pocs[k] : k \in 1..List0Count(p, pocs)}
             used1 == {pocs[k] : k \in 5..(4 + List1Count(p, pocs))}
             a == IsShown(p)
             b == IF IsKey(p) THEN {} ELSE used0 \cup used1
             c == IF IsKey(p) THEN None ELSE pocs[1]
             d == IF IsKey(p) \/ used1 = {} THEN None ELSE pocs[5]
             e == IF ShowsExisting(p)
                  THEN Refreshed(dpb, slots, p)[SlotsSeenBy(p)[ShowExisting(p.hl, p.idx)]].num ELSE None
  <2>1. group' = [group EXCEPT ![at] = [p EXCEPT !.refresh = slots, !.show = a, !.refs = b, !.last = c,
                                                 !.bwd = d, !.existing = e]]
    BY Zenon DEF DecidePicture
  <2> HIDE DEF a, b, c, d, e, slots, p
  <2> QED BY <2>1
<1>3. PICK show, refs, last, bwd, existing :
        group' = [group EXCEPT ![at] = [p EXCEPT !.refresh = slots, !.show = show, !.refs = refs, !.last = last,
                                                 !.bwd = bwd, !.existing = existing]]
  BY <1>2
<1>4. WindowInv /\ PiecesInv /\ NumbersInv /\ GroupInv /\ Toggles /\ BuffersInv
  BY DEF Inv
<1>5. /\ at \in 1..Len(group) /\ Len(group) \in Nat /\ group = [k \in 1..Len(group) |-> group[k]]
      /\ IsPicture(p) /\ Refreshes(p) /\ p.num < Built
      /\ \A k \in 1..Len(group) : IsPicture(group[k]) /\ Refreshes(group[k])
  BY <1>1, <1>4 DEF GroupInv, GroupOK
<1>6. /\ choice.refresh \subseteq Slot /\ (p.overlay => choice.refresh = {})
      /\ choice.lay0 \in 0..(IF cfg.structure = "flat" THEN cfg.flatMaxRefs - 1
                             ELSE IF RandomAccess /\ cfg.hl = 0 THEN 7 ELSE 2)
      /\ choice.lay1 \in 0..(IF cfg.structure = "crf" THEN 2 ELSE 1)
  BY <1>4, <1>5, ChoiceOK DEF Suits
<1> HIDE DEF choice
<1>7. slots \subseteq Slot /\ (p.overlay => slots = {})
  <2>1. KeepsLongBase(p) => ~p.overlay
    <3>1. p.overlay => RandomAccess
      BY <1>4, <1>5, ConfigOK DEF IsPicture
    <3> QED BY <3>1 DEF KeepsLongBase, RandomAccess
  <2>2. {long_base_idx} \subseteq Slot
    BY DEF long_base_idx, Slot, REF_FRAMES
  <2> QED BY <1>6, <2>1, <2>2
<1> HIDE DEF slots
<1> DEFINE new == [p EXCEPT !.refresh = slots, !.show = show, !.refs = refs, !.last = last,
                            !.bwd = bwd, !.existing = existing]
<1>8. Alike(new, p) /\ Refreshes(new)
  <2>1. DOMAIN p = Fields
    BY <1>5 DEF IsPicture
  <2> HIDE DEF p
  <2>2. /\ DOMAIN new = Fields /\ new.refresh = slots
        /\ new.num = p.num /\ new.idr = p.idr /\ new.cra = p.cra /\ new.eos = p.eos /\ new.hl = p.hl
        /\ new.inOrder = p.inOrder /\ new.position = p.position /\ new.layer = p.layer /\ new.idx = p.idx
        /\ new.len = p.len /\ new.dec = p.dec /\ new.overlay = p.overlay
    BY <2>1 DEF Fields
  <2> QED BY <1>7, <2>2 DEF Alike, Refreshes
<1> HIDE DEF new
<1>9. /\ group' = [k \in 1..Len(group) |-> group'[k]]
      /\ \A k \in 1..Len(group) : Alike(group'[k], group[k]) /\ Refreshes(group'[k])
  <2>1. group' = [k \in 1..Len(group) |-> IF k = at THEN new ELSE group[k]]
    <3>1. group' = [group EXCEPT ![at] = new]
      BY <1>3 DEF new
    <3> HIDE DEF p
    <3> QED BY <1>5, <3>1
  <2>2. group' = [k \in 1..Len(group) |-> group'[k]]
    BY <2>1
  <2>3. ASSUME NEW k \in 1..Len(group), k # at
        PROVE  Alike(group'[k], group[k]) /\ Refreshes(group'[k])
    <3>1. group'[k] = group[k]
      BY <2>1, <2>3
    <3>2. DOMAIN group[k] = Fields /\ Refreshes(group[k])
      BY <1>5 DEF IsPicture
    <3> QED BY <3>1, <3>2 DEF Alike
  <2>4. group'[at] = new
    BY <1>5, <2>1
  <2> QED BY <1>8, <2>2, <2>3, <2>4 DEF p
<1>10. at' \in 1..(Len(group) + 1) /\ at \in Nat
  BY <1>1, <1>5
<1>11. /\ WindowInv' /\ PiecesInv' /\ NumbersInv' /\ GroupInv' /\ SendInv'
       /\ Built' = Built /\ First' = First /\ Len(group') = Len(group) /\ First \in Nat
       /\ \A k \in 1..Len(group) : group'[k].num = group[k].num /\ group'[k].overlay = group[k].overlay
  BY <1>1, <1>9, <1>10, GroupStep
<1>12. Built \in Nat /\ Built <= poc + 1 /\ cfg.hl \in 0..5 /\ cfg.pictures \in Nat
       /\ poc \in Int /\ poc <= cfg.pictures - 1
  <2>1. cfg.pictures \in Nat /\ cfg.hl \in 0..5
    BY <1>4, ConfigOK
  <2>2. poc \in None..(cfg.pictures - 1)
    BY <1>4 DEF WindowInv
  <2> QED BY <1>4, <2>1, <2>2, BuiltIs
<1>13. Toggles'
  <2>1. p.num \in Nat
    BY <1>5 DEF IsPicture
  <2>2. lastLongBase' \in 0..(cfg.pictures - 1)
    <3>1. lastLongBase \in 0..(cfg.pictures - 1)
      BY <1>4 DEF Toggles
    <3>2. p.num \in 0..(cfg.pictures - 1)
      BY <1>5, <1>12, <2>1
    <3> QED BY <1>1, <3>1, <3>2
  <2>3. cfg' = cfg /\ lay0' = choice.lay0 /\ lay1' = choice.lay1
    BY <1>1
  <2> QED BY <1>6, <2>2, <2>3 DEF Toggles, RandomAccess
<1>14. BuffersInv'
  <2>1. Decided = at - 1 /\ Assigned = 0 /\ Decided' = at /\ Assigned' = 0
    BY <1>1, <1>10 DEF Decided, Assigned
  <2>2. BufferOK(dpb, at - 1) /\ BufferOK(pdDpb, 0)
    BY <1>4, <2>1 DEF BuffersInv
  <2>3. slots \in SUBSET Slot
    BY <1>7
  <2>4. BufferOK(Refreshed(dpb, slots, p), at)
    BY <1>4, <1>5, <1>7, <1>11, <1>12, <2>2, <2>3, RefreshedOK
  <2>5. BufferOK(dpb', at) /\ BufferOK(pdDpb', 0)
    BY <1>1, <2>2, <2>4
  <2>6. BufferOK(dpb, Decided)'
    <3>1. \A i \in Slot : \A k \in (at + 1)..Len(group') : group'[k].overlay \/ dpb'[i].num # group'[k].num
      <4>1. \A k \in (at + 1)..Len(group') : k \in (at + 1)..Len(group) /\ k \in 1..Len(group)
        BY <1>5, <1>10, <1>11
      <4> QED BY <1>11, <2>5, <4>1 DEF BufferOK
    <3>2. /\ dpb' \in [Slot -> Entry]
          /\ \A i \in Slot :
              /\ dpb'[i].num < Built' /\ dpb'[i].dec < First' + at
              /\ dpb'[i].num = None \/ dpb'[i].dec = None => dpb'[i] = Nobody
              /\ \A j \in Slot : dpb'[i].num = dpb'[j].num \/ dpb'[i].dec = dpb'[j].dec => dpb'[i] = dpb'[j]
      BY <1>11, <2>5 DEF BufferOK
    <3> QED BY <2>1, <3>1, <3>2 DEF BufferOK
  <2>7. BufferOK(pdDpb, Assigned)'
    BY <1>11, <2>1, <2>5 DEF BufferOK
  <2> QED BY <2>6, <2>7 DEF BuffersInv
<1> QED BY <1>11, <1>13, <1>14 DEF Inv

\* A buffer that is kept while the pictures of the mini-GOP stay alike.
LEMMA BufferCarries ==
    ASSUME NEW b, NEW done \in Nat, BufferOK(b, done), Built' = Built, First' = First, Len(group') = Len(group),
           \A k \in 1..Len(group) : group'[k].num = group[k].num /\ group'[k].overlay = group[k].overlay
    PROVE  /\ b \in [Slot -> Entry]
           /\ \A i \in Slot :
                /\ b[i].num < Built' /\ b[i].dec < First' + done
                /\ b[i].num = None \/ b[i].dec = None => b[i] = Nobody
                /\ \A j \in Slot : b[i].num = b[j].num \/ b[i].dec = b[j].dec => b[i] = b[j]
           /\ \A i \in Slot : \A k \in (done + 1)..Len(group') : group'[k].overlay \/ b[i].num # group'[k].num
<1>1. \A k \in (done + 1)..Len(group) : k \in 1..Len(group)
  OBVIOUS
<1> QED BY <1>1 DEF BufferOK

\* What the overlays take over keeps the invariant.
LEMMA LeaveKeeps ==
    ASSUME Inv, LeaveToOverlay
    PROVE  Inv'
<1>1. /\ phase = "decide" /\ at > Len(group) /\ phase' = "assign" /\ at' = 1
      /\ group' = [i \in DOMAIN group |->
                   IF ShownByOverlay(group[i]) THEN [group[i] EXCEPT !.existing = None] ELSE group[i]]
      /\ UNCHANGED <<cfg, place, startup, numbers, miniGops, sending>>
      /\ UNCHANGED toggles /\ pdDpb' = pdDpb
  BY DEF LeaveToOverlay
<1>2. WindowInv /\ PiecesInv /\ NumbersInv /\ GroupInv /\ Toggles /\ BuffersInv
  BY DEF Inv
<1>3. /\ at \in 1..(Len(group) + 1) /\ Len(group) \in Nat /\ group = [k \in 1..Len(group) |-> group[k]]
      /\ \A k \in 1..Len(group) : IsPicture(group[k]) /\ Refreshes(group[k])
  BY <1>2 DEF GroupInv, GroupOK
<1>4. DOMAIN group = 1..Len(group)
  BY <1>3
<1>5. ASSUME NEW k \in 1..Len(group)
      PROVE  Alike(group'[k], group[k]) /\ Refreshes(group'[k])
  <2>1. group'[k] = IF ShownByOverlay(group[k]) THEN [group[k] EXCEPT !.existing = None] ELSE group[k]
    BY <1>1, <1>4
  <2>2. DOMAIN group[k] = Fields /\ Refreshes(group[k])
    BY <1>3 DEF IsPicture
  <2> DEFINE p == group[k]
             q == group'[k]
  <2>3. q = p \/ q = [p EXCEPT !.existing = None]
    BY <2>1
  <2>4. DOMAIN p = Fields /\ Refreshes(p)
    BY <2>2
  <2> HIDE DEF p, q
  <2>5. /\ DOMAIN q = Fields /\ q.refresh = p.refresh
        /\ q.num = p.num /\ q.idr = p.idr /\ q.cra = p.cra /\ q.eos = p.eos /\ q.hl = p.hl
        /\ q.inOrder = p.inOrder /\ q.position = p.position /\ q.layer = p.layer /\ q.idx = p.idx
        /\ q.len = p.len /\ q.dec = p.dec /\ q.overlay = p.overlay
    BY <2>3, <2>4 DEF Fields
  <2>6. Alike(q, p) /\ Refreshes(q)
    BY <2>4, <2>5 DEF Alike, Refreshes
  <2> QED BY <2>6 DEF p, q
<1>6. group' = [k \in 1..Len(group) |-> group'[k]]
  BY <1>1, <1>4
<1>7. at' \in 1..(Len(group) + 1)
  BY <1>1, <1>3
<1>8. /\ WindowInv' /\ PiecesInv' /\ NumbersInv' /\ GroupInv' /\ SendInv'
      /\ Built' = Built /\ First' = First /\ Len(group') = Len(group) /\ First \in Nat
      /\ \A k \in 1..Len(group) : group'[k].num = group[k].num /\ group'[k].overlay = group[k].overlay
  BY <1>1, <1>5, <1>6, <1>7, GroupStep
<1>9. Toggles'
  BY <1>1, <1>2 DEF Toggles, toggles, RandomAccess
<1>10. BuffersInv'
  <2>1. Decided = Len(group) /\ Assigned = 0 /\ Decided' = Len(group) /\ Assigned' = 0
    <3>1. at - 1 = Len(group)
      BY <1>1, <1>3
    <3> QED BY <1>1, <1>8, <3>1 DEF Decided, Assigned
  <2>2. dpb' = dpb /\ pdDpb' = pdDpb
    BY <1>1 DEF toggles
  <2>3. BufferOK(dpb, Len(group)) /\ BufferOK(pdDpb, 0)
    BY <1>2, <2>1 DEF BuffersInv
  <2>4. BufferOK(dpb, Decided)'
    BY <1>3, <1>8, <2>1, <2>2, <2>3, BufferCarries DEF BufferOK
  <2>5. BufferOK(pdDpb, Assigned)'
    BY <1>8, <2>1, <2>2, <2>3, BufferCarries DEF BufferOK
  <2> QED BY <2>4, <2>5 DEF BuffersInv
<1> QED BY <1>8, <1>9, <1>10 DEF Inv

\* Assigning the references of a picture keeps the invariant.
LEMMA AssignKeeps ==
    ASSUME Inv, AssignReferences
    PROVE  Inv'
<1> DEFINE p == group[at]
           released == ReleasedBy(p)
           new == [p EXCEPT !.released = released]
<1>1. /\ phase = "assign" /\ at <= Len(group) /\ phase' = "assign" /\ at' = at + 1
      /\ group' = [group EXCEPT ![at].released = released]
      /\ pdDpb' = Refreshed(pdDpb, p.refresh, p)
      /\ UNCHANGED <<cfg, place, startup, numbers, miniGops, sending>>
      /\ UNCHANGED toggles
  BY DEF AssignReferences
<1>2. WindowInv /\ PiecesInv /\ NumbersInv /\ GroupInv /\ Toggles /\ BuffersInv
  BY DEF Inv
<1>3. /\ at \in 1..Len(group) /\ Len(group) \in Nat /\ group = [k \in 1..Len(group) |-> group[k]]
      /\ IsPicture(p) /\ Refreshes(p)
      /\ \A k \in 1..Len(group) : IsPicture(group[k]) /\ Refreshes(group[k])
  BY <1>1, <1>2 DEF GroupInv, GroupOK
<1> HIDE DEF released
<1>4. Alike(new, p) /\ Refreshes(new)
  <2>1. DOMAIN p = Fields
    BY <1>3 DEF IsPicture
  <2>2. Refreshes(p)
    BY <1>3
  <2> HIDE DEF p
  <2>3. /\ DOMAIN new = Fields /\ new.refresh = p.refresh
        /\ new.num = p.num /\ new.idr = p.idr /\ new.cra = p.cra /\ new.eos = p.eos /\ new.hl = p.hl
        /\ new.inOrder = p.inOrder /\ new.position = p.position /\ new.layer = p.layer /\ new.idx = p.idx
        /\ new.len = p.len /\ new.dec = p.dec /\ new.overlay = p.overlay
    BY <2>1 DEF Fields
  <2> QED BY <2>2, <2>3 DEF Alike, Refreshes
<1>5. group' = [k \in 1..Len(group) |-> IF k = at THEN new ELSE group[k]]
  <2>1. group' = [group EXCEPT ![at] = new]
    BY <1>1
  <2> HIDE DEF new, p
  <2> QED BY <1>3, <2>1
<1> HIDE DEF new
<1>6. /\ group' = [k \in 1..Len(group) |-> group'[k]]
      /\ \A k \in 1..Len(group) : Alike(group'[k], group[k]) /\ Refreshes(group'[k])
  <2>2. group' = [k \in 1..Len(group) |-> group'[k]]
    BY <1>5
  <2>3. ASSUME NEW k \in 1..Len(group), k # at
        PROVE  Alike(group'[k], group[k]) /\ Refreshes(group'[k])
    <3>1. group'[k] = group[k]
      BY <1>5, <2>3
    <3>2. DOMAIN group[k] = Fields /\ Refreshes(group[k])
      BY <1>3 DEF IsPicture
    <3> QED BY <3>1, <3>2 DEF Alike
  <2>4. group'[at] = new
    BY <1>3, <1>5
  <2> QED BY <1>4, <2>2, <2>3, <2>4 DEF p
<1>7. at' \in 1..(Len(group) + 1) /\ at \in Nat /\ at - 1 \in Nat
  BY <1>1, <1>3
<1>8. /\ WindowInv' /\ PiecesInv' /\ NumbersInv' /\ GroupInv' /\ SendInv'
      /\ Built' = Built /\ First' = First /\ Len(group') = Len(group) /\ First \in Nat
      /\ \A k \in 1..Len(group) : group'[k].num = group[k].num /\ group'[k].overlay = group[k].overlay
  BY <1>1, <1>6, <1>7, GroupStep
<1>9. Built \in Nat /\ cfg.hl \in 0..5
  BY <1>2, BuiltIs, ConfigOK
<1>10. Toggles'
  BY <1>1, <1>2 DEF Toggles, toggles, RandomAccess
<1>11. BuffersInv'
  <2>1. Decided = Len(group) /\ Assigned = at - 1 /\ Decided' = Len(group) /\ Assigned' = at
    <3>1. (at + 1) - 1 = at
      BY <1>7
    <3>2. phase = "assign" /\ phase' = "assign" /\ at' = at + 1
      BY <1>1
    <3>3. Len(group') = Len(group)
      BY <1>8
    <3>4. Decided = Len(group) /\ Assigned = at - 1
      BY <3>2 DEF Decided, Assigned
    <3>5. Assigned' = (at + 1) - 1
      BY <3>2 DEF Assigned
    <3>6. Decided' = Len(group)
      BY <3>2, <3>3 DEF Decided
    <3> QED BY <3>1, <3>4, <3>5, <3>6
  <2>2. dpb' = dpb
    BY <1>1 DEF toggles
  <2>3. BufferOK(dpb, Len(group)) /\ BufferOK(pdDpb, at - 1)
    BY <1>2, <2>1 DEF BuffersInv
  <2>4. BufferOK(dpb, Decided)'
    BY <1>3, <1>8, <2>1, <2>2, <2>3, BufferCarries DEF BufferOK
  <2>5. p.refresh \in SUBSET Slot /\ (p.overlay => p.refresh = {})
    BY <1>3 DEF Refreshes
  <2>6. BufferOK(pdDpb', at)
    BY <1>1, <1>2, <1>3, <1>8, <1>9, <2>3, <2>5, RefreshedOK
  <2>7. BufferOK(pdDpb, Assigned)'
    BY <1>7, <1>8, <2>1, <2>6, BufferCarries DEF BufferOK
  <2> QED BY <2>4, <2>7 DEF BuffersInv
<1> QED BY <1>8, <1>10, <1>11 DEF Inv

-----------------------------------------------------------------------------
(* What a step releases.                                                    *)

\* The picture assigned releases what its slots held and no slot holds any more.
LEMMA ReleasedOK ==
    ASSUME Inv, AssignReferences
    PROVE  group'[at].released = {pdDpb[k].dec : k \in Slot} \ ({pdDpb'[k].dec : k \in Slot} \cup {None})
<1> DEFINE p == group[at]
           slots == p.refresh
           b == pdDpb
           e == [num |-> p.num, dec |-> p.dec, layer |-> p.layer]
           Gone == {k \in slots : b[k] # Nobody /\ ~StillInDpb(slots, p, k)}
<1>1. /\ phase = "assign" /\ at <= Len(group)
      /\ group' = [group EXCEPT ![at].released = ReleasedBy(p)]
      /\ pdDpb' = Refreshed(b, slots, p)
  BY DEF AssignReferences
<1>2. WindowInv /\ NumbersInv /\ GroupInv /\ BuffersInv
  BY DEF Inv
<1>3. /\ at \in 1..Len(group) /\ Len(group) \in Nat /\ group = [k \in 1..Len(group) |-> group[k]]
      /\ IsPicture(p) /\ Refreshes(p) /\ p.dec = First + at - 1
  BY <1>1, <1>2 DEF GroupInv, GroupOK
<1>4. group'[at].released = ReleasedBy(p)
  <2>1. DOMAIN p = Fields
    BY <1>3 DEF IsPicture
  <2> DEFINE r == ReleasedBy(p)
             n == [p EXCEPT !.released = r]
  <2>2. group'[at] = n
    <3>1. group' = [group EXCEPT ![at] = n]
      BY <1>1
    <3> HIDE DEF n, p
    <3> QED BY <1>3, <3>1
  <2> HIDE DEF r, p
  <2>3. n.released = r
    BY <2>1 DEF Fields
  <2> QED BY <2>2, <2>3 DEF r
<1>5. ReleasedBy(p) = {b[i].dec : i \in Gone}
  BY Zenon DEF ReleasedBy
<1>6. /\ b \in [Slot -> Entry]
      /\ \A i \in Slot :
          /\ b[i].dec < First + (at - 1)
          /\ b[i].num = None \/ b[i].dec = None => b[i] = Nobody
          /\ \A j \in Slot : b[i].num = b[j].num \/ b[i].dec = b[j].dec => b[i] = b[j]
          /\ \A k \in ((at - 1) + 1)..Len(group) : group[k].overlay \/ b[i].num # group[k].num
  <2>1. Assigned = at - 1
    BY <1>1 DEF Assigned
  <2> QED BY <1>2, <2>1 DEF BuffersInv, BufferOK
<1>7. slots \subseteq Slot /\ (p.overlay => slots = {})
  BY <1>3 DEF Refreshes
<1>8. /\ \A i \in Slot : pdDpb'[i] = IF i \in slots THEN e ELSE b[i]
      /\ e.dec = p.dec /\ e.num = p.num
  BY <1>1 DEF Refreshed
<1>9. First \in Nat /\ at \in Nat \ {0} /\ at \in ((at - 1) + 1)..Len(group)
  <2>1. First \in Nat
    BY <1>2 DEF NumbersInv, First
  <2> QED BY <1>3, <2>1
\* Nothing of the picture is in the buffer yet.
<1>10. ASSUME NEW i \in Slot
       PROVE  b[i].dec # p.dec /\ (slots # {} => b[i].num # p.num) /\ p.dec # None
  <2>1. b[i].dec \in Nat \cup {None} /\ b[i].dec < First + (at - 1)
    BY <1>6 DEF Entry
  <2>2. p.dec = First + (at - 1) /\ p.dec \in Nat
    BY <1>3, <1>9
  <2>3. slots # {} => b[i].num # p.num
    BY <1>6, <1>7, <1>9
  <2> QED BY <2>1, <2>2, <2>3 DEF None
<1>11. \A i \in Slot : b[i] \in Entry
  BY <1>6
<1> DEFINE Old == {b[k].dec : k \in Slot}
           Now == {pdDpb'[k].dec : k \in Slot}
<1> HIDE DEF p, slots, b, e
\* Whatever a slot that loses its last copy held is not in the buffer any more.
<1>12. ASSUME NEW i \in Gone
       PROVE  b[i].dec \in Old /\ b[i].dec \notin Now /\ b[i].dec # None
  <2>1. i \in slots /\ i \in Slot /\ b[i] # Nobody /\ ~StillInDpb(slots, p, i)
    BY <1>7
  <2>2. b[i].dec # None
    BY <1>6, <2>1
  <2>3. ASSUME NEW j \in Slot, pdDpb'[j].dec = b[i].dec
        PROVE  FALSE
    <3>1. j \notin slots
      <4>1. j \in slots => pdDpb'[j].dec = p.dec
        BY <1>8
      <4> QED BY <1>10, <2>1, <2>3, <4>1
    <3>2. pdDpb'[j] = b[j] /\ b[j].dec = b[i].dec
      BY <1>8, <2>3, <3>1
    <3>3. b[j] = b[i] /\ j # i
      BY <1>6, <2>1, <3>1, <3>2
    <3>4. StillInDpb(slots, p, i)
      <4>1. (IF j < i /\ j \in slots THEN p.num ELSE b[j].num) = b[i].num
        BY <3>1, <3>3
      <4> QED BY <3>3, <4>1 DEF StillInDpb, b
    <3> QED BY <2>1, <3>4
  <2> QED BY <2>1, <2>2, <2>3
\* Whatever was in the buffer and is not any more goes with the last of its slots.
<1>13. ASSUME NEW k \in Slot, b[k].dec \notin Now, b[k].dec # None
       PROVE  b[k].dec \in {b[i].dec : i \in Gone}
  <2> DEFINE Same == {j \in Slot : b[j].dec = b[k].dec}
  <2>1. Same \subseteq slots
    <3> SUFFICES ASSUME NEW j \in Same, j \notin slots
                 PROVE  FALSE
      OBVIOUS
    <3>1. pdDpb'[j] = b[j] /\ j \in Slot
      BY <1>8
    <3> QED BY <1>13, <3>1
  <2>2. \E i \in Same : \A j \in Same : j <= i
    <3>1. k \in Same /\ Same \subseteq 0..7
      BY DEF Slot, REF_FRAMES
    <3> DEFINE G == {n \in Nat : \E j \in Same : n = 7 - j}
    <3>2. G \subseteq Nat /\ 7 - k \in G /\ G # {}
      BY <3>1
    <3>3. PICK n \in G : \A m \in G : n <= m
      <4> HIDE DEF G
      <4> QED BY <3>2, HasSmallest
    <3>4. PICK i \in Same : n = 7 - i
      OBVIOUS
    <3>5. \A j \in Same : j <= i
      <4> TAKE j \in Same
      <4>1. j \in 0..7 /\ i \in 0..7
        BY <3>1
      <4>2. 7 - j \in G
        BY <4>1
      <4>3. n <= 7 - j
        BY <3>3, <4>2
      <4> QED BY <3>4, <4>1, <4>3
    <3> QED BY <3>5
  <2>3. PICK i \in Same : \A j \in Same : j <= i
    BY <2>2
  <2>4. i \in slots /\ i \in Slot /\ b[i].dec = b[k].dec
    BY <2>1
  <2>5. b[i] # Nobody
    BY <1>13, <2>4 DEF Nobody
  <2>6. ~StillInDpb(slots, p, i)
    <3> SUFFICES ASSUME NEW j \in Slot \ {i}, (IF j < i /\ j \in slots THEN p.num ELSE b[j].num) = b[i].num
                 PROVE  FALSE
      BY DEF StillInDpb, b
    <3>1. CASE j < i /\ j \in slots
      BY <1>10, <2>4, <3>1
    <3>2. CASE ~(j < i /\ j \in slots)
      <4>1. b[j].num = b[i].num
        BY <3>2
      <4>2. b[j] = b[i]
        BY <1>6, <2>4, <4>1
      <4>3. j \in Same
        BY <2>4, <4>2
      <4>4. j <= i /\ j \in slots
        BY <2>1, <2>3, <4>3
      <4>5. j \in 0..7 /\ i \in 0..7
        BY <2>4 DEF Slot, REF_FRAMES
      <4> QED BY <3>2, <4>4, <4>5
    <3> QED BY <3>1, <3>2
  <2>7. i \in Gone
    BY <2>4, <2>5, <2>6
  <2> QED BY <2>4, <2>7
<1> HIDE DEF Gone, Now
<1>14. {b[i].dec : i \in Gone} = Old \ (Now \cup {None})
  BY <1>12, <1>13
<1> QED BY <1>4, <1>5, <1>14 DEF Now, b, Old

-----------------------------------------------------------------------------
(* Sending a mini-GOP on.                                                   *)

\* One sequence after another.
LEMMA ConcatIs ==
    ASSUME NEW s, NEW t, IsSeq(s), IsSeq(t)
    PROVE  /\ IsSeq(s \o t) /\ Len(s) \in Nat /\ Len(t) \in Nat /\ Len(s \o t) = Len(s) + Len(t)
           /\ \A i \in 1..Len(s) : (s \o t)[i] = s[i]
           /\ \A i \in 1..Len(t) : (s \o t)[Len(s) + i] = t[i]
<1> DEFINE A == {s[i] : i \in 1..Len(s)}
           B == {t[i] : i \in 1..Len(t)}
           S == A \cup B
<1>1. s \in Seq(A) /\ t \in Seq(B)
  BY DEF IsSeq
<1> HIDE DEF A, B
<1>2. s \in Seq(S) /\ t \in Seq(S)
  BY <1>1
<1> HIDE DEF S
<1>3. /\ s \o t \in Seq(S) /\ Len(s \o t) = Len(s) + Len(t)
      /\ \A i \in 1..(Len(s) + Len(t)) : (s \o t)[i] = IF i <= Len(s) THEN s[i] ELSE t[i - Len(s)]
  BY <1>2, ConcatProperties
<1>4. Len(s) \in Nat /\ Len(t) \in Nat
  BY <1>2
<1>5. \A i \in 1..Len(s) : (s \o t)[i] = s[i]
  BY <1>3, <1>4
<1>6. \A i \in 1..Len(t) : (s \o t)[Len(s) + i] = t[i]
  <2> TAKE i \in 1..Len(t)
  <2>1. Len(s) + i \in 1..(Len(s) + Len(t)) /\ ~(Len(s) + i <= Len(s)) /\ (Len(s) + i) - Len(s) = i
    BY <1>4
  <2> QED BY <1>3, <2>1
<1>7. IsSeq(s \o t)
  <2> DEFINE u == s \o t
  <2>1. u \in Seq(S)
    BY <1>3
  <2> HIDE DEF u
  <2>2. Len(u) \in Nat /\ u = [i \in 1..Len(u) |-> u[i]]
    BY <2>1
  <2>3. IsSeq(u)
    BY <2>2, FunctionIsSeq
  <2> QED BY <2>3 DEF u
<1> QED BY <1>3, <1>4, <1>5, <1>6, <1>7

\* The sequence t is s with m messages of mini-GOP d after it, which has that many.
Grown(t, s, m, d) ==
    /\ Len(s) \in Nat /\ m \in Nat /\ Len(t) = Len(s) + m
    /\ \A i \in 1..Len(s) : t[i] = s[i] /\ s[i].id # d
    /\ \A i \in (Len(s) + 1)..(Len(s) + m) : t[i].id = d /\ t[i].size = m

\* What was whole stays so when another mini-GOP follows.
LEMMA GrownWhole ==
    ASSUME NEW s, NEW t, NEW m, NEW d, Whole(s), Grown(t, s, m, d)
    PROVE  Whole(t)
<1> DEFINE n == Len(s)
           Block(q, i, a) == /\ q[i].size \in Nat \ {0} /\ i \in a..(a + q[i].size - 1) /\ a + q[i].size - 1 <= Len(q)
                             /\ \A j \in 1..Len(q) : q[j].id = q[i].id <=> j \in a..(a + q[i].size - 1)
                             /\ \A j \in a..(a + q[i].size - 1) : q[j].size = q[i].size
<1>1. /\ n \in Nat /\ m \in Nat /\ Len(t) = n + m
      /\ \A i \in 1..n : t[i] = s[i] /\ s[i].id # d
      /\ \A i \in (n + 1)..(n + m) : t[i].id = d /\ t[i].size = m
  BY DEF Grown
<1> HIDE DEF n
<1>2. ASSUME NEW i \in 1..(n + m)
      PROVE  \E a \in 1..Len(t) : Block(t, i, a)
  <2>1. CASE i \in 1..n
    <3>1. PICK a \in 1..n : Block(s, i, a)
      BY <2>1 DEF Whole, n
    <3> DEFINE z == a + s[i].size - 1
    <3>2. /\ s[i].size \in Nat \ {0} /\ i \in a..z /\ z <= n
          /\ \A j \in 1..n : s[j].id = s[i].id <=> j \in a..z
          /\ \A j \in a..z : s[j].size = s[i].size
      BY <3>1 DEF n
    <3>3. t[i] = s[i] /\ s[i].id # d
      BY <1>1, <2>1
    <3>4. z \in Int
      BY <3>2
    <3> HIDE DEF z
    <3>5. \A j \in 1..(n + m) : t[j].id = s[i].id <=> j \in a..z
      <4> TAKE j \in 1..(n + m)
      <4>1. CASE j \in 1..n
        BY <1>1, <3>2, <4>1
      <4>2. CASE j \notin 1..n
        <5>1. j \in (n + 1)..(n + m) /\ j \notin a..z
          BY <1>1, <3>2, <3>4, <4>2
        <5> QED BY <1>1, <3>3, <5>1
      <4> QED BY <4>1, <4>2
    <3>6. \A j \in a..z : t[j].size = s[i].size
      <4> TAKE j \in a..z
      <4>1. j \in 1..n
        BY <1>1, <3>2, <3>4
      <4> QED BY <1>1, <3>2, <4>1
    <3>7. a \in 1..(n + m) /\ z <= n + m
      BY <1>1, <3>2, <3>4
    <3>8. Block(t, i, a)
      BY <1>1, <3>2, <3>3, <3>5, <3>6, <3>7 DEF z
    <3> QED BY <1>1, <3>7, <3>8
  <2>2. CASE i \notin 1..n
    <3> DEFINE a == n + 1
               z == a + t[i].size - 1
    <3>1. i \in (n + 1)..(n + m) /\ t[i].id = d /\ t[i].size = m /\ m # 0
      <4>1. i \in (n + 1)..(n + m) /\ m # 0
        BY <1>1, <2>2
      <4> QED BY <1>1, <4>1
    <3>2. z = n + m
      BY <1>1, <3>1
    <3>3. a \in 1..(n + m) /\ i \in a..z
      BY <1>1, <3>1, <3>2
    <3>4. \A j \in 1..(n + m) : t[j].id = d <=> j \in a..(n + m)
      <4> TAKE j \in 1..(n + m)
      <4>1. j \in 1..n \/ j \in (n + 1)..(n + m)
        BY <1>1
      <4>2. j \in 1..n => j \notin (n + 1)..(n + m)
        BY <1>1
      <4> QED BY <1>1, <4>1, <4>2
    <3>5. \A j \in a..(n + m) : t[j].size = m
      BY <1>1
    <3> HIDE DEF a
    <3>6. Block(t, i, a)
      <4>1. t[i].size \in Nat \ {0} /\ i \in a..z /\ z <= Len(t)
        BY <1>1, <3>1, <3>2, <3>3
      <4>2. \A j \in 1..Len(t) : t[j].id = t[i].id <=> j \in a..z
        BY <1>1, <3>1, <3>2, <3>4
      <4>3. \A j \in a..z : t[j].size = t[i].size
        BY <3>1, <3>2, <3>5
      <4> QED BY <4>1, <4>2, <4>3
    <3> QED BY <1>1, <3>3, <3>6
  <2> QED BY <2>1, <2>2
<1> QED BY <1>1, <1>2 DEF Whole

\* A mini-GOP is sent whole but for a key frame that waits, the last of its
\* pictures; one that is split off is not the only one.
Splits == SplitsOff(group)
Waits == IsDelayedIntra(group[Len(group)])
\* The mini-GOP and the size that the message of picture k carries.
IdOf(k) == IF Splits /\ k = Len(group) THEN mgId + 1 ELSE mgId
SizeOf(k) == IF (Splits \/ Waits) /\ k = Len(group) THEN 1 ELSE IF Splits THEN Len(group) - 1 ELSE Len(group)

\* A message of picture k of the mini-GOP.
Says(message, k) == message.dec = First + k - 1 /\ message.id = IdOf(k) /\ message.size = SizeOf(k)

\* What a step sends and holds back.
LEMMA SendsWhat ==
    ASSUME Inv, SendMiniGop
    PROVE  LET n == Len(group)
               m == IF Waits THEN n - 1 ELSE n
           IN  /\ n \in Nat \ {0} /\ First \in Nat
               /\ (Splits => n >= 2) /\ (Waits /\ ~Splits => n = 1)
               /\ IsSeq(sent') /\ Len(sent') = Len(sent) + Len(delayed) + m
               /\ \A i \in 1..Len(sent) : sent'[i] = sent[i]
               /\ \A i \in 1..Len(delayed) : sent'[Len(sent) + i] = delayed[i]
               /\ \A k \in 1..m : Says(sent'[Len(sent) + Len(delayed) + k], k)
               /\ IsSeq(delayed') /\ Len(delayed') = n - m
               /\ Waits => Says(delayed'[1], n)
<1> DEFINE n == Len(group)
           m == IF Waits THEN n - 1 ELSE n
           size == IF SplitsOff(group) THEN n - 1 ELSE n
           MessageOf(p) == IF SplitsOff(group) /\ IsKey(p) THEN Message(p, mgId + 1, 1)
                           ELSE Message(p, mgId, IF IsDelayedIntra(p) THEN 1 ELSE size)
           held == {i \in DOMAIN group : IsDelayedIntra(group[i])}
           leaving == Those(group, DOMAIN group \ held)
           waiting == Those(group, held)
           out == [i \in DOMAIN leaving |-> MessageOf(leaving[i])]
<1>1. /\ phase = "assign" /\ at > n
      /\ sent' = sent \o delayed \o out
      /\ delayed' = [i \in DOMAIN waiting |-> MessageOf(waiting[i])]
  BY Zenon DEF SendMiniGop
<1>2. GroupInv /\ SendInv /\ WindowInv /\ NumbersInv
  BY DEF Inv
<1>3. /\ n \in Nat /\ group = [k \in 1..n |-> group[k]] /\ group # <<>>
      /\ \A k \in 1..n : /\ IsPicture(group[k]) /\ group[k].dec = First + k - 1
                         /\ IsDelayedIntra(group[k]) => k = n /\ (k > 1 => group[1].inOrder)
      /\ \A j, k \in 1..n : j # k => ~IsKey(group[j]) \/ ~IsKey(group[k])
  BY <1>1, <1>2 DEF GroupInv, GroupOK
<1>4. n # 0 /\ n \in Nat \ {0} /\ n \in 1..n /\ 1 \in 1..n /\ DOMAIN group = 1..n
  BY <1>3
<1>5. First \in Nat
  BY <1>2 DEF NumbersInv, First
<1>6. Splits => IsKey(group[n]) /\ group[1].inOrder /\ RandomAccess
  BY DEF Splits, SplitsOff
<1>7. Splits => n >= 2
  <2> SUFFICES ASSUME Splits, n = 1
               PROVE  FALSE
    BY <1>4
  <2>1. IsPicture(group[1]) /\ IsKey(group[1]) /\ group[1].inOrder
    BY <1>3, <1>4, <1>6
  <2> QED BY <1>6, <2>1 DEF IsPicture, LowDelay
<1>8. Waits /\ ~Splits => n = 1
  <2> SUFFICES ASSUME Waits, ~Splits, n # 1
               PROVE  FALSE
    OBVIOUS
  <2>1. group[1].inOrder /\ IsKey(group[n]) /\ RandomAccess
    BY <1>3, <1>4 DEF Waits, IsDelayedIntra
  <2> QED BY <2>1 DEF Splits, SplitsOff, Waits
<1>9. held = IF Waits THEN {n} ELSE {}
  BY <1>3, <1>4 DEF Waits
<1>10. m \in Nat /\ (Waits => m = n - 1) /\ (~Waits => m = n)
  <2> HIDE DEF n
  <2> QED BY <1>4
<1> HIDE DEF m
<1>13. n - m \in Nat /\ (Waits => n - m = 1) /\ (~Waits => n - m = 0) /\ m <= n
  <2> HIDE DEF n
  <2> QED BY <1>4, <1>10
<1>11. leaving = [k \in 1..m |-> group[k]]
  <2>1. DOMAIN group \ held = 1..m
    <3> HIDE DEF n, held
    <3> QED BY <1>4, <1>9, <1>10
  <2> QED BY <1>10, <2>1, ThoseFirst
<1>12. waiting = [k \in 1..(n - m) |-> group[n]]
  <2>1. CASE Waits
    <3>1. n - m = 1
      BY <1>13, <2>1
    <3>2. waiting = [k \in 1..1 |-> group[n]]
      BY <1>4, <1>9, <2>1, ThoseOne
    <3> QED BY <3>1, <3>2
  <2>2. CASE ~Waits
    <3>1. n - m = 0
      BY <1>13, <2>2
    <3>2. waiting = [k \in 1..0 |-> group[k]]
      BY <1>9, <2>2, ThoseNone
    <3> QED BY <3>1, <3>2
  <2> QED BY <2>1, <2>2
\* The message of every picture of the mini-GOP.
<1>14. ASSUME NEW k \in 1..n
       PROVE  Says(MessageOf(group[k]), k)
  <2>1. Splits => (IsKey(group[k]) <=> k = n)
    BY <1>3, <1>4, <1>6
  <2>2. IsDelayedIntra(group[k]) <=> Waits /\ k = n
    BY <1>3 DEF Waits
  <2>3. group[k].dec = First + k - 1
    BY <1>3
  <2>4. CASE Splits /\ k = n
    <3>1. MessageOf(group[k]) = Message(group[k], mgId + 1, 1)
      BY <2>1, <2>4 DEF Splits
    <3> HIDE DEF MessageOf
    <3>2. IdOf(k) = mgId + 1 /\ SizeOf(k) = 1
      BY <2>4 DEF IdOf, SizeOf
    <3> QED BY <2>3, <3>1, <3>2 DEF Message, Says
  <2>5. CASE ~(Splits /\ k = n)
    <3>1. MessageOf(group[k]) = Message(group[k], mgId, IF IsDelayedIntra(group[k]) THEN 1 ELSE size)
      BY <2>1, <2>5 DEF Splits
    <3>2. IdOf(k) = mgId /\ SizeOf(k) = IF IsDelayedIntra(group[k]) THEN 1 ELSE size
      BY <2>2, <2>5 DEF IdOf, SizeOf, Splits
    <3> HIDE DEF MessageOf, size
    <3> QED BY <2>3, <3>1, <3>2 DEF Message, Says
  <2> QED BY <2>4, <2>5
<1> HIDE DEF MessageOf, leaving, waiting
<1>15. /\ out = [k \in 1..m |-> out[k]]
       /\ \A k \in 1..m : out[k] = MessageOf(group[k])
  BY <1>11
<1>16. /\ delayed' = [k \in 1..(n - m) |-> delayed'[k]]
       /\ \A k \in 1..(n - m) : delayed'[k] = MessageOf(group[n])
  BY <1>1, <1>12
<1> HIDE DEF out, n
<1>17. IsSeq(out) /\ Len(out) = m /\ IsSeq(delayed') /\ Len(delayed') = n - m
  BY <1>10, <1>13, <1>15, <1>16, FunctionIsSeq
<1>18. IsSeq(sent) /\ IsSeq(delayed)
  BY <1>2 DEF SendInv
<1> DEFINE s == sent \o delayed
<1>19. /\ IsSeq(s) /\ Len(sent) \in Nat /\ Len(delayed) \in Nat /\ Len(s) = Len(sent) + Len(delayed)
       /\ \A i \in 1..Len(sent) : s[i] = sent[i]
       /\ \A i \in 1..Len(delayed) : s[Len(sent) + i] = delayed[i]
  BY <1>18, ConcatIs
<1>20. sent' = s \o out
  BY <1>1
<1> HIDE DEF s
<1> DEFINE u == s \o out
<1>26. /\ IsSeq(u) /\ Len(u) = Len(s) + Len(out)
       /\ \A i \in 1..Len(s) : u[i] = s[i]
       /\ \A i \in 1..Len(out) : u[Len(s) + i] = out[i]
  <2>1. IsSeq(s) /\ IsSeq(out)
    BY <1>17, <1>19
  <2>2. /\ IsSeq(s \o out) /\ Len(s \o out) = Len(s) + Len(out)
        /\ \A i \in 1..Len(s) : (s \o out)[i] = s[i]
        /\ \A i \in 1..Len(out) : (s \o out)[Len(s) + i] = out[i]
    BY ONLY <2>1, ConcatIs
  <2> QED BY ONLY <2>2
<1>27. sent' = u
  BY <1>20
<1> HIDE DEF u
<1>21. /\ IsSeq(sent') /\ Len(sent') = Len(s) + m
       /\ \A i \in 1..Len(s) : sent'[i] = s[i]
       /\ \A i \in 1..m : sent'[Len(s) + i] = out[i]
  BY <1>17, <1>26, <1>27
<1>22. \A i \in 1..Len(sent) : sent'[i] = sent[i]
  BY <1>19, <1>21
<1>23. \A i \in 1..Len(delayed) : sent'[Len(sent) + i] = delayed[i]
  <2> TAKE i \in 1..Len(delayed)
  <2>1. Len(sent) + i \in 1..Len(s)
    BY <1>19
  <2> QED BY <1>19, <1>21, <2>1
<1>24. \A k \in 1..m : Says(sent'[Len(sent) + Len(delayed) + k], k)
  <2> TAKE k \in 1..m
  <2>1. sent'[Len(s) + k] = MessageOf(group[k]) /\ k \in 1..n
    BY <1>4, <1>10, <1>13, <1>15, <1>21
  <2> QED BY <1>14, <1>19, <2>1
<1>25. Waits => Says(delayed'[1], n)
  <2> SUFFICES ASSUME Waits
               PROVE  Says(delayed'[1], n)
    OBVIOUS
  <2>1. delayed'[1] = MessageOf(group[n])
    BY <1>13, <1>16
  <2> QED BY <1>4, <1>14, <2>1
<1> QED BY <1>4, <1>5, <1>7, <1>8, <1>17, <1>19, <1>21, <1>22, <1>23, <1>24, <1>25 DEF n, m

\* What was sent stays in decode order and whole.
LEMMA SendKeepsSent ==
    ASSUME Inv, SendMiniGop
    PROVE  SendInv'
<1> DEFINE n == Len(group)
           m == IF Waits THEN n - 1 ELSE n
           S == Len(sent)
           D == Len(delayed)
           f == IF Splits THEN n - 1 ELSE m
<1>1. /\ n \in Nat \ {0} /\ First \in Nat
      /\ (Splits => n >= 2) /\ (Waits /\ ~Splits => n = 1)
      /\ IsSeq(sent') /\ Len(sent') = S + D + m
      /\ \A i \in 1..S : sent'[i] = sent[i]
      /\ \A i \in 1..D : sent'[S + i] = delayed[i]
      /\ \A k \in 1..m : Says(sent'[S + D + k], k)
      /\ IsSeq(delayed') /\ Len(delayed') = n - m
      /\ Waits => Says(delayed'[1], n)
  BY SendsWhat
<1>2. SendInv /\ NumbersInv
  BY DEF Inv
<1>3. /\ IsSeq(sent) /\ IsSeq(delayed) /\ D <= 1 /\ S + D = First /\ Whole(sent)
      /\ \A i \in 1..S : sent[i].dec = i - 1 /\ sent[i].id \in Nat /\ sent[i].id < mgId - D
      /\ \A i \in 1..D : /\ delayed[i].dec = S
                         /\ delayed[i].id \in Nat /\ delayed[i].id = mgId - 1 /\ delayed[i].size = 1
  BY <1>2 DEF SendInv
<1>4. S \in Nat /\ D \in Nat /\ mgId \in Nat
  BY <1>2, <1>3, ConcatIs DEF NumbersInv
<1>5. mgId' = mgId + (IF Splits THEN 2 ELSE 1) /\ group' = <<>> /\ altNumber' = altNumber
  BY DEF SendMiniGop, Splits, numbers
<1>6. altNumber = First + n /\ First' = First + n
  <2>1. altNumber \in Nat
    <3>1. altNumber \in Built..(2 * Built) /\ Built \in Nat
      BY BuiltIs DEF Inv, NumbersInv
    <3> QED BY <3>1
  <2>2. First = altNumber - n
    BY DEF First
  <2>3. First' = altNumber - 0
    BY <1>5 DEF First
  <2> HIDE DEF n
  <2> QED BY <1>1, <2>1, <2>2, <2>3
<1> DEFINE Id(k) == IF Splits /\ k = n THEN mgId + 1 ELSE mgId
           Size(k) == IF (Splits \/ Waits) /\ k = n THEN 1 ELSE IF Splits THEN n - 1 ELSE n
<1>7. \A k : IdOf(k) = Id(k) /\ SizeOf(k) = Size(k)
  BY DEF IdOf, SizeOf
<1> HIDE DEF n, S, D
<1>8. /\ (Waits => m = n - 1) /\ (~Waits => m = n) /\ m \in Nat /\ m <= n
      /\ f \in Nat /\ f <= m /\ m - f \in {0, 1} /\ (m - f = 1 => Splits /\ ~Waits /\ f = n - 1 /\ m = n)
      /\ n - m \in {0, 1} /\ (n - m = 1 <=> Waits)
  BY <1>1
<1>9. \A k \in 1..f : Id(k) = mgId /\ Size(k) = f
  BY <1>1, <1>8
<1>10. m - f = 1 => Id(m) = mgId + 1 /\ Size(m) = 1
  BY <1>1, <1>8
<1>11. \A k \in 1..m : Id(k) \in Nat /\ Id(k) < mgId' - (n - m)
  BY <1>1, <1>4, <1>5, <1>8
<1>12. Waits => Id(n) \in Nat /\ Id(n) = mgId' - 1 /\ Size(n) = 1
  BY <1>1, <1>4, <1>5
<1> HIDE DEF m, f, Id, Size
<1>13. /\ Len(sent') = First + m
       /\ \A k \in 1..m : /\ sent'[First + k].dec = First + k - 1 /\ sent'[First + k].id = Id(k)
                          /\ sent'[First + k].size = Size(k)
  BY <1>1, <1>3, <1>7 DEF Says
\* Everything sent, by its place.
<1>14. \A i \in 1..First : /\ sent'[i].dec = i - 1 /\ sent'[i].id \in Nat /\ sent'[i].id < mgId
                           /\ i > S => sent'[i].id = mgId - 1 /\ sent'[i].size = 1 /\ D = 1
                           /\ i <= S => sent'[i] = sent[i] /\ sent[i].id < mgId - D
  <2> TAKE i \in 1..First
  <2>1. CASE i <= S
    <3>1. i \in 1..S
      BY <1>4, <2>1
    <3> QED BY <1>1, <1>3, <1>4, <2>1, <3>1
  <2>2. CASE ~(i <= S)
    <3>1. i = S + 1 /\ D = 1 /\ 1 \in 1..D
      BY <1>1, <1>3, <1>4, <2>2
    <3>2. sent'[S + 1] = delayed[1]
      BY <1>1, <3>1
    <3>3. delayed[1].dec = S /\ delayed[1].id = mgId - 1 /\ delayed[1].size = 1
      BY <1>3, <3>1
    <3>4. mgId - 1 \in Nat
      BY <1>3, <3>1
    <3> QED BY <1>4, <2>2, <3>1, <3>2, <3>3, <3>4
  <2> QED BY <2>1, <2>2
<1>15. \A i \in 1..Len(sent') : /\ sent'[i].dec = i - 1 /\ sent'[i].id \in Nat
                                /\ sent'[i].id < mgId' - Len(delayed')
  <2> TAKE i \in 1..Len(sent')
  <2>1. CASE i \in 1..First
    <3>1. mgId <= mgId' - (n - m)
      BY <1>1, <1>4, <1>5, <1>8
    <3>2. mgId' - (n - m) \in Int
      BY <1>4, <1>5, <1>8
    <3> QED BY <1>1, <1>4, <1>14, <2>1, <3>1, <3>2
  <2>2. CASE i \notin 1..First
    <3> DEFINE k == i - First
    <3>1. k \in 1..m /\ i = First + k
      BY <1>1, <1>8, <1>13, <2>2
    <3> HIDE DEF k
    <3>2. sent'[First + k].dec = First + k - 1 /\ sent'[First + k].id = Id(k)
      BY <1>13, <3>1
    <3> QED BY <1>1, <1>11, <3>1, <3>2
  <2> QED BY <2>1, <2>2
<1>16. \A i \in 1..Len(delayed') : /\ delayed'[i].dec = Len(sent')
                                   /\ delayed'[i].id \in Nat /\ delayed'[i].id = mgId' - 1 /\ delayed'[i].size = 1
  <2> TAKE i \in 1..Len(delayed')
  <2>1. Waits /\ i = 1 /\ m = n - 1
    BY <1>1, <1>8
  <2>2. delayed'[1].dec = First + n - 1 /\ delayed'[1].id = Id(n) /\ delayed'[1].size = Size(n)
    BY <1>1, <1>7, <2>1 DEF Says
  <2> QED BY <1>1, <1>12, <1>13, <2>1, <2>2
<1>17. Whole(sent')
  <2> DEFINE s1 == [i \in 1..First |-> sent'[i]]
             s2 == [i \in 1..(First + f) |-> sent'[i]]
             d1 == IF D = 0 THEN mgId ELSE mgId - 1
  <2>1. Len(s1) = First /\ \A i \in 1..First : s1[i] = sent'[i]
    <3>1. s1 = [i \in 1..First |-> s1[i]] /\ \A i \in 1..First : s1[i] = sent'[i]
      OBVIOUS
    <3> HIDE DEF s1
    <3> QED BY <1>1, <3>1, FunctionIsSeq
  <2>2. Len(s2) = First + f /\ \A i \in 1..(First + f) : s2[i] = sent'[i]
    <3>1. s2 = [i \in 1..(First + f) |-> s2[i]] /\ \A i \in 1..(First + f) : s2[i] = sent'[i]
      OBVIOUS
    <3>2. First + f \in Nat
      BY <1>1, <1>8
    <3> HIDE DEF s2
    <3> QED BY <3>1, <3>2, FunctionIsSeq
  <2> HIDE DEF s1, s2
  <2>3. Grown(s1, sent, D, d1)
    <3>1. \A i \in 1..S : s1[i] = sent[i] /\ sent[i].id # d1
      <4> TAKE i \in 1..S
      <4>1. i \in 1..First /\ i <= S
        BY <1>1, <1>3, <1>4
      <4>2. sent[i].id \in Nat /\ sent[i].id < mgId - D
        BY <1>3
      <4>3. s1[i] = sent[i]
        BY <1>1, <2>1, <4>1
      <4>4. sent[i].id # mgId /\ (D # 0 => sent[i].id # mgId - 1)
        BY <1>3, <1>4, <4>2
      <4> QED BY <4>3, <4>4
    <3>2. \A i \in (S + 1)..(S + D) : s1[i].id = d1 /\ s1[i].size = D
      <4> TAKE i \in (S + 1)..(S + D)
      <4>1. i \in 1..First /\ i > S
        BY <1>1, <1>3, <1>4
      <4>2. s1[i] = sent'[i] /\ sent'[i].id = mgId - 1 /\ sent'[i].size = 1 /\ D = 1
        BY <1>14, <2>1, <4>1
      <4> QED BY <4>2
    <3> HIDE DEF d1
    <3> QED BY <1>3, <1>4, <2>1, <3>1, <3>2 DEF Grown, S
  <2> HIDE DEF d1
  <2>4. Whole(s1)
    BY <1>3, <2>3, GrownWhole
  <2>5. Grown(s2, s1, f, mgId)
    <3>1. \A i \in 1..First : s2[i] = s1[i] /\ s1[i].id # mgId
      <4> TAKE i \in 1..First
      <4>1. i \in 1..(First + f)
        BY <1>1, <1>8
      <4> QED BY <1>4, <1>14, <2>1, <2>2, <4>1
    <3>2. \A i \in (First + 1)..(First + f) : s2[i].id = mgId /\ s2[i].size = f
      <4> TAKE i \in (First + 1)..(First + f)
      <4> DEFINE k == i - First
      <4>1. k \in 1..f /\ k \in 1..m /\ i = First + k /\ i \in 1..(First + f)
        BY <1>1, <1>8
      <4> HIDE DEF k
      <4> QED BY <1>9, <1>13, <2>2, <4>1
    <3> QED BY <1>1, <1>8, <2>1, <2>2, <3>1, <3>2 DEF Grown
  <2>6. Whole(s2)
    BY <2>4, <2>5, GrownWhole
  <2>7. Grown(sent', s2, m - f, mgId + 1)
    <3>1. \A i \in 1..(First + f) : sent'[i] = s2[i] /\ s2[i].id # mgId + 1
      <4> TAKE i \in 1..(First + f)
      <4>1. CASE i \in 1..First
        BY <1>4, <1>14, <2>2, <4>1
      <4>2. CASE i \notin 1..First
        <5>1. i \in (First + 1)..(First + f)
          BY <1>1, <1>8, <4>2
        <5>2. s2[i].id = mgId
          BY <2>1, <2>5, <5>1 DEF Grown
        <5> QED BY <1>4, <2>2, <5>2
      <4> QED BY <4>1, <4>2
    <3>2. \A i \in ((First + f) + 1)..((First + f) + (m - f)) : sent'[i].id = mgId + 1 /\ sent'[i].size = m - f
      <4> TAKE i \in ((First + f) + 1)..((First + f) + (m - f))
      <4>1. m - f = 1 /\ i = First + m /\ m \in 1..m
        BY <1>1, <1>8
      <4> QED BY <1>10, <1>13, <4>1
    <3>3. First + f \in Nat /\ m - f \in Nat /\ First + m = (First + f) + (m - f)
      BY <1>1, <1>8
    <3> QED BY <1>13, <2>2, <3>1, <3>2, <3>3 DEF Grown
  <2> QED BY <2>6, <2>7, GrownWhole
<1>18. Len(delayed') <= 1 /\ Len(sent') + Len(delayed') = First'
  BY <1>1, <1>6, <1>8, <1>13
<1> QED BY <1>1, <1>15, <1>16, <1>17, <1>18 DEF SendInv

\* Sending a mini-GOP on keeps the invariant.
LEMMA SendKeeps ==
    ASSUME Inv, SendMiniGop
    PROVE  Inv'
<1> DEFINE n == Len(group)
<1>1. /\ phase = "assign" /\ at > n
      /\ mgId' = mgId + (IF SplitsOff(group) THEN 2 ELSE 1)
      /\ group' = <<>> /\ at' = 1
      /\ phase' = IF miniGops = <<>> THEN "place" ELSE "build"
      /\ window' = IF miniGops = <<>> THEN <<>> ELSE window
      /\ UNCHANGED <<cfg, poc, intraPosition, forcedLeft, startup, numbers, miniGops, toggles, pdDpb>>
  BY DEF SendMiniGop
<1>2. /\ cfg' = cfg /\ poc' = poc /\ forcedLeft' = forcedLeft /\ startup' = startup
      /\ altNumber' = altNumber /\ baseNumber' = baseNumber /\ position' = position
      /\ afterIntra' = afterIntra /\ prevLevels' = prevLevels /\ miniGops' = miniGops
      /\ lay0' = lay0 /\ lay1' = lay1 /\ lastLongBase' = lastLongBase /\ dpb' = dpb /\ pdDpb' = pdDpb
  BY <1>1 DEF numbers, toggles
<1>3. WindowInv /\ PiecesInv /\ NumbersInv /\ GroupInv /\ Toggles /\ BuffersInv
  BY DEF Inv
<1>4. n \in Nat \ {0} /\ First \in Nat /\ (SplitsOff(group) => n >= 2)
  BY SendsWhat DEF Splits
<1>5. at = n + 1
  <2>1. at \in 1..(n + 1)
    BY <1>3 DEF GroupInv
  <2> HIDE DEF n
  <2> QED BY <1>1, <1>4, <2>1
<1>6. ~Before /\ phase # "place" /\ phase # "split"
  BY <1>1 DEF Before
<1>7. window # <<>> /\ Len(window) \in Nat /\ poc \in Int /\ Len(window) <= poc + 1 /\ Built \in Nat
  BY <1>3, <1>6, BuiltIs DEF WindowInv
<1>8. Built' = Built
  <2>1. CASE miniGops = <<>>
    <3>1. Built = poc + 1
      BY <1>3, <1>6, <2>1, BuiltIs
    <3>2. Before' /\ window' = <<>>
      BY <1>1, <2>1 DEF Before
    <3>3. Built' = poc + 1 - Len(window') + 0
      BY <1>2, <3>2 DEF Built
    <3>4. Len(window') = 0
      BY <3>2
    <3> QED BY <1>7, <3>1, <3>3, <3>4
  <2>2. CASE miniGops # <<>>
    <3>1. phase' = "build" /\ window' = window /\ ~Before'
      BY <1>1, <2>2 DEF Before
    <3> QED BY <1>2, <1>6, <3>1 DEF Built
  <2> QED BY <2>1, <2>2
<1>9. NextLevels' = NextLevels /\ (LowDelay' <=> LowDelay) /\ EntryCount(NextLevels) \in Nat \ {0}
  BY <1>2, <1>3, NextLevelsOK DEF NextLevels, LowDelay, RandomAccess
<1>10. WindowInv'
  <2>1. CASE miniGops = <<>>
    <3>1. /\ window' = <<>> /\ phase' = "place" /\ Len(window') = 0 /\ window' \in Seq(InputPicture)
      BY <1>1, <2>1
    <3>2. \A i : i \notin 1..0 /\ i \notin 1..(0 - 1)
      OBVIOUS
    <3>3. 0 < EntryCount(NextLevels)'
      BY <1>9 DEF EntryCount
    <3>4. 0 <= poc' + 1
      BY <1>2, <1>7
    <3> QED BY <1>2, <1>3, <1>9, <3>1, <3>2, <3>3, <3>4 DEF WindowInv
  <2>2. CASE miniGops # <<>>
    <3>1. phase' = "build" /\ window' = window
      BY <1>1, <2>2
    <3> QED BY <1>2, <1>3, <1>6, <1>9, <3>1 DEF WindowInv, IsKey
  <2> QED BY <2>1, <2>2
<1>11. PiecesInv'
  <2>1. CASE miniGops = <<>>
    BY <1>2, <2>1 DEF PiecesInv, Chained
  <2>2. CASE miniGops # <<>>
    <3>1. phase' = "build" /\ window' = window
      BY <1>1, <2>2
    <3> QED BY <1>2, <1>3, <3>1 DEF PiecesInv, Chained, IsPiece, Before
  <2> QED BY <2>1, <2>2
<1>12. NumbersInv'
  <2>1. mgId' \in Nat /\ mgId' <= altNumber
    <3>1. mgId \in Nat /\ mgId + n <= altNumber
      BY <1>3 DEF NumbersInv
    <3>2. altNumber \in Nat
      <4>1. altNumber \in Built..(2 * Built)
        BY <1>3 DEF NumbersInv
      <4> QED BY <1>7, <4>1
    <3> HIDE DEF n
    <3> QED BY <1>1, <1>4, <3>1, <3>2
  <2>2. Len(group') = 0
    BY <1>1
  <2>3. mgId' + Len(group') <= altNumber'
    BY <1>2, <2>1, <2>2
  <2>4. poc' # None
    <3>1. Len(window) # 0
      BY <1>3, <1>7 DEF WindowInv
    <3> QED BY <1>2, <1>7, <3>1 DEF None
  <2>5. phase' # "split"
    BY <1>1
  <2>6. Len(group') \in Nat
    BY <2>2
  <2> QED BY <1>2, <1>3, <1>8, <2>1, <2>3, <2>4, <2>5, <2>6 DEF NumbersInv
<1>13. GroupInv'
  <2>1. group' = <<>> /\ Len(group') = 0 /\ phase' \in {"place", "split", "build"} /\ at' = 1
    BY <1>1
  <2> QED BY <2>1 DEF GroupInv, GroupOK
<1>14. Toggles'
  BY <1>2, <1>3 DEF Toggles, RandomAccess
<1>15. BuffersInv'
  <2>1. Decided = n /\ Assigned = n
    <3>1. at - 1 = n
      <4> HIDE DEF n
      <4> QED BY <1>4, <1>5
    <3> QED BY <1>1, <3>1 DEF Decided, Assigned
  <2>2. Decided' = 0 /\ Assigned' = 0
    BY <1>1 DEF Decided, Assigned
  <2>3. First' = First + n /\ Len(group') = 0
    <3>1. First = altNumber - n
      BY DEF First
    <3>2. First' = altNumber - 0 /\ Len(group') = 0
      BY <1>1, <1>2 DEF First
    <3>3. altNumber \in Int
      <4>1. altNumber \in Built..(2 * Built)
        BY <1>3 DEF NumbersInv
      <4> QED BY <1>7, <4>1
    <3> HIDE DEF n
    <3> QED BY <1>4, <3>1, <3>2, <3>3
  <2>4. BufferOK(dpb, n) /\ BufferOK(pdDpb, n)
    BY <1>3, <2>1 DEF BuffersInv
  <2>5. ASSUME NEW b, BufferOK(b, n)
        PROVE  /\ \A i \in Slot : b[i].num < Built' /\ b[i].dec < First' + 0
               /\ \A i \in Slot : \A k \in (0 + 1)..Len(group') : group'[k].overlay \/ b[i].num # group'[k].num
    <3>1. \A i \in Slot : b[i].num < Built /\ b[i].dec < First + n
      BY <2>5 DEF BufferOK
    <3>2. First' + 0 = First + n
      <4> HIDE DEF n
      <4> QED BY <1>4, <2>3
    <3>3. \A k : k \notin (0 + 1)..Len(group')
      BY <2>3
    <3> QED BY <1>8, <3>1, <3>2, <3>3
  <2>6. BufferOK(dpb, Decided)' /\ BufferOK(pdDpb, Assigned)'
    BY <1>2, <2>2, <2>4, <2>5 DEF BufferOK
  <2> QED BY <2>6 DEF BuffersInv
<1>16. SendInv'
  BY SendKeepsSent
<1> QED BY <1>10, <1>11, <1>12, <1>13, <1>14, <1>15, <1>16 DEF Inv

\* Every step keeps the invariant.
LEMMA NextKeeps == Inv /\ [Next]_vars => Inv'
<1> SUFFICES ASSUME Inv, [Next]_vars
             PROVE  Inv'
  OBVIOUS
<1>1. CASE UNCHANGED vars
  <2>1. /\ UNCHANGED <<cfg, phase, startup, miniGops, group, at, pdDpb>>
        /\ UNCHANGED place /\ UNCHANGED numbers /\ UNCHANGED toggles /\ UNCHANGED sending
    BY <1>1 DEF vars
  <2>2. UNCHANGED <<poc, intraPosition, window, forcedLeft, altNumber, baseNumber, position, afterIntra, prevLevels,
                    lay0, lay1, lastLongBase, dpb, delayed, mgId, sent>>
    BY <2>1 DEF place, numbers, toggles, sending
  <2>3. WindowInv'
    BY <2>1, <2>2 DEF Inv, WindowInv, NextLevels, LowDelay, RandomAccess, IsKey
  <2>4. PiecesInv'
    BY <2>1, <2>2 DEF Inv, PiecesInv, Chained, IsPiece, Before
  <2>5. Built' = Built /\ First' = First
    BY <2>1, <2>2 DEF Built, Before, First
  <2>6. NumbersInv'
    BY <2>1, <2>2, <2>5 DEF Inv, NumbersInv
  <2>7. GroupOK(group')
    BY <2>1 DEF Inv, GroupInv
  <2>8. GroupInv'
    <3>1. GroupOK(group)'
      BY <2>1, <2>7, GroupCarries
    <3> QED BY <2>1, <2>5, <3>1 DEF Inv, GroupInv
  <2>9. Toggles'
    BY <2>1, <2>2 DEF Inv, Toggles, RandomAccess
  <2>10. BuffersInv'
    <3>1. Decided' = Decided /\ Assigned' = Assigned
      BY <2>1 DEF Decided, Assigned
    <3> QED BY <2>1, <2>2, <2>5, <3>1 DEF Inv, BuffersInv, BufferOK
  <2>11. SendInv'
    <3>1. Whole(sent)'
      <4>1. Whole(sent) /\ sent' = sent
        BY <2>2 DEF Inv, SendInv
      <4> QED BY ONLY <4>1
    <3> QED BY <2>2, <2>5, <3>1 DEF Inv, SendInv, IsSeq
  <2> QED BY <2>3, <2>4, <2>6, <2>8, <2>9, <2>10, <2>11 DEF Inv
<1>2. CASE \E forced \in BOOLEAN : PlacePicture(forced)
  BY <1>2, PlaceKeeps
<1>3. CASE SplitWindow
  BY <1>3, SplitKeeps
<1>4. CASE StartMiniGop
  BY <1>4, StartKeeps
<1>5. CASE DecidePicture
  BY <1>5, DecideKeeps
<1>6. CASE LeaveToOverlay
  BY <1>6, LeaveKeeps
<1>7. CASE AssignReferences
  BY <1>7, AssignKeeps
<1>8. CASE SendMiniGop
  BY <1>8, SendKeeps
<1> QED BY <1>1, <1>2, <1>3, <1>4, <1>5, <1>6, <1>7, <1>8 DEF Next

\* The invariant of the picture decision, of every configuration that the settings
\* allow and every sequence.
THEOREM Invariance == Spec => []Inv
<1>1. Init => Inv
  BY InitInv
<1>2. Inv /\ [Next]_vars => Inv'
  BY NextKeeps
<1> QED BY <1>1, <1>2, PTL DEF Spec

\* The variables have their types in every state of the invariant.
LEMMA InvTypes == Inv => TypeOK
<1> SUFFICES ASSUME Inv
             PROVE  TypeOK
  OBVIOUS
<1>1. WindowInv /\ PiecesInv /\ NumbersInv /\ GroupInv /\ Toggles /\ BuffersInv /\ SendInv
  BY DEF Inv
<1>2. /\ cfg.hl \in 0..5 /\ cfg.pictures \in Nat \ {0} /\ cfg.flatMaxRefs \in 1..4
  BY <1>1, ConfigOK
<1>3. /\ Built \in Nat /\ Built <= poc + 1 /\ Len(window) \in Nat /\ poc \in Int
      /\ poc \in None..(cfg.pictures - 1) /\ Len(window) <= poc + 1
  BY <1>1, BuiltIs DEF WindowInv
<1>4. Number(poc) /\ Number(poc - Len(window))
  BY <1>2, <1>3 DEF Number, None
<1>5. \A i \in DOMAIN window : window[i].num = poc - Len(window) + i
  <2>1. DOMAIN window = 1..Len(window)
    BY <1>1 DEF WindowInv
  <2> QED BY <1>1, <2>1 DEF WindowInv
<1>6. prevLevels \in 0..5 /\ position \in 0..(EntryCount(cfg.hl) - 1)
  <2>1. prevLevels \in 0..cfg.hl /\ position \in 0..(EntryCount(prevLevels) - 1)
    BY <1>1 DEF NumbersInv
  <2>2. prevLevels \in 0..5 /\ prevLevels <= cfg.hl
    BY <1>2, <2>1
  <2>3. EntryCount(prevLevels) \in Nat /\ EntryCount(cfg.hl) \in Nat /\ EntryCount(prevLevels) <= EntryCount(cfg.hl)
    <3>1. /\ \/ prevLevels = 0
             \/ prevLevels = 1
             \/ prevLevels = 2
             \/ prevLevels = 3
             \/ prevLevels = 4
             \/ prevLevels = 5
          /\ \/ cfg.hl = 0
             \/ cfg.hl = 1
             \/ cfg.hl = 2
             \/ cfg.hl = 3
             \/ cfg.hl = 4
             \/ cfg.hl = 5
      BY <1>2, <2>2
    <3> QED BY <2>2, <3>1, EntryCounts
  <2> QED BY <2>1, <2>2, <2>3
<1>7. {altNumber, baseNumber, mgId, lastLongBase} \subseteq 0..(2 * cfg.pictures)
  <2>1. Built <= cfg.pictures
    BY <1>2, <1>3
  <2>2. altNumber \in Nat /\ altNumber <= 2 * cfg.pictures /\ baseNumber = altNumber
    <3>1. altNumber \in Built..(2 * Built) /\ baseNumber = altNumber
      BY <1>1 DEF NumbersInv
    <3> QED BY <1>2, <1>3, <2>1, <3>1
  <2>3. mgId \in Nat /\ mgId <= altNumber
    <3>1. mgId \in Nat /\ Len(group) \in Nat /\ mgId + Len(group) <= altNumber
      BY <1>1 DEF NumbersInv
    <3> QED BY <2>2, <3>1
  <2>4. lastLongBase \in 0..(cfg.pictures - 1)
    BY <1>1 DEF Toggles
  <2> QED BY <1>2, <2>2, <2>3, <2>4
<1>8. lay0 \in 0..7 /\ lay1 \in 0..2
  <2>1. lay0 \in 0..(cfg.flatMaxRefs - 1) \/ lay0 \in 0..7 \/ lay0 \in 0..2
    BY <1>1 DEF Toggles
  <2>2. lay1 \in 0..2 \/ lay1 \in 0..1
    BY <1>1 DEF Toggles
  <2>3. lay0 \in 0..7
    BY <1>2, <2>1
  <2> QED BY <2>2, <2>3
<1>9. /\ at \in 1..(Len(group) + 1) /\ (group = <<>> <=> phase \in {"place", "split", "build"})
      /\ \A i \in DOMAIN group : group[i].refresh \subseteq Slot /\ group[i].layer \in 0..group[i].hl
  <2>1. DOMAIN group = 1..Len(group)
    BY <1>1 DEF GroupInv, GroupOK
  <2> QED BY <1>1, <2>1 DEF GroupInv, GroupOK, IsPicture, Refreshes
<1>10. \A i \in Slot : dpb[i].layer \in 0..5 /\ Number(dpb[i].num) /\ Number(pdDpb[i].num)
  <2>1. ASSUME NEW b, NEW done, BufferOK(b, done), NEW i \in Slot
        PROVE  b[i].layer \in 0..5 /\ Number(b[i].num)
    <3>1. b[i] \in Entry /\ b[i].num < Built
      BY <2>1 DEF BufferOK
    <3>2. b[i].layer \in 0..5 /\ b[i].num \in Nat \cup {None}
      BY <3>1 DEF Entry
    <3>3. b[i].num \in None..(cfg.pictures - 1)
      BY <1>2, <1>3, <3>1, <3>2 DEF None
    <3> QED BY <3>2, <3>3 DEF Number
  <2> QED BY <1>1, <2>1 DEF BuffersInv
<1>11. /\ cfg \in Configs /\ forcedLeft \in 0..cfg.forced
       /\ phase \in {"place", "split", "build", "decide", "assign"}
       /\ startup \in BOOLEAN /\ afterIntra \in BOOLEAN /\ Len(delayed) <= 1
  BY <1>1 DEF WindowInv, NumbersInv, SendInv
<1> QED BY <1>4, <1>5, <1>6, <1>7, <1>8, <1>9, <1>10, <1>11 DEF TypeOK

\* Type correctness.
THEOREM Typing == Spec => []TypeOK
BY Invariance, InvTypes, PTL

\* Mini-GOPs are whole in every state of the invariant.
LEMMA InvWhole == Inv => MiniGopsArriveWhole
<1> SUFFICES ASSUME Inv, NEW i \in DOMAIN sent
             PROVE  LET same == {j \in DOMAIN sent : sent[j].id = sent[i].id}
                    IN  /\ sent[i].dec = i - 1
                        /\ Cardinality(same) = sent[i].size
                        /\ \A j \in same : j - i < sent[i].size /\ sent[j].size = sent[i].size
  BY DEF MiniGopsArriveWhole
<1> DEFINE same == {j \in DOMAIN sent : sent[j].id = sent[i].id}
<1>1. /\ IsSeq(sent) /\ Whole(sent)
      /\ \A k \in 1..Len(sent) : sent[k].dec = k - 1
  BY DEF Inv, SendInv
<1>2. DOMAIN sent = 1..Len(sent) /\ Len(sent) \in Nat
  BY <1>1 DEF IsSeq
<1>3. i \in 1..Len(sent)
  BY <1>2
<1>4. PICK a \in 1..Len(sent) :
        /\ sent[i].size \in Nat \ {0} /\ i \in a..(a + sent[i].size - 1) /\ a + sent[i].size - 1 <= Len(sent)
        /\ \A j \in 1..Len(sent) : sent[j].id = sent[i].id <=> j \in a..(a + sent[i].size - 1)
        /\ \A j \in a..(a + sent[i].size - 1) : sent[j].size = sent[i].size
  BY <1>1, <1>3 DEF Whole
<1> DEFINE m == sent[i].size
           z == a + m - 1
<1>5. m \in Nat \ {0} /\ z \in Int /\ a \in Int /\ a >= 1 /\ z <= Len(sent) /\ z - a + 1 = m
  <2>1. m \in Nat \ {0} /\ z <= Len(sent)
    BY <1>4
  <2>2. a \in Int /\ a >= 1
    BY <1>2
  <2> HIDE DEF m
  <2> QED BY ONLY <2>1, <2>2
<1>6. same = a..z
  <2>1. \A j \in a..z : j \in 1..Len(sent)
    <3> HIDE DEF z
    <3> QED BY <1>2, <1>5
  <2> QED BY <1>2, <1>4, <2>1
<1>7. Cardinality(same) = m
  <2>1. Cardinality(a..z) = IF a > z THEN 0 ELSE z - a + 1
    <3> HIDE DEF z
    <3> QED BY <1>5, FS_Interval
  <2>2. a <= z
    BY <1>5
  <2>3. (z - a) + 1 = m
    BY <1>5
  <2> HIDE DEF z, m, same
  <2> QED BY <1>5, <1>6, <2>1, <2>2, <2>3
<1>8. \A j \in same : j - i < m /\ sent[j].size = m
  <2> TAKE j \in same
  <2>1. j \in a..z /\ i \in a..z
    BY <1>4, <1>6
  <2>2. sent[j].size = m
    BY <1>4, <2>1
  <2>3. j - i < m
    <3> HIDE DEF z, m, same
    <3> QED BY <1>5, <2>1
  <2> QED BY <2>2, <2>3
<1> QED BY <1>1, <1>3, <1>7, <1>8

\* Pictures leave in decode order, numbered without a gap, and a mini-GOP leaves
\* as one piece of the size its pictures say.
THEOREM ArrivedWhole == Spec => []MiniGopsArriveWhole
BY Invariance, InvWhole, PTL

\* Only assigning references moves that loop.
LEMMA AssigningMoves ==
    ASSUME Inv, Next, Moves("assign")
    PROVE  AssignReferences
<1>1. phase = "assign" /\ at' = at + 1
  BY DEF Moves
<1>2. ~(\E forced \in BOOLEAN : PlacePicture(forced)) /\ ~SplitWindow /\ ~StartMiniGop /\ ~DecidePicture /\ ~LeaveToOverlay
  BY <1>1 DEF PlacePicture, SplitWindow, StartMiniGop, DecidePicture, LeaveToOverlay
<1>3. ~SendMiniGop
  <2> SUFFICES ASSUME SendMiniGop
               PROVE  FALSE
    OBVIOUS
  <2>1. at' = 1
    BY DEF SendMiniGop
  <2>2. at \in Nat \ {0}
    <3>1. at \in 1..(Len(group) + 1)
      BY DEF Inv, GroupInv
    <3> QED BY <3>1
  <2> QED BY <1>1, <2>1, <2>2
<1> QED BY <1>2, <1>3 DEF Next

\* A picture is released exactly when the last slot that held it is given away.
THEOREM Released == Spec => ReleasedWithItsLastSlot
<1> DEFINE Right == Moves("assign") =>
                      group'[at].released = {pdDpb[k].dec : k \in Slot} \ ({pdDpb'[k].dec : k \in Slot} \cup {None})
<1>1. Inv /\ [Next]_vars => [Right]_vars
  <2> SUFFICES ASSUME Inv, Next, Moves("assign")
               PROVE  Right
    OBVIOUS
  <2> QED BY AssigningMoves, ReleasedOK
<1>2. Spec => []Inv /\ [][Next]_vars
  BY Invariance, PTL DEF Spec
<1>3. Spec => [][Right]_vars
  BY <1>1, <1>2, PTL
<1> QED BY <1>3, PTL DEF ReleasedWithItsLastSlot

-----------------------------------------------------------------------------
(* The layers of a constant bit rate.                                      *)

\* The slots that only have pictures of the base layer, and those that have none
\* of the highest; with fewer references the structure moves them.
BaseSlot(k) == IF cfg.reduce = 2 THEN k = 0 ELSE k \in 0..2 \/ (cfg.reduce = 0 /\ k = long_base_idx)
MiddleSlot(k) == cfg.reduce = 2 \/ k \in LAY1_OFF..(LAY1_OFF + 1)

\* The layers of the pictures that the slots of a constant bit rate have.
LayersInv ==
    cfg.structure = "cbr" =>
        /\ cfg.reduce = 2 => lay0 = 0
        /\ \A k \in Slot : /\ BaseSlot(k) => dpb[k].layer = 0
                           /\ MiddleSlot(k) => dpb[k].layer <= 1

\* The counts of references fit the buffers that are kept for them.
LEMMA CountsOK ==
    ASSUME WindowInv, cfg.structure = "cbr"
    PROVE  /\ cfg.hl \in 1..2 /\ cfg.reduce \in 0..2 /\ cfg.base0 \in Nat
           /\ cfg.nonBase0 \in Nat /\ cfg.base1 \in Nat /\ cfg.nonBase1 \in Nat
           /\ cfg.reduce > 0 => cfg.base0 <= 3 - cfg.reduce
<1>1. IsConfiguration(cfg)
  BY ConfigsAssumption DEF WindowInv
<1> QED BY <1>1 DEF IsConfiguration

\* A list is no longer than what it is chosen from.
LEMMA UptoOK ==
    ASSUME NEW pocs, NEW known, NEW from \in Int, NEW to \in Int, from <= to
    PROVE  Upto(pocs, from, to, known) \in 0..(to - from + 1)
<1> DEFINE listed == {i \in from..to : \A k \in from..i : pocs[k] \notin {pocs[j] : j \in known[k]}}
<1>1. IsFiniteSet(from..to) /\ Cardinality(from..to) = to - from + 1
  BY FS_Interval
<1>2. IsFiniteSet(listed) /\ Cardinality(listed) <= Cardinality(from..to)
  <2>1. listed \subseteq from..to
    OBVIOUS
  <2> HIDE DEF listed
  <2> QED BY <1>1, <2>1, FS_Subset
<1>3. Cardinality(listed) \in Nat
  BY <1>2, FS_CardinalityType
<1>4. Upto(pocs, from, to, known) = Cardinality(listed)
  BY Zenon DEF Upto
<1> HIDE DEF listed
<1> QED BY <1>1, <1>2, <1>3, <1>4

\* List 0 has four pictures at most, and for a base picture no more than allowed.
LEMMA List0OK ==
    ASSUME NEW p, NEW pocs, NEW k \in 1..List0Count(p, pocs), cfg.base0 \in Nat, cfg.nonBase0 \in Nat
    PROVE  k \in 1..4 /\ (p.layer = 0 => k <= cfg.base0)
<1> DEFINE count == 1 + Upto(pocs, 2, 4, [i \in 2..4 |-> 1..(i - 1)])
           limit == IF p.layer = 0 THEN cfg.base0 ELSE cfg.nonBase0
<1>1. count \in 1..4
  <2>1. Upto(pocs, 2, 4, [i \in 2..4 |-> 1..(i - 1)]) \in 0..(4 - 2 + 1)
    BY UptoOK
  <2> QED BY <2>1
<1>2. List0Count(p, pocs) = IF count < limit THEN count ELSE limit
  BY Zenon DEF List0Count
<1>3. limit \in Nat /\ (p.layer = 0 => limit = cfg.base0)
  OBVIOUS
<1> HIDE DEF count, limit
<1> QED BY <1>1, <1>2, <1>3

\* List 1 has three pictures at most.
LEMMA List1OK ==
    ASSUME NEW p, NEW pocs, NEW k \in 5..(4 + List1Count(p, pocs)), cfg.base1 \in Nat, cfg.nonBase1 \in Nat
    PROVE  k \in 5..7
<1> DEFINE l0 == List0Count(p, pocs)
           count == Upto(pocs, 5, 7, [i \in 5..7 |-> ((IF i = 5 THEN 2 ELSE 1)..l0) \cup (5..(i - 1))])
           limit == IF p.layer = 0 THEN cfg.base1 ELSE cfg.nonBase1
<1>1. count \in 0..3
  <2> HIDE DEF l0
  <2>1. count \in 0..(7 - 5 + 1)
    BY UptoOK
  <2> QED BY <2>1
<1>2. List1Count(p, pocs) = IF p.overlay \/ (p.inOrder /\ RandomAccess) THEN 0
                            ELSE IF count < limit THEN count ELSE limit
  BY Zenon DEF List1Count
<1>3. limit \in Nat
  OBVIOUS
<1> HIDE DEF count, limit, l0
<1> QED BY <1>1, <1>2, <1>3

\* The slots that a picture finds its references in: a base picture those of its
\* layer, as far as its list goes.
CbrRowFits(row, p) ==
    \A k \in 1..7 :
        /\ row[k] \in Slot /\ (BaseSlot(row[k]) \/ (p.layer > 0 /\ MiddleSlot(row[k])) \/ p.layer = 0)
        /\ p.layer = 0 /\ (k \in 1..4 /\ cfg.reduce > 0 => k <= 3 - cfg.reduce) => BaseSlot(row[k])

\* The row of a picture at a constant bit rate, and what it overwrites: a picture
\* of the base layer keeps to its slots, and one above it spares those.
LEMMA CbrChoices ==
    ASSUME lay0 \in 0..2, lay1 \in 0..1, cfg.reduce \in 0..2, cfg.reduce = 2 => lay0 = 0,
           NEW p, p.hl \in 1..2, p.layer \in 0..p.hl, NEW isRef \in BOOLEAN
    PROVE  LET c == LowDelayCbr(cfg, p, isRef, lay0, lay1)
           IN  /\ CbrRowFits(c.row, p)
               /\ cfg.reduce = 2 => c.lay0 = lay0
               /\ p.layer > 0 => \A k \in c.refresh : ~BaseSlot(k)
               /\ p.layer > 1 => \A k \in c.refresh : ~MiddleSlot(k)
<1> DEFINE base == CircInc(lay0, 0, 2)
           b1 == CircDec(lay0, 0, 2)
           b0 == CircDec(b1, 0, 2)
           l11 == CASE cfg.reduce = 2 -> IF lay0 = 0 THEN 1 ELSE 0
                  [] cfg.reduce = 1 -> LAY1_OFF
                  [] OTHER -> LAY1_OFF + lay1
           l10 == CircDec(l11, LAY1_OFF, LAY1_OFF + 1)
           third == IF cfg.scheme = 0 THEN b1 ELSE l11
           row1 == <<lay0, b1, long_base_idx, b0, lay0, lay0, lay0>>
           row2 == <<lay0, b0, long_base_idx, lay0, lay0, lay0, lay0>>
           row3 == <<lay0, third, b1, lay0, lay0, lay0, lay0>>
           row4 == <<lay0, l11, b1, lay0, lay0, lay0, lay0>>
           row5 == <<l11, lay0, l10, l11, l11, l11, l11>>
           row == CASE p.layer = 0 /\ p.hl = 1 -> row1
                  [] p.layer = 0 /\ p.hl = 2 -> row2
                  [] p.hl = 1 /\ p.layer = 1 -> row3
                  [] p.hl = 2 /\ p.layer > 0 /\ p.idx < 2 -> row4
                  [] OTHER -> row5
           c == LowDelayCbr(cfg, p, isRef, lay0, lay1)
<1>1. base \in 0..2 /\ b1 \in 0..2 /\ b0 \in 0..2
  <2>1. \A x \in 0..2 : CircInc(x, 0, 2) \in 0..2 /\ CircDec(x, 0, 2) \in 0..2
    BY DEF CircInc, CircDec
  <2>2. base \in 0..2 /\ b1 \in 0..2
    BY <2>1
  <2> HIDE DEF b1
  <2> QED BY <2>1, <2>2
<1>2. /\ l11 \in Slot /\ l10 \in Slot /\ MiddleSlot(l11) /\ MiddleSlot(l10)
      /\ cfg.reduce = 2 => l11 = 1
  BY DEF CircDec, LAY1_OFF, Slot, REF_FRAMES, MiddleSlot
<1>3. \A k \in 0..2 : k \in Slot /\ (cfg.reduce # 2 => BaseSlot(k)) /\ (cfg.reduce = 2 => MiddleSlot(k))
  BY DEF BaseSlot, MiddleSlot, Slot, REF_FRAMES
<1>4. BaseSlot(lay0) /\ long_base_idx \in Slot /\ (cfg.reduce = 0 => BaseSlot(long_base_idx))
  BY DEF BaseSlot, long_base_idx, Slot, REF_FRAMES
<1>5. CbrRowFits(row, p)
  <2> HIDE DEF base, b1, b0, l11, l10
  <2>1. CASE p.layer = 0
    <3>1. row \in {row1, row2}
      <4>1. p.hl = 1 \/ p.hl = 2
        OBVIOUS
      <4> HIDE DEF row1, row2, row3, row4, row5
      <4>2. CASE p.hl = 1
        BY <2>1, <4>2
      <4>3. CASE p.hl = 2
        BY <2>1, <4>3
      <4> QED BY ONLY <4>1, <4>2, <4>3
    <3> HIDE DEF row
    <3>2. PICK b \in 0..2, g \in 0..2 : row = <<lay0, b, long_base_idx, g, lay0, lay0, lay0>>
      BY <1>1, <3>1
    <3> HIDE DEF row1, row2, row3, row4, row5
    <3> QED BY <1>3, <1>4, <2>1, <3>2 DEF CbrRowFits
  <2>2. CASE p.layer # 0
    <3> DEFINE Fit(s) == s \in Slot /\ (BaseSlot(s) \/ MiddleSlot(s))
    <3>1. Fit(lay0) /\ Fit(b1) /\ Fit(l11) /\ Fit(l10) /\ Fit(third)
      BY <1>1, <1>2, <1>3, <1>4
    <3>2. row \in {row3, row4, row5}
      <4> HIDE DEF row1, row2, row3, row4, row5
      <4> QED BY <2>2
    <3> HIDE DEF Fit, row, third
    <3>3. PICK x1, x2, x3, x4 : row = <<x1, x2, x3, x4, x1, x1, x1>> /\ Fit(x1) /\ Fit(x2) /\ Fit(x3) /\ Fit(x4)
      BY <3>1, <3>2
    <3> HIDE DEF row1, row2, row3, row4, row5
    <3>4. \A k \in 1..7 : Fit(row[k])
      BY <3>3
    <3> QED BY <2>2, <3>4 DEF CbrRowFits, Fit
  <2> QED BY <2>1, <2>2
<1>6. \/ p.layer = 0 /\ cfg.reduce = 2 /\ c = Choice(row, lay0, lay1, {lay0} \cup (2..7))
      \/ p.layer = 0 /\ cfg.reduce # 2 /\ c = Choice(row, base, lay1, {base} \cup (IF cfg.reduce = 1 THEN 4..7 ELSE {}))
      \/ p.layer = 1 /\ cfg.reduce = 2 /\ c = Choice(row, lay0, lay1, {l11} \cup (2..7))
      \/ p.layer = 1 /\ cfg.reduce = 1 /\ c = Choice(row, lay0, lay1, {LAY1_OFF} \cup (4..7))
      \/ p.layer = 1 /\ cfg.reduce = 0 /\ c = Choice(row, lay0, 1 - lay1, {LAY1_OFF + 1 - lay1})
      \/ p.layer = 2 /\ cfg.reduce = 0 /\ c = Choice(row, lay0, lay1, {5})
      \/ p.layer # 0 /\ c = Choice(row, lay0, lay1, {})
  <2>0. c = CASE p.layer = 0 -> IF cfg.reduce = 2
                                THEN Choice(row, lay0, lay1, {lay0} \cup (2..7))
                                ELSE Choice(row, base, lay1, {base} \cup (IF cfg.reduce = 1 THEN 4..7 ELSE {}))
              [] p.layer = 1 /\ (isRef \/ p.hl = 2) ->
                     CASE cfg.reduce = 2 -> Choice(row, lay0, lay1, {l11} \cup (2..7))
                       [] cfg.reduce = 1 -> Choice(row, lay0, lay1, {LAY1_OFF} \cup (4..7))
                       [] OTHER -> Choice(row, lay0, 1 - lay1, {LAY1_OFF + 1 - lay1})
              [] p.layer = 2 /\ isRef /\ cfg.reduce = 0 -> Choice(row, lay0, lay1, {5})
              [] OTHER -> Choice(row, lay0, lay1, {})
    BY Zenon DEF LowDelayCbr
  <2> HIDE DEF row, l11, l10, base, b1, b0, c
  <2>1. CASE p.layer = 0 /\ cfg.reduce = 2
    BY <2>0, <2>1
  <2>2. CASE p.layer = 0 /\ cfg.reduce # 2
    BY <2>0, <2>2
  <2>3. CASE p.layer = 1 /\ (isRef \/ p.hl = 2)
    BY <2>0, <2>3
  <2>4. CASE p.layer = 2 /\ isRef /\ cfg.reduce = 0
    BY <2>0, <2>4
  <2>5. CASE p.layer # 0 /\ ~(p.layer = 1 /\ (isRef \/ p.hl = 2)) /\ ~(p.layer = 2 /\ isRef /\ cfg.reduce = 0)
    BY <2>0, <2>5
  <2> QED BY <2>1, <2>2, <2>3, <2>4, <2>5
<1> HIDE DEF c, row, l11, l10, base, b1, b0
<1>7. c.row = row
  BY <1>6, ChoiceIs
<1>8. cfg.reduce = 2 => c.lay0 = lay0
  BY <1>6, ChoiceIs
<1>9. p.layer > 0 => /\ \A k \in c.refresh : ~BaseSlot(k)
                     /\ p.layer > 1 => \A k \in c.refresh : ~MiddleSlot(k)
  <2>1. CASE p.layer = 1 /\ cfg.reduce = 2 /\ c = Choice(row, lay0, lay1, {l11} \cup (2..7))
    BY <1>2, <2>1, ChoiceIs DEF BaseSlot
  <2>2. CASE p.layer = 1 /\ cfg.reduce = 1 /\ c = Choice(row, lay0, lay1, {LAY1_OFF} \cup (4..7))
    BY <2>2, ChoiceIs DEF BaseSlot, LAY1_OFF
  <2>3. CASE p.layer = 1 /\ cfg.reduce = 0 /\ c = Choice(row, lay0, 1 - lay1, {LAY1_OFF + 1 - lay1})
    BY <2>3, ChoiceIs DEF BaseSlot, LAY1_OFF, long_base_idx
  <2>4. CASE p.layer = 2 /\ cfg.reduce = 0 /\ c = Choice(row, lay0, lay1, {5})
    BY <2>4, ChoiceIs DEF BaseSlot, MiddleSlot, LAY1_OFF, long_base_idx
  <2>5. CASE c = Choice(row, lay0, lay1, {})
    BY <2>5, ChoiceIs
  <2>6. CASE p.layer = 0
    BY <2>6
  <2> QED BY ONLY <1>6, <2>1, <2>2, <2>3, <2>4, <2>5, <2>6
<1> QED BY <1>5, <1>7, <1>8, <1>9 DEF c

\* A decided picture and its choice, at a constant bit rate.
LEMMA CbrChoiceOK ==
    ASSUME Inv, LayersInv, cfg.structure = "cbr", DecidePicture, ~group[at].idr
    PROVE  LET p == group[at]
               c == ChoiceFor(p)
           IN  /\ CbrRowFits(c.row, p)
               /\ cfg.reduce = 2 => c.lay0 = lay0
               /\ p.layer > 0 => \A k \in c.refresh : ~BaseSlot(k)
               /\ p.layer > 1 => \A k \in c.refresh : ~MiddleSlot(k)
<1> DEFINE p == group[at]
<1>1. WindowInv /\ GroupInv /\ Toggles
  BY Zenon DEF Inv
<1>2. at \in 1..Len(group)
  <2>1. at <= Len(group)
    BY Zenon DEF DecidePicture
  <2> QED BY <1>1, <2>1 DEF GroupInv, GroupOK
<1>3. IsPicture(p)
  BY <1>1, <1>2 DEF GroupInv, GroupOK
<1>4. cfg.hl \in 1..2 /\ cfg.reduce \in 0..2
  BY <1>1, CountsOK
<1>5. p.hl \in 1..2 /\ p.layer \in 0..p.hl
  <2>1. p.hl \in 0..cfg.hl /\ (cfg.hl > 0 => p.hl > 0) /\ p.layer \in 0..p.hl
    BY <1>3 DEF IsPicture
  <2> HIDE DEF p
  <2> QED BY <1>4, <2>1
<1>6. lay0 \in 0..2 /\ lay1 \in 0..1
  BY <1>1 DEF Toggles, RandomAccess
<1>7. IsRef(p) \in BOOLEAN
  BY DEF IsRef, IsUsedAsRef
<1>8. ChoiceFor(p) = LowDelayCbr(cfg, p, IsRef(p), lay0, lay1)
  <2> HIDE DEF p
  <2>1. ~p.idr
    BY DEF p
  <2> QED BY <2>1 DEF ChoiceFor, RandomAccess
<1>9. cfg.reduce = 2 => lay0 = 0
  BY DEF LayersInv
<1> HIDE DEF p
<1> QED BY <1>4, <1>5, <1>6, <1>7, <1>8, <1>9, CbrChoices, Zenon DEF p

\* What a decision does with the buffer.
LEMMA Decision ==
    ASSUME DecidePicture
    PROVE  /\ cfg' = cfg /\ lay0' = ChoiceFor(group[at]).lay0 /\ phase = "decide" /\ at <= Len(group)
           /\ \E slots : /\ slots = ChoiceFor(group[at]).refresh
                                    \cup (IF KeepsLongBase(group[at]) THEN {long_base_idx} ELSE {})
                         /\ dpb' = Refreshed(dpb, slots, group[at])
  BY Zenon DEF DecidePicture

\* A decision keeps the layers apart.
LEMMA DecideKeepsLayers ==
    ASSUME Inv, LayersInv, DecidePicture
    PROVE  LayersInv'
<1> SUFFICES ASSUME cfg'.structure = "cbr"
             PROVE  /\ cfg'.reduce = 2 => lay0' = 0
                    /\ \A k \in Slot : /\ BaseSlot(k)' => dpb'[k].layer = 0
                                       /\ MiddleSlot(k)' => dpb'[k].layer <= 1
  BY Zenon DEF LayersInv
<1> DEFINE p == group[at]
           c == ChoiceFor(p)
<1>1. PICK slots : /\ cfg' = cfg /\ lay0' = c.lay0 /\ at <= Len(group)
                   /\ slots = c.refresh \cup (IF KeepsLongBase(p) THEN {long_base_idx} ELSE {})
                   /\ dpb' = Refreshed(dpb, slots, p)
  BY Zenon, Decision
<1>2. WindowInv /\ GroupInv
  BY Zenon DEF Inv
<1>3. IsPicture(p)
  BY <1>1, <1>2 DEF GroupInv, GroupOK
<1>4. p.layer \in Nat /\ p.layer <= 2
  <2>1. p.hl \in 0..cfg.hl /\ p.layer \in 0..p.hl
    BY <1>3 DEF IsPicture
  <2>2. cfg.hl \in 1..2
    BY <1>1, <1>2, CountsOK
  <2> HIDE DEF p
  <2> QED BY <2>1, <2>2
<1>5. \A k \in Slot : dpb'[k].layer = IF k \in slots THEN p.layer ELSE dpb[k].layer
  <2> HIDE DEF p
  <2> QED BY <1>1 DEF Refreshed
<1>6. /\ cfg.structure = "cbr"
      /\ \A k \in Slot : (BaseSlot(k)' <=> BaseSlot(k)) /\ (MiddleSlot(k)' <=> MiddleSlot(k))
      /\ cfg.reduce = 2 => lay0 = 0
      /\ \A k \in Slot : (BaseSlot(k) => dpb[k].layer = 0) /\ (MiddleSlot(k) => dpb[k].layer <= 1)
  BY <1>1 DEF BaseSlot, MiddleSlot, LayersInv
<1>7. CASE p.idr
  <2>1. p.layer = 0
    <3>1. p.position = 0 /\ (~p.overlay => p.layer = Layer(p.hl, p.position)) /\ (p.overlay => ~IsKey(p))
      BY <1>3, <1>7 DEF IsPicture
    <3>2. ~p.overlay
      BY <1>7, <3>1 DEF IsKey
    <3> HIDE DEF p
    <3> QED BY <3>1, <3>2 DEF Layer
  <2>2. c.lay0 = 0 /\ c.refresh = Slot
    <3> HIDE DEF p
    <3> QED BY <1>7, ChoiceIs DEF ChoiceFor
  <2> HIDE DEF p, c
  <2>3. \A k \in Slot : k \in slots
    BY <1>1, <2>2
  <2>4. \A k \in Slot : dpb'[k].layer = 0
    BY <1>5, <2>1, <2>3
  <2>5. lay0' = 0
    BY <1>1, <2>2
  <2>6. ASSUME NEW k \in Slot
        PROVE  dpb'[k].layer = 0 /\ dpb'[k].layer <= 1
    <3>1. dpb'[k].layer = 0
      BY <2>4
    <3> QED BY ONLY <3>1
  <2> QED BY ONLY <2>5, <2>6
<1>8. CASE ~p.idr
  <2>1. /\ cfg.reduce = 2 => c.lay0 = lay0
        /\ p.layer > 0 => \A k \in c.refresh : ~BaseSlot(k)
        /\ p.layer > 1 => \A k \in c.refresh : ~MiddleSlot(k)
    BY <1>6, <1>8, CbrChoiceOK, Zenon
  <2>2. KeepsLongBase(p) => p.layer = 0
    BY Zenon DEF KeepsLongBase
  <2> HIDE DEF p, c
  <2>3. \A k \in slots : (p.layer > 0 => ~BaseSlot(k)) /\ (p.layer > 1 => ~MiddleSlot(k))
    BY <1>1, <1>4, <2>1, <2>2
  <2>4. \A k \in Slot : (BaseSlot(k) => dpb'[k].layer = 0) /\ (MiddleSlot(k) => dpb'[k].layer <= 1)
    BY <1>4, <1>5, <1>6, <2>3
  <2> QED BY <1>1, <1>6, <2>1, <2>4
<1> QED BY <1>7, <1>8

\* What the other steps leave alone.
LEMMA LayersKept ==
    ASSUME LayersInv, UNCHANGED <<cfg, lay0, dpb>>
    PROVE  LayersInv'
BY DEF LayersInv, BaseSlot, MiddleSlot

\* The invariant of the picture decision, and the layers of a constant bit rate.
LEMMA LayersStep == Inv /\ LayersInv /\ [Next]_vars => LayersInv'
<1> SUFFICES ASSUME Inv, LayersInv, [Next]_vars
             PROVE  LayersInv'
  OBVIOUS
<1>1. CASE DecidePicture
  BY <1>1, DecideKeepsLayers
<1>2. CASE UNCHANGED vars
  <2>1. UNCHANGED <<cfg, lay0, dpb>>
    BY <1>2, Zenon DEF vars, toggles
  <2> QED BY <2>1, LayersKept
<1>3. CASE \E forced \in BOOLEAN : PlacePicture(forced)
  <2>1. UNCHANGED <<cfg, lay0, dpb>>
    BY <1>3, Zenon DEF PlacePicture, toggles
  <2> QED BY <2>1, LayersKept
<1>4. CASE SplitWindow
  <2>1. UNCHANGED <<cfg, lay0, dpb>>
    BY <1>4, Zenon DEF SplitWindow, toggles
  <2> QED BY <2>1, LayersKept
<1>5. CASE StartMiniGop
  <2>1. UNCHANGED <<cfg, lay0, dpb>>
    BY <1>5, Zenon DEF StartMiniGop, toggles
  <2> QED BY <2>1, LayersKept
<1>6. CASE LeaveToOverlay
  <2>1. UNCHANGED <<cfg, lay0, dpb>>
    BY <1>6, Zenon DEF LeaveToOverlay, toggles
  <2> QED BY <2>1, LayersKept
<1>7. CASE AssignReferences
  <2>1. UNCHANGED <<cfg, lay0, dpb>>
    BY <1>7, Zenon DEF AssignReferences, toggles
  <2> QED BY <2>1, LayersKept
<1>8. CASE SendMiniGop
  <2>1. UNCHANGED <<cfg, lay0, dpb>>
    BY <1>8, Zenon DEF SendMiniGop, toggles
  <2> QED BY <2>1, LayersKept
<1> QED BY <1>1, <1>2, <1>3, <1>4, <1>5, <1>6, <1>7, <1>8, Zenon DEF Next

\* At first no slot has a picture.
LEMMA LayersInit == Init => LayersInv
<1> SUFFICES ASSUME Init
             PROVE  LayersInv
  OBVIOUS
<1>1. lay0 = 0 /\ dpb = [i \in Slot |-> Nobody]
  BY Zenon DEF Init
<1> QED BY <1>1 DEF LayersInv, Nobody

\* The references of a picture at a constant bit rate.
LEMMA CbrReferences ==
    ASSUME Inv, LayersInv, cfg.structure = "cbr", DecidePicture,
           NEW n \in group'[at].refs, NEW k \in Slot, dpb[k].num = n
    PROVE  dpb[k].layer <= group'[at].layer
<1> DEFINE p == group[at]
           c == ChoiceFor(p)
           pocs == [i \in 1..7 |-> dpb[c.row[i]].num]
           used0 == {pocs[i] : i \in 1..List0Count(p, pocs)}
           used1 == {pocs[i] : i \in 5..(4 + List1Count(p, pocs))}
           refs == IF IsKey(p) THEN {} ELSE used0 \cup used1
<1>1. WindowInv /\ GroupInv /\ Toggles /\ BuffersInv /\ phase = "decide" /\ at <= Len(group)
  BY Zenon DEF Inv, DecidePicture
<1>2. at \in 1..Len(group) /\ IsPicture(p) /\ group = [j \in 1..Len(group) |-> group[j]] /\ DOMAIN p = Fields
  BY <1>1 DEF GroupInv, GroupOK, IsPicture
<1>3. group'[at].refs = refs /\ group'[at].layer = p.layer
  <2> DEFINE slots == c.refresh \cup (IF KeepsLongBase(p) THEN {long_base_idx} ELSE {})
             a == IsShown(p)
             b == IF IsKey(p) THEN None ELSE pocs[1]
             d == IF IsKey(p) \/ used1 = {} THEN None ELSE pocs[5]
             e == IF ShowsExisting(p)
                  THEN Refreshed(dpb, slots, p)[SlotsSeenBy(p)[ShowExisting(p.hl, p.idx)]].num ELSE None
  <2>1. group' = [group EXCEPT ![at] = [p EXCEPT !.refresh = slots, !.show = a, !.refs = refs, !.last = b,
                                                 !.bwd = d, !.existing = e]]
    BY Zenon DEF DecidePicture
  <2> HIDE DEF refs, slots, a, b, d, e
  <2>2. PICK refresh, show, last, bwd, existing :
          group' = [group EXCEPT ![at] = [p EXCEPT !.refresh = refresh, !.show = show, !.refs = refs, !.last = last,
                                                   !.bwd = bwd, !.existing = existing]]
    <3> HIDE DEF p
    <3> QED BY <2>1
  <2>3. at \in DOMAIN group
    BY <1>2
  <2>4. group'[at] = [p EXCEPT !.refresh = refresh, !.show = show, !.refs = refs, !.last = last,
                               !.bwd = bwd, !.existing = existing]
    BY <2>2, <2>3
  <2> HIDE DEF p
  <2> QED BY <1>2, <2>4 DEF Fields
<1>4. ~IsKey(p) /\ n \in used0 \cup used1
  <2> HIDE DEF p, c, pocs, used0, used1
  <2> QED BY <1>3
<1>5. CbrRowFits(c.row, p)
  <2>1. ~p.idr
    BY <1>4, Zenon DEF IsKey
  <2> QED BY <2>1, CbrChoiceOK, Zenon
<1>6. /\ cfg.reduce \in 0..2 /\ cfg.base0 \in Nat /\ cfg.base1 \in Nat /\ cfg.nonBase0 \in Nat /\ cfg.nonBase1 \in Nat
      /\ cfg.reduce > 0 => cfg.base0 <= 3 - cfg.reduce
  BY <1>1, CountsOK
<1>7. PICK j \in 1..7 : n = dpb[c.row[j]].num /\ (p.layer = 0 => (j \in 1..4 => j <= cfg.base0))
  <2> HIDE DEF c, p
  <2>1. CASE n \in used0
    <3>1. PICK i \in 1..List0Count(p, pocs) : n = pocs[i]
      BY <2>1
    <3> HIDE DEF pocs
    <3>2. i \in 1..4 /\ (p.layer = 0 => i <= cfg.base0)
      BY <1>6, List0OK
    <3>3. i \in 1..7
      BY <3>2
    <3>4. pocs[i] = dpb[c.row[i]].num
      BY <3>3 DEF pocs
    <3> QED BY <3>1, <3>2, <3>3, <3>4
  <2>2. CASE n \in used1
    <3>1. PICK i \in 5..(4 + List1Count(p, pocs)) : n = pocs[i]
      BY <2>2
    <3> HIDE DEF pocs
    <3>2. i \in 5..7
      BY <1>6, List1OK
    <3>3. i \in 1..7 /\ i \notin 1..4
      BY <3>2
    <3>4. pocs[i] = dpb[c.row[i]].num
      BY <3>3 DEF pocs
    <3> QED BY <3>1, <3>3, <3>4
  <2> HIDE DEF used0, used1, pocs
  <2> QED BY <1>4, <2>1, <2>2
<1> HIDE DEF c, p, pocs, used0, used1, refs
<1>8. c.row[j] \in Slot /\ dpb[k] = dpb[c.row[j]]
  <2>1. c.row[j] \in Slot
    BY <1>5 DEF CbrRowFits
  <2> QED BY <1>1, <1>7, <2>1 DEF BuffersInv, BufferOK
<1>9. p.layer \in Nat
  <2>1. p.hl \in 0..cfg.hl /\ p.layer \in 0..p.hl
    BY <1>2 DEF IsPicture
  <2> QED BY <2>1
<1>10. CASE p.layer = 0
  <2>1. j \in 1..4 /\ cfg.reduce > 0 => j <= 3 - cfg.reduce
    BY <1>6, <1>7, <1>10
  <2>2. BaseSlot(c.row[j])
    BY <1>5, <1>10, <2>1 DEF CbrRowFits
  <2> QED BY <1>3, <1>8, <1>10, <2>2 DEF LayersInv
<1>11. CASE p.layer > 0
  <2>1. BaseSlot(c.row[j]) \/ MiddleSlot(c.row[j])
    BY <1>5, <1>9, <1>11 DEF CbrRowFits
  <2>2. dpb[c.row[j]].layer = 0 \/ dpb[c.row[j]].layer <= 1
    BY <1>8, <2>1 DEF LayersInv
  <2>3. dpb[c.row[j]].layer \in Nat
    BY <1>1, <1>8 DEF BuffersInv, BufferOK, Entry
  <2> QED BY <1>3, <1>8, <1>9, <1>11, <2>2, <2>3
<1> QED BY <1>9, <1>10, <1>11

\* Only a decision moves its loop.
LEMMA DecidingMoves ==
    ASSUME Inv, Next, Moves("decide")
    PROVE  DecidePicture
<1>1. phase = "decide" /\ at' = at + 1
  BY DEF Moves
<1>2. ~(\E forced \in BOOLEAN : PlacePicture(forced)) /\ ~SplitWindow /\ ~StartMiniGop /\ ~AssignReferences /\ ~SendMiniGop
  BY <1>1 DEF PlacePicture, SplitWindow, StartMiniGop, AssignReferences, SendMiniGop
<1>3. ~LeaveToOverlay
  <2> SUFFICES ASSUME LeaveToOverlay
               PROVE  FALSE
    OBVIOUS
  <2>1. at' = 1
    BY DEF LeaveToOverlay
  <2>2. at \in Nat \ {0}
    <3>1. at \in 1..(Len(group) + 1)
      BY DEF Inv, GroupInv
    <3> QED BY <3>1
  <2> QED BY <1>1, <2>1, <2>2
<1> QED BY <1>2, <1>3 DEF Next

\* At a constant bit rate no picture predicts from one of a higher layer: the
\* upper layers can be dropped, with whatever number of references.
THEOREM Droppable == Spec => CbrLayersAreDroppable
<1> DEFINE Right == Moves("decide") /\ cfg.structure = "cbr" =>
                      \A n \in group'[at].refs : \A k \in Slot : dpb[k].num = n => dpb[k].layer <= group'[at].layer
<1>1. Init => Inv /\ LayersInv
  BY InitInv, LayersInit
<1>2. (Inv /\ LayersInv) /\ [Next]_vars => (Inv /\ LayersInv)'
  BY NextKeeps, LayersStep
<1>3. (Inv /\ LayersInv) /\ [Next]_vars => [Right]_vars
  <2> SUFFICES ASSUME Inv, LayersInv, Next, Moves("decide"), cfg.structure = "cbr",
                      NEW n \in group'[at].refs, NEW k \in Slot, dpb[k].num = n
               PROVE  dpb[k].layer <= group'[at].layer
    OBVIOUS
  <2>1. DecidePicture
    BY DecidingMoves
  <2> QED BY <2>1, CbrReferences
<1>4. Spec => [](Inv /\ LayersInv) /\ [][Next]_vars
  BY <1>1, <1>2, PTL DEF Spec
<1>5. Spec => [][Right]_vars
  BY <1>3, <1>4, PTL
<1> QED BY <1>5, PTL DEF CbrLayersAreDroppable
=============================================================================
