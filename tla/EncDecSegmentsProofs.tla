------------------------ MODULE EncDecSegmentsProofs ------------------------
(***************************************************************************)
(* Proofs about the EncDec stage, for any number of pictures and workers   *)
(* and pictures of any size: a segment row has one owner, whoever resets a *)
(* picture is alone in it, and the workers together implement the          *)
(* wavefront: SBs are coded once, after the neighbours that they read.     *)
(*                                                                         *)
(* The pictures share the workers and the tasks but no segments.  So the   *)
(* invariant is stated for one picture and what it sees: the workers that  *)
(* have one of its tasks and are not about to give it back, and its tasks  *)
(* in the queue.                                                           *)
(***************************************************************************)
EXTENDS EncDecSegments, SegmentGeometryProofs

-----------------------------------------------------------------------------
(* What a picture sees.                                                     *)

\* The local variables of a worker, and what a picture sees of workers and tasks.
WorkerType == [pc : Steps, task : Tasks \cup {NoTask}, from : Nat, seg : Nat,
               self : BOOLEAN, again : BOOLEAN, coded : Nat]
Serves(x, p)   == x.pc \notin {"idle", "release"} /\ x.task.pic = p
ViewOf(W, p)   == [w \in Workers |-> IF Serves(W[w], p) THEN W[w] ELSE Idle]
AskedOf(q, p)  == {q[i] : i \in {j \in DOMAIN q : q[j].pic = p}}
BusyOf(W)      == {w \in Workers : W[w].pc # "idle"}

-----------------------------------------------------------------------------
(* The segments of a grid.                                                  *)

Rows(g)  == 0 .. g.rows - 1
RowFirst(g, r) == StartingSeg(g, r)
RowLast(g, r)  == EndingSeg(g, r)

\* The segments that have SBs.
Scan(g) == {s \in SegmentIds(g) :
              /\ RowOfSeg(g, s) \in Rows(g)
              /\ s \in RowFirst(g, RowOfSeg(g, s)) .. RowLast(g, RowOfSeg(g, s))}

\* Workers come to a row when the row above releases a segment of it.
Reached(g, r) == r = 0 \/ RowFirst(g, r) - g.bands \in Scan(g)

-----------------------------------------------------------------------------
(* The life of a segment, for a picture with current segments c and the     *)
(* workers V: it is taken, coded, and releases its neighbours.              *)

\* The worker took the segment and has not coded it.
Holds(V, w, s) == /\ V[w].pc = "code" \/ (V[w].pc \in {"below", "feedback"} /\ V[w].again)
                  /\ V[w].seg = s
\* It coded it and has not released the one on the right, or the one below.
Leaves(V, w, s) == V[w].pc = "right" /\ V[w].from = s
Drops(V, w, s)  == V[w].pc = "below" /\ V[w].from = s
Has(V, w, s)    == Holds(V, w, s) \/ Leaves(V, w, s) \/ Drops(V, w, s)

IsTaken(g, c, s)      == s < c[RowOfSeg(g, s)]
IsCoded(g, c, V, s)   == IsTaken(g, c, s) /\ \A w \in Workers : ~Holds(V, w, s)
RightDone(g, c, V, s) == IsTaken(g, c, s) /\ \A w \in Workers : ~Holds(V, w, s) /\ ~Leaves(V, w, s)
BelowDone(g, c, V, s) == IsTaken(g, c, s) /\ \A w \in Workers : ~Has(V, w, s)

WaitsLeft(g, c, V, s)  == s > RowFirst(g, RowOfSeg(g, s)) /\ ~RightDone(g, c, V, s - 1)
WaitsAbove(g, c, V, s) == s - g.bands \in Scan(g) /\ ~BelowDone(g, c, V, s - g.bands)

\* The worker is about to begin a row, or to ask for that.
Begins(g, V, w, r) == \/ V[w].pc \in {"row", "bump"} /\ V[w].task.row = r
                      \/ V[w].pc = "feedback" /\ RowOfSeg(g, V[w].from) + 1 = r
IsAsked(A, r) == \E t \in A : t.row = r

-----------------------------------------------------------------------------
(* The invariant of a picture whose segments are set up.                    *)

\* Segments are taken in order, when nothing is left that they wait for.
Dependent(g, d, c, V) ==
    /\ c \in [Rows(g) -> Nat]
    /\ \A r \in Rows(g) : c[r] \in RowFirst(g, r) .. RowLast(g, r) + 1
    /\ \A r \in Rows(g) : c[r] > RowFirst(g, r) => Reached(g, r)
    /\ d \in [SegmentIds(g) -> 0 .. 2]
    /\ \A s \in Scan(g) : d[s] = Flag(WaitsLeft(g, c, V, s)) + Flag(WaitsAbove(g, c, V, s))
    /\ \A s \in Scan(g) : IsTaken(g, c, s) => d[s] = 0

\* Where a worker is.
Placed(g, c, V) ==
    \A w \in Workers :
        /\ \A s : Has(V, w, s) => s \in Scan(g) /\ IsTaken(g, c, s)
        /\ \A s : Holds(V, w, s) \/ Leaves(V, w, s) => s = c[RowOfSeg(g, s)] - 1
        /\ V[w].pc = "bump" => V[w].seg = c[V[w].task.row]
        /\ V[w].pc \in {"row", "bump", "right"} => ~V[w].again
        /\ V[w].pc = "right" => ~V[w].self
        /\ V[w].pc = "below" => (V[w].self <=> V[w].again)
        /\ V[w].pc = "feedback" => V[w].again /\ V[w].from \in Scan(g)
        /\ V[w].pc \in {"below", "feedback"} /\ V[w].again =>
              V[w].seg = V[w].from + 1 /\ RowOfSeg(g, V[w].seg) = RowOfSeg(g, V[w].from)

\* A row that is to be begun has a segment that is ready.
Ready(g, d, c, V, A) ==
    \A r \in Nat : IsAsked(A, r) \/ (\E w \in Workers : Begins(g, V, w, r)) =>
        r \in Rows(g) /\ Reached(g, r) /\ c[r] <= RowLast(g, r) /\ d[c[r]] = 0

\* No segment and no row has two workers.
Apart(g, V, A) ==
    /\ \A v, w \in Workers, s \in Scan(g) : Has(V, v, s) /\ Has(V, w, s) => v = w
    /\ \A v, w \in Workers, r \in Nat : Begins(g, V, v, r) /\ Begins(g, V, w, r) => v = w
    /\ \A w \in Workers, r \in Nat : ~(Begins(g, V, w, r) /\ IsAsked(A, r))

\* What is coded is counted, or a worker will count it.
Counting  == {"start", "row", "bump", "code", "right", "below", "feedback", "tally"}
Due(V, w)    == IF V[w].pc \in Counting THEN V[w].coded ELSE 0
Uncounted(V) == UNION {{w} \X (1 .. Due(V, w)) : w \in Workers}
CodedSbs(g, tm) == {sb \in Sbs(g) : tm[sb] = 1}
Counted(g, c, n, tm, V) ==
    /\ n \in Nat /\ tm \in [Sbs(g) -> Nat]
    /\ \A sb \in Sbs(g) : tm[sb] = Flag(IsCoded(g, c, V, SegmentOf(g, sb)))
    /\ IsFiniteSet(Uncounted(V))
    /\ n + Cardinality(Uncounted(V)) = Cardinality(CodedSbs(g, tm))
    /\ \A w \in Workers : V[w].pc \in {"right", "below", "feedback", "tally"} => V[w].coded >= 1

\* The state of a pass while segments are handed over.
Wave(g, d, c, n, tm, V, A) ==
    /\ Dependent(g, d, c, V) /\ Placed(g, c, V) /\ Ready(g, d, c, V, A)
    /\ Apart(g, V, A) /\ Counted(g, c, n, tm, V)

-----------------------------------------------------------------------------
(* The invariant.                                                           *)

\* Nobody works on the picture; one worker does, alone; one task is queued.
Quiet(V, A)          == A = {} /\ \A v \in Workers : V[v].pc = "idle"
Alone(w, steps, V, A) == A = {} /\ V[w].pc \in steps /\ \A v \in Workers \ {w} : V[v].pc = "idle"
Queued(type, V, A)   == /\ \E t \in A : t.type = type /\ A = {t}
                        /\ \A v \in Workers : V[v].pc = "idle"
Running(V, A)        == /\ \A t \in A : t.type = "ENCDEC"
                        /\ \A v \in Workers : V[v].pc \in (Counting \cup {"idle"}) \ {"start"}

\* Segments before a pass; after one that was given up; after a whole one.
Fresh(g, d, c, n, tm) == d = InitialDep[g] /\ c = First[g] /\ n = 0 /\ tm = NoneCoded(g)
Stale(g, d, tm) == tm = NoneCoded(g) /\ \A s \in DOMAIN d : d[s] \in 0 .. 2
Whole(g, d, tm) == tm = [sb \in Sbs(g) |-> 1] /\ \A s \in DOMAIN d : d[s] \in 0 .. 2

\* Where the picture is in its passes.
PictureOK(st, rt, g, d, c, n, tm, V, A) ==
    \/ st = "mdc" /\ rt = FALSE /\ Quiet(V, A) /\ Fresh(g, d, c, n, tm)
    \/ st = "mdc" /\ rt = TRUE /\ Quiet(V, A) /\ Stale(g, d, tm)
    \/ st = "encdec" /\ Queued("SUPERRES", V, A) /\ Stale(g, d, tm)
    \/ st = "encdec" /\ (\E w \in Workers : Alone(w, {"renew"}, V, A)) /\ Stale(g, d, tm)
    \/ st = "encdec" /\ Queued("MDC", V, A) /\ Fresh(g, d, c, n, tm)
    \/ /\ st = "encdec" /\ \E w \in Workers : Alone(w, {"start", "repost"}, V, A) /\ Due(V, w) = 0
       /\ Fresh(g, d, c, n, tm)
    \/ st = "encdec" /\ Running(V, A) /\ Wave(g, d, c, n, tm, V, A)
    \/ st = "encdec" /\ (\E w \in Workers : Alone(w, {"last"}, V, A)) /\ Whole(g, d, tm)
    \/ st = "results" /\ Quiet(V, A) /\ Whole(g, d, tm)

\* What the tables, the workers and the tasks of a picture look like together.
Seen(p) == PictureOK(stage[p], retry[p], grid[p], dep[p], cur[p], count[p], times[p],
                     ViewOf(worker, p), AskedOf(queue, p))
PicturesInv == \A p \in Pictures : Seen(p)

\* The types, with those of the tasks that workers hold.
TypesInv ==
    /\ full \in Grids /\ grid \in [Pictures -> Grids]
    /\ DOMAIN dep = Pictures /\ DOMAIN cur = Pictures /\ DOMAIN times = Pictures
    /\ \A p \in Pictures : \A r \in DOMAIN cur[p] : cur[p][r] \in Nat
    /\ count \in [Pictures -> Nat]
    /\ stage \in [Pictures -> {"mdc", "encdec", "results"}]
    /\ retry \in [Pictures -> BOOLEAN] /\ rounds \in [Pictures -> 0 .. MaxRounds]
    /\ free \in Nat /\ queue \in Seq(Tasks)
    /\ worker \in [Workers -> WorkerType]
    /\ \A w \in Workers : worker[w].pc # "idle" => worker[w].task \in Tasks
    /\ \A w \in Workers : worker[w].pc \in {"row", "bump"} => worker[w].task.type = "ENCDEC"

\* Every task is free, queued or with a worker; none is queued twice.
PoolInv ==
    /\ IsFiniteSet(BusyOf(worker))
    /\ free + Len(queue) + Cardinality(BusyOf(worker)) = TaskCount
    /\ \A i, j \in DOMAIN queue : queue[i] = queue[j] => i = j

\* The inductive invariant.
IInv == TypesInv /\ PoolInv /\ PicturesInv

-----------------------------------------------------------------------------
(* Rows and segments.                                                       *)

\* The numbers of a row.
LEMMA RowNumbers ==
    ASSUME NEW g, IsGrid(g), NEW r \in Rows(g)
    PROVE  /\ r \in Nat /\ RowFirst(g, r) \in Nat /\ RowLast(g, r) \in Nat /\ RowFirst(g, r) <= RowLast(g, r)
           /\ RowFirst(g, r) \in Scan(g) /\ RowLast(g, r) \in Scan(g)
           /\ RowOfSeg(g, RowFirst(g, r)) = r /\ RowOfSeg(g, RowLast(g, r)) = r
<1>1. r \in 0 .. g.rows - 1 /\ r \in Nat
  BY GridNumbers DEF Rows
<1>2. RowFirst(g, r) \in Nat /\ RowLast(g, r) \in Nat /\ RowFirst(g, r) <= RowLast(g, r)
  BY <1>1, RowInNumbers DEF RowFirst, RowLast
<1>3. RowFirst(g, r) \in StartingSeg(g, r) .. EndingSeg(g, r) /\ RowLast(g, r) \in StartingSeg(g, r) .. EndingSeg(g, r)
  BY <1>2 DEF RowFirst, RowLast
<1>4. /\ RowFirst(g, r) \in SegmentIds(g) /\ RowOfSeg(g, RowFirst(g, r)) = r
      /\ RowLast(g, r) \in SegmentIds(g) /\ RowOfSeg(g, RowLast(g, r)) = r
  BY <1>1, <1>3, SegmentInRow
<1> QED BY <1>1, <1>2, <1>4 DEF Scan

\* What is between the ends of a row is in it.
LEMMA InRow ==
    ASSUME NEW g, IsGrid(g), NEW r \in Rows(g), NEW s \in RowFirst(g, r) .. RowLast(g, r)
    PROVE  s \in Scan(g) /\ RowOfSeg(g, s) = r
  BY SegmentInRow DEF Rows, RowFirst, RowLast, Scan

\* The numbers of a segment.
LEMMA ScanNumbers ==
    ASSUME NEW g, IsGrid(g), NEW s \in Scan(g)
    PROVE  /\ s \in Nat /\ s \in SegmentIds(g) /\ RowOfSeg(g, s) \in Rows(g) /\ RowOfSeg(g, s) \in Nat
           /\ RowFirst(g, RowOfSeg(g, s)) \in Nat /\ RowLast(g, RowOfSeg(g, s)) \in Nat
           /\ RowFirst(g, RowOfSeg(g, s)) <= s /\ s <= RowLast(g, RowOfSeg(g, s))
           /\ g.bands \in Nat \ {0}
<1>1. RowOfSeg(g, s) \in Rows(g) /\ s \in RowFirst(g, RowOfSeg(g, s)) .. RowLast(g, RowOfSeg(g, s)) /\ s \in SegmentIds(g)
  BY DEF Scan
<1>2. RowOfSeg(g, s) \in Nat /\ RowFirst(g, RowOfSeg(g, s)) \in Nat /\ RowLast(g, RowOfSeg(g, s)) \in Nat
  BY <1>1, RowNumbers
<1> QED BY <1>1, <1>2, GridNumbers

\* The segment on the left.
LEMMA ScanLeft ==
    ASSUME NEW g, IsGrid(g), NEW s \in Scan(g), s > RowFirst(g, RowOfSeg(g, s))
    PROVE  s - 1 \in Scan(g) /\ RowOfSeg(g, s - 1) = RowOfSeg(g, s)
<1>1. s - 1 \in RowFirst(g, RowOfSeg(g, s)) .. RowLast(g, RowOfSeg(g, s)) /\ RowOfSeg(g, s) \in Rows(g)
  BY ScanNumbers
<1> QED BY <1>1, InRow

\* The segment on the right.
LEMMA ScanRight ==
    ASSUME NEW g, IsGrid(g), NEW s \in Scan(g), s < RowLast(g, RowOfSeg(g, s))
    PROVE  /\ s + 1 \in Scan(g) /\ RowOfSeg(g, s + 1) = RowOfSeg(g, s)
           /\ s + 1 > RowFirst(g, RowOfSeg(g, s + 1)) /\ s + 1 - 1 = s
<1>1. /\ s + 1 \in RowFirst(g, RowOfSeg(g, s)) .. RowLast(g, RowOfSeg(g, s)) /\ RowOfSeg(g, s) \in Rows(g)
      /\ s + 1 > RowFirst(g, RowOfSeg(g, s)) /\ s + 1 - 1 = s
  BY ScanNumbers
<1>2. s + 1 \in Scan(g) /\ RowOfSeg(g, s + 1) = RowOfSeg(g, s)
  BY <1>1, InRow
<1> QED BY <1>1, <1>2

\* A number one band further is in the next row.
LEMMA RowBelow ==
    ASSUME NEW g, IsGrid(g), NEW s \in Nat
    PROVE  RowOfSeg(g, s) \in Nat /\ RowOfSeg(g, s + g.bands) = RowOfSeg(g, s) + 1
<1> DEFINE n == g.bands
           q == s \div n
           k == (s + n) \div n
<1>1. n \in Nat \ {0}
  BY GridNumbers
<1> HIDE DEF n
<1>2. q \in Nat /\ n * q <= s /\ s < n * (q + 1) /\ s + n \in Nat
  BY <1>1, Quotient
<1>3. k \in Nat /\ \A j \in Nat : j <= k <=> n * j <= s + n
  BY <1>1, <1>2, Quotient, QuotientReaches
<1>4. RowOfSeg(g, s) = q /\ RowOfSeg(g, s + g.bands) = k
  BY DEF RowOfSeg, n
<1> HIDE DEF q, k
<1>5. /\ n * (q + 1) = n * q + n /\ n * (q + 2) = n * q + n + n /\ q + 1 \in Nat /\ q + 2 \in Nat
      /\ n * q \in Nat
  BY <1>1, <1>2
<1> DEFINE m == n * q
<1>6. m \in Nat /\ m <= s /\ s < m + n /\ (q + 1 <= k <=> m + n <= s + n) /\ (q + 2 <= k <=> m + n + n <= s + n)
  BY <1>2, <1>3, <1>5
<1> HIDE DEF m
<1>7. k = q + 1
  BY <1>1, <1>2, <1>3, <1>6
<1> QED BY <1>2, <1>4, <1>7

\* The segment above.
LEMMA ScanAbove ==
    ASSUME NEW g, IsGrid(g), NEW s \in Scan(g), s - g.bands \in Scan(g)
    PROVE  RowOfSeg(g, s) = RowOfSeg(g, s - g.bands) + 1 /\ s - g.bands + g.bands = s
<1> DEFINE p == s - g.bands
<1>1. p \in Nat /\ p + g.bands = s
  BY ScanNumbers
<1> HIDE DEF p
<1>2. RowOfSeg(g, p + g.bands) = RowOfSeg(g, p) + 1
  BY <1>1, RowBelow
<1> QED BY <1>1, <1>2 DEF p

\* The segment below.
LEMMA ScanBelow ==
    ASSUME NEW g, IsGrid(g), NEW s \in Scan(g),
           RowOfSeg(g, s) < g.rows - 1, s + g.bands >= RowFirst(g, RowOfSeg(g, s) + 1)
    PROVE  /\ s + g.bands \in Scan(g) /\ RowOfSeg(g, s + g.bands) = RowOfSeg(g, s) + 1
           /\ s + g.bands - g.bands = s
<1> DEFINE r == RowOfSeg(g, s)
<1>1. /\ s \in Nat /\ r \in 0 .. g.rows - 1 /\ s <= RowLast(g, r) /\ RowLast(g, r) \in Nat
      /\ g.bands \in Nat /\ g.rows \in Nat
  BY ScanNumbers, GridNumbers DEF Rows
<1>2. r + 1 \in Rows(g) /\ r + 1 <= g.rows - 1
  BY <1>1 DEF Rows
<1>3. EndingSeg(g, r) + g.bands <= EndingSeg(g, r + 1)
  <2> HIDE DEF r
  <2> QED BY <1>1, <1>2, NextRow
<1>4. RowFirst(g, r + 1) \in Nat /\ RowLast(g, r + 1) \in Nat
  <2> HIDE DEF r
  <2> QED BY <1>2, RowNumbers
<1>5. s + g.bands \in RowFirst(g, r + 1) .. RowLast(g, r + 1) /\ s + g.bands - g.bands = s
  BY <1>1, <1>3, <1>4 DEF RowLast
<1> HIDE DEF r
<1>6. s + g.bands \in Scan(g) /\ RowOfSeg(g, s + g.bands) = r + 1
  BY <1>2, <1>5, InRow
<1> QED BY <1>5, <1>6 DEF r

\* dependency_map, as it is set up.
LEMMA FreshDependencies ==
    ASSUME NEW g \in Grids
    PROVE  /\ IsGrid(g)
           /\ First[g] \in [Rows(g) -> Nat] /\ \A r \in Rows(g) : First[g][r] = RowFirst(g, r)
           /\ \A r \in Rows(g) : Last[g][r] = RowLast(g, r)
           /\ \A s \in Scan(g) : Valid[g][s] = ValidSbCount(g, s) /\ Valid[g][s] \in Nat \ {0}
           /\ InitialDep[g] \in [SegmentIds(g) -> 0 .. 2]
           /\ \A s \in Scan(g) :
                 InitialDep[g][s] = Flag(s > RowFirst(g, RowOfSeg(g, s))) + Flag(s - g.bands \in Scan(g))
<1>1. IsGrid(g)
  BY GridsAssumption DEF IsGrid
<1>2. First[g] = [r \in 0 .. g.rows - 1 |-> StartingSeg(g, r)] /\ \A r \in Rows(g) : First[g][r] = RowFirst(g, r)
  BY DEF First, Rows, RowFirst
<1>3. First[g] \in [Rows(g) -> Nat]
  BY <1>1, <1>2, RowNumbers DEF Rows, RowFirst
<1>4. \A r \in Rows(g) : Last[g][r] = RowLast(g, r)
  BY DEF Last, Rows, RowLast
<1>5. ASSUME NEW s \in Scan(g)
      PROVE  Valid[g][s] = ValidSbCount(g, s) /\ Valid[g][s] \in Nat \ {0}
  <2>1. Valid[g][s] = ValidSbCount(g, s)
    BY DEF Valid, Scan
  <2>2. ValidSbCount(g, s) \in Nat \ {0}
    BY <1>1, RowHasNoGap DEF Scan, Rows, RowFirst, RowLast
  <2> QED BY <2>1, <2>2
<1>6. ASSUME NEW s \in SegmentIds(g)
      PROVE  InitialDep[g][s] = InitialDependency(g, s) /\ InitialDependency(g, s) \in 0 .. 2
  <2>1. InitialDep[g][s] = InitialDependency(g, s)
    BY DEF InitialDep
  <2> DEFINE a == s - 1
             b == s - g.bands
  <2>2. Predecessors(g, s) \subseteq {a} \cup {b}
    BY DEF Predecessors
  <2> HIDE DEF a, b
  <2>3. IsFiniteSet({a}) /\ Cardinality({a}) = 1
    BY FS_Singleton
  <2>4. IsFiniteSet({a} \cup {b}) /\ Cardinality({a} \cup {b}) \in {1, 2}
    BY <2>3, FS_AddElement
  <2>5. IsFiniteSet(Predecessors(g, s)) /\ Cardinality(Predecessors(g, s)) <= Cardinality({a} \cup {b})
    BY <2>2, <2>4, FS_Subset
  <2>6. Cardinality(Predecessors(g, s)) \in Nat
    BY <2>5, FS_CardinalityType
  <2>7. Cardinality(Predecessors(g, s)) \in 0 .. 2
    BY <2>4, <2>5, <2>6
  <2> QED BY <2>1, <2>7 DEF InitialDependency
<1>7. InitialDep[g] \in [SegmentIds(g) -> 0 .. 2]
  <2>1. InitialDep[g] = [s \in SegmentIds(g) |-> InitialDependency(g, s)]
    BY DEF InitialDep
  <2> QED BY <1>6, <2>1
<1>8. ASSUME NEW s \in Scan(g)
      PROVE  InitialDep[g][s] = Flag(s > RowFirst(g, RowOfSeg(g, s))) + Flag(s - g.bands \in Scan(g))
  <2> DEFINE r == RowOfSeg(g, s)
  <2>1. r \in 0 .. g.rows - 1 /\ s \in StartingSeg(g, r) .. EndingSeg(g, r) /\ s \in SegmentIds(g) /\ r \in Nat
    BY <1>1, ScanNumbers DEF Scan, Rows, RowFirst, RowLast
  <2>2. HasLeft(g, r, s) <=> s > RowFirst(g, r)
    BY DEF HasLeft, RowFirst
  <2>3. HasAbove(g, r, s) <=> s - g.bands \in Scan(g)
    <3>1. ASSUME HasAbove(g, r, s)
          PROVE  s - g.bands \in Scan(g)
      <4> DEFINE u == r - 1
      <4>1. u \in Rows(g) /\ s - g.bands \in RowFirst(g, u) .. RowLast(g, u)
        BY <1>1, <2>1, <3>1, GridNumbers DEF HasAbove, Rows, RowFirst, RowLast
      <4> HIDE DEF u
      <4> QED BY <1>1, <4>1, InRow
    <3>2. ASSUME s - g.bands \in Scan(g)
          PROVE  HasAbove(g, r, s)
      <4> DEFINE p == s - g.bands
      <4>1. r = RowOfSeg(g, p) + 1 /\ RowOfSeg(g, p) \in Nat
        BY <1>1, <3>2, ScanAbove, ScanNumbers
      <4>2. p \in StartingSeg(g, RowOfSeg(g, p)) .. EndingSeg(g, RowOfSeg(g, p)) /\ RowOfSeg(g, p) = r - 1
        BY <3>2, <4>1 DEF Scan, RowFirst, RowLast
      <4> QED BY <2>1, <4>1, <4>2 DEF HasAbove
    <3> QED BY <3>1, <3>2
  <2> HIDE DEF r
  <2>4. InitialDependency(g, s) = (IF HasLeft(g, r, s) THEN 1 ELSE 0) + (IF HasAbove(g, r, s) THEN 1 ELSE 0)
    BY <1>1, <2>1, Dependencies
  <2>5. InitialDep[g][s] = InitialDependency(g, s)
    BY <1>6, <2>1
  <2> QED BY <2>2, <2>3, <2>4, <2>5 DEF Flag, r
<1> QED BY <1>1, <1>2, <1>3, <1>4, <1>5, <1>7, <1>8

-----------------------------------------------------------------------------
(* What is counted.                                                         *)

\* A pair for each SB that a worker has coded and not counted.
LEMMA UncountedPairs ==
    ASSUME NEW V
    PROVE  \A x : x \in Uncounted(V) <=> \E w \in Workers : \E i \in 1 .. Due(V, w) : x = <<w, i>>
  BY DEF Uncounted

\* Workers that have coded as much have as much to count.
LEMMA UncountedSame ==
    ASSUME NEW V, NEW V2, \A v \in Workers : Due(V2, v) = Due(V, v)
    PROVE  Uncounted(V2) = Uncounted(V)
<1>1. \A x : x \in Uncounted(V2) <=> x \in Uncounted(V)
  BY UncountedPairs
<1> QED BY <1>1

\* A worker that has coded k more has k more to count.
LEMMA UncountedMore ==
    ASSUME NEW V, NEW V2, NEW w \in Workers, NEW k \in Nat,
           Due(V, w) \in Nat, Due(V2, w) = Due(V, w) + k,
           \A v \in Workers \ {w} : Due(V2, v) = Due(V, v)
    PROVE  /\ Uncounted(V) \subseteq Uncounted(V2)
           /\ IsFiniteSet(Uncounted(V)) <=> IsFiniteSet(Uncounted(V2))
           /\ IsFiniteSet(Uncounted(V)) => Cardinality(Uncounted(V2)) = Cardinality(Uncounted(V)) + k
<1> DEFINE a == Due(V, w)
           S == Uncounted(V)
           l == a + 1
           h == a + k
           I == l .. h
           D == {w} \X I
<1>1. a \in Nat /\ l \in Int /\ h \in Int
  OBVIOUS
<1>2. IsFiniteSet(I) /\ Cardinality(I) = IF l > h THEN 0 ELSE h - l + 1
  <2> HIDE DEF l, h
  <2> QED BY <1>1, FS_Interval, Zenon
<1>3. Cardinality(I) = k
  <2> HIDE DEF a
  <2> QED BY <1>1, <1>2
<1>4. IsFiniteSet(D) /\ Cardinality(D) = k
  <2> HIDE DEF I
  <2>1. IsFiniteSet({w}) /\ Cardinality({w}) = 1
    BY FS_Singleton
  <2>2. IsFiniteSet({w} \X I) /\ Cardinality({w} \X I) = Cardinality({w}) * Cardinality(I)
    BY <1>2, <2>1, FS_Product
  <2>3. 1 * k = k
    OBVIOUS
  <2> QED BY <1>3, <2>1, <2>2, <2>3
<1>5. \A x : x \in D <=> \E i \in (a + 1) .. (a + k) : x = <<w, i>>
  BY DEF D, I
<1>6. \A x : x \in Uncounted(V2) <=> x \in S \/ x \in D
  <2>1. \A x : x \in S <=> (\E v \in Workers \ {w} : \E i \in 1 .. Due(V, v) : x = <<v, i>>) \/ (\E i \in 1 .. a : x = <<w, i>>)
    BY UncountedPairs
  <2>2. \A x : x \in Uncounted(V2)
                  <=> (\E v \in Workers \ {w} : \E i \in 1 .. Due(V, v) : x = <<v, i>>) \/ (\E i \in 1 .. (a + k) : x = <<w, i>>)
    BY UncountedPairs
  <2>3. \A i : i \in 1 .. (a + k) <=> i \in 1 .. a \/ i \in (a + 1) .. (a + k)
    BY <1>1
  <2> HIDE DEF a, D, S
  <2> QED BY <1>5, <2>1, <2>2, <2>3
<1>7. Uncounted(V2) = S \cup D
  <2> HIDE DEF S, D
  <2> QED BY <1>6
<1>8. S \cap D = {}
  <2> SUFFICES ASSUME NEW x, x \in S, x \in D
               PROVE  FALSE
    OBVIOUS
  <2>1. PICK i \in (a + 1) .. (a + k) : x = <<w, i>>
    BY <1>5
  <2>2. PICK v \in Workers : \E j \in 1 .. Due(V, v) : x = <<v, j>>
    BY UncountedPairs
  <2>3. v = w /\ i \in 1 .. a
    BY <2>1, <2>2
  <2> QED BY <1>1, <2>1, <2>3
<1> HIDE DEF S, D
<1>9. IsFiniteSet(S) <=> IsFiniteSet(S \cup D)
  <2>1. IsFiniteSet(S) => IsFiniteSet(S \cup D)
    BY <1>4, FS_Union
  <2>2. IsFiniteSet(S \cup D) => IsFiniteSet(S)
    <3>1. S \subseteq S \cup D
      OBVIOUS
    <3> QED BY <3>1, FS_Subset
  <2> QED BY <2>1, <2>2
<1>10. IsFiniteSet(S) => Cardinality(S \cup D) = Cardinality(S) + k
  <2> SUFFICES ASSUME IsFiniteSet(S)
               PROVE  Cardinality(S \cup D) = Cardinality(S) + k
    OBVIOUS
  <2>1. Cardinality(S \cup D) = Cardinality(S) + Cardinality(D) - Cardinality(S \cap D)
    BY <1>4, FS_Union
  <2>2. Cardinality(S \cap D) = 0
    BY <1>8, FS_EmptySet
  <2>3. Cardinality(S) \in Nat
    BY FS_CardinalityType
  <2> QED BY <1>4, <2>1, <2>2, <2>3
<1>11. Uncounted(V) = S
  BY DEF S
<1> QED BY <1>7, <1>9, <1>10, <1>11

\* The SBs that are coded are finitely many.
LEMMA CodedFinite ==
    ASSUME NEW g, IsGrid(g), NEW tm
    PROVE  /\ IsFiniteSet(CodedSbs(g, tm)) /\ Cardinality(CodedSbs(g, tm)) \in Nat
           /\ Cardinality(CodedSbs(g, tm)) <= g.w * g.h
           /\ Cardinality(CodedSbs(g, tm)) = g.w * g.h => CodedSbs(g, tm) = Sbs(g)
<1>1. IsFiniteSet(Sbs(g)) /\ Cardinality(Sbs(g)) = g.w * g.h
  BY SbsFinite
<1>2. CodedSbs(g, tm) \subseteq Sbs(g)
  BY DEF CodedSbs
<1>3. /\ IsFiniteSet(CodedSbs(g, tm)) /\ Cardinality(CodedSbs(g, tm)) <= Cardinality(Sbs(g))
      /\ Cardinality(Sbs(g)) = Cardinality(CodedSbs(g, tm)) => Sbs(g) = CodedSbs(g, tm)
  BY <1>1, <1>2, FS_Subset
<1>4. Cardinality(CodedSbs(g, tm)) \in Nat
  BY <1>3, FS_CardinalityType
<1> QED BY <1>1, <1>3, <1>4

-----------------------------------------------------------------------------
(* What depends on what.                                                    *)

\* A worker that has not changed is where it was.
LEMMA SameWorker ==
    ASSUME NEW g, NEW V, NEW V2, NEW v, V2[v] = V[v]
    PROVE  /\ \A s : Holds(V2, v, s) <=> Holds(V, v, s)
           /\ \A s : Leaves(V2, v, s) <=> Leaves(V, v, s)
           /\ \A s : Drops(V2, v, s) <=> Drops(V, v, s)
           /\ \A s : Has(V2, v, s) <=> Has(V, v, s)
           /\ \A r : Begins(g, V2, v, r) <=> Begins(g, V, v, r)
           /\ Due(V2, v) = Due(V, v)
  BY DEF Holds, Leaves, Drops, Has, Begins, Due

\* Segments whose neighbours are released as before wait as before.
LEMMA WaitsFrame ==
    ASSUME NEW g, IsGrid(g), NEW c, NEW V, NEW c2, NEW V2,
           \A s \in Scan(g) : RightDone(g, c2, V2, s) <=> RightDone(g, c, V, s),
           \A s \in Scan(g) : BelowDone(g, c2, V2, s) <=> BelowDone(g, c, V, s)
    PROVE  \A s \in Scan(g) : /\ Flag(WaitsLeft(g, c2, V2, s)) = Flag(WaitsLeft(g, c, V, s))
                              /\ Flag(WaitsAbove(g, c2, V2, s)) = Flag(WaitsAbove(g, c, V, s))
<1> SUFFICES ASSUME NEW s \in Scan(g)
             PROVE  /\ WaitsLeft(g, c2, V2, s) <=> WaitsLeft(g, c, V, s)
                    /\ WaitsAbove(g, c2, V2, s) <=> WaitsAbove(g, c, V, s)
  BY DEF Flag
<1>1. WaitsLeft(g, c2, V2, s) <=> WaitsLeft(g, c, V, s)
  <2>1. s > RowFirst(g, RowOfSeg(g, s)) => s - 1 \in Scan(g)
    BY ScanLeft
  <2> QED BY <2>1 DEF WaitsLeft
<1>2. WaitsAbove(g, c2, V2, s) <=> WaitsAbove(g, c, V, s)
  BY DEF WaitsAbove
<1> QED BY <1>1, <1>2

\* The segment of an SB has SBs.
LEMMA SbInScan ==
    ASSUME NEW g, IsGrid(g), NEW sb \in Sbs(g)
    PROVE  /\ SegmentOf(g, sb) \in Scan(g)
           /\ RowOfSeg(g, SegmentOf(g, sb)) = RowIndex(g, sb[2])
<1>1. RowIndex(g, sb[2]) \in Rows(g)
      /\ SegmentOf(g, sb) \in RowFirst(g, RowIndex(g, sb[2])) .. RowLast(g, RowIndex(g, sb[2]))
  BY SbInRow DEF Rows, RowFirst, RowLast
<1> QED BY <1>1, InRow

\* What is coded as before is counted as before.
LEMMA CountedFrame ==
    ASSUME NEW g, IsGrid(g), NEW c, NEW V, NEW c2, NEW V2, NEW n, NEW tm,
           Counted(g, c, n, tm, V),
           \A s \in Scan(g) : IsCoded(g, c2, V2, s) <=> IsCoded(g, c, V, s),
           \A v \in Workers : Due(V2, v) = Due(V, v),
           \A v \in Workers : V2[v].pc \in {"right", "below", "feedback", "tally"} => V2[v].coded >= 1
    PROVE  Counted(g, c2, n, tm, V2)
<1>1. Uncounted(V2) = Uncounted(V)
  BY UncountedSame
<1>2. \A sb \in Sbs(g) : Flag(IsCoded(g, c2, V2, SegmentOf(g, sb))) = Flag(IsCoded(g, c, V, SegmentOf(g, sb)))
  BY SbInScan DEF Flag
<1> QED BY <1>1, <1>2 DEF Counted

\* When the segments stay with their workers, they wait and are coded as before.
LEMMA SameCarriers ==
    ASSUME NEW g, IsGrid(g), NEW d, NEW c, NEW V, NEW V2, Dependent(g, d, c, V),
           \A v \in Workers, s \in Scan(g) : Holds(V2, v, s) <=> Holds(V, v, s),
           \A v \in Workers, s \in Scan(g) : Leaves(V2, v, s) <=> Leaves(V, v, s),
           \A v \in Workers, s \in Scan(g) : Drops(V2, v, s) <=> Drops(V, v, s)
    PROVE  /\ Dependent(g, d, c, V2)
           /\ \A s \in Scan(g) : IsCoded(g, c, V2, s) <=> IsCoded(g, c, V, s)
<1>1. \A s \in Scan(g) : RightDone(g, c, V2, s) <=> RightDone(g, c, V, s)
  BY DEF RightDone
<1>2. \A s \in Scan(g) : BelowDone(g, c, V2, s) <=> BelowDone(g, c, V, s)
  BY DEF BelowDone, Has
<1>3. \A s \in Scan(g) : IsCoded(g, c, V2, s) <=> IsCoded(g, c, V, s)
  BY DEF IsCoded
<1>4. \A s \in Scan(g) : /\ Flag(WaitsLeft(g, c, V2, s)) = Flag(WaitsLeft(g, c, V, s))
                          /\ Flag(WaitsAbove(g, c, V2, s)) = Flag(WaitsAbove(g, c, V, s))
  BY <1>1, <1>2, WaitsFrame
<1> QED BY <1>3, <1>4 DEF Dependent

\* What a worker holds or is about to leave is the last segment that was taken in
\* its row; nobody is asked to begin that row.
LEMMA CarriersAreLast ==
    ASSUME NEW g, IsGrid(g), NEW d, NEW c, NEW V, NEW A,
           Dependent(g, d, c, V), Placed(g, c, V), Ready(g, d, c, V, A),
           NEW w \in Workers, NEW s, Holds(V, w, s) \/ Leaves(V, w, s)
    PROVE  /\ s \in Scan(g) /\ c[RowOfSeg(g, s)] = s + 1
           /\ ~IsAsked(A, RowOfSeg(g, s)) /\ \A v \in Workers : ~Begins(g, V, v, RowOfSeg(g, s))
           /\ s < RowLast(g, RowOfSeg(g, s)) => d[s + 1] >= 1
<1> DEFINE r == RowOfSeg(g, s)
<1>1. s \in Scan(g) /\ s = c[r] - 1
  BY DEF Placed, Has
<1>2. /\ s \in Nat /\ r \in Rows(g) /\ r \in Nat /\ RowLast(g, r) \in Nat /\ c[r] \in Nat
      /\ s <= RowLast(g, r)
  BY <1>1, ScanNumbers DEF Dependent
<1>3. c[r] = s + 1
  BY <1>1, <1>2
<1>4. ASSUME s < RowLast(g, r)
      PROVE  d[s + 1] >= 1
  <2>1. s + 1 \in Scan(g) /\ s + 1 > RowFirst(g, RowOfSeg(g, s + 1)) /\ s + 1 - 1 = s
    BY <1>1, <1>4, ScanRight
  <2>2. ~RightDone(g, c, V, s)
    BY DEF RightDone
  <2>3. WaitsLeft(g, c, V, s + 1)
    <3>1. PICK u : u = s + 1
      OBVIOUS
    <3>2. u - 1 = s
      BY <1>2, <3>1
    <3>3. RowOfSeg(g, u) = RowOfSeg(g, s + 1)
      BY <3>1
    <3>4. u > RowFirst(g, RowOfSeg(g, u)) /\ u - 1 = s
      BY <2>1, <3>1, <3>2, <3>3
    <3>5. WaitsLeft(g, c, V, u)
      BY <2>2, <3>4 DEF WaitsLeft
    <3> QED BY <3>1, <3>5
  <2> DEFINE f == Flag(WaitsAbove(g, c, V, s + 1))
  <2>4. d[s + 1] = Flag(WaitsLeft(g, c, V, s + 1)) + f /\ f \in {0, 1} /\ Flag(WaitsLeft(g, c, V, s + 1)) = 1
    BY <2>1, <2>3 DEF Dependent, Flag
  <2> HIDE DEF f
  <2> QED BY <2>4
<1>5. ASSUME IsAsked(A, r) \/ \E v \in Workers : Begins(g, V, v, r)
      PROVE  FALSE
  <2>1. c[r] <= RowLast(g, r) /\ d[c[r]] = 0
    BY <1>2, <1>5 DEF Ready
  <2> HIDE DEF r
  <2>2. s < RowLast(g, r)
    BY <1>2, <1>3, <2>1
  <2> QED BY <1>3, <1>4, <2>1, <2>2 DEF r
<1> QED BY <1>1, <1>3, <1>4, <1>5

-----------------------------------------------------------------------------
(* The steps of a picture.                                                  *)

\* A worker takes the next segment of a row, which waits for nothing.
LEMMA TakeSegment ==
    ASSUME NEW g, IsGrid(g), NEW d, NEW c, NEW n, NEW tm, NEW V, NEW A,
           Wave(g, d, c, n, tm, V, A), NEW w \in Workers,
           NEW r \in Rows(g), Reached(g, r), c[r] <= RowLast(g, r), d[c[r]] = 0,
           ~IsAsked(A, r), \A v \in Workers \ {w} : ~Begins(g, V, v, r),
           \A s : ~Holds(V, w, s) /\ ~Leaves(V, w, s),
           NEW V2, \A v \in Workers \ {w} : V2[v] = V[v],
           \A s : Holds(V2, w, s) <=> s = c[r],
           \A s : ~Leaves(V2, w, s), \A s : Drops(V2, w, s) <=> Drops(V, w, s),
           \A q : ~Begins(g, V2, w, q), Due(V2, w) = Due(V, w),
           V2[w].pc \in {"code", "below"},
           V2[w].pc = "below" => /\ V2[w].self /\ V2[w].again /\ V2[w].coded >= 1
                                 /\ V2[w].seg = V2[w].from + 1
                                 /\ RowOfSeg(g, V2[w].seg) = RowOfSeg(g, V2[w].from),
           NEW c2, c2 = [c EXCEPT ![r] = @ + 1]
    PROVE  Wave(g, d, c2, n, tm, V2, A)
<1>1. Dependent(g, d, c, V) /\ Placed(g, c, V) /\ Ready(g, d, c, V, A) /\ Apart(g, V, A) /\ Counted(g, c, n, tm, V)
  BY DEF Wave
<1>2. PICK t : t = c[r]
  OBVIOUS
<1>3. /\ t \in Nat /\ RowFirst(g, r) <= t /\ t <= RowLast(g, r) /\ d[t] = 0
      /\ r \in Nat /\ RowFirst(g, r) \in Nat /\ RowLast(g, r) \in Nat
  BY <1>1, <1>2, RowNumbers DEF Dependent
<1>4. t \in Scan(g) /\ RowOfSeg(g, t) = r
  BY <1>3, InRow
<1>5. /\ c2 \in [Rows(g) -> Nat] /\ c2[r] = t + 1
      /\ \A q \in Rows(g) \ {r} : c2[q] = c[q]
  BY <1>1, <1>2, <1>3 DEF Dependent
<1>6. \A s \in Scan(g) : s \in Nat /\ RowOfSeg(g, s) \in Rows(g) /\ c[RowOfSeg(g, s)] \in Nat
  BY <1>1, ScanNumbers DEF Dependent
<1>7. \A v \in Workers : \A s : RowOfSeg(g, s) = r => ~Holds(V, v, s) /\ ~Leaves(V, v, s)
  <2> SUFFICES ASSUME NEW v \in Workers, NEW s, RowOfSeg(g, s) = r, Holds(V, v, s) \/ Leaves(V, v, s)
               PROVE  FALSE
    OBVIOUS
  <2>1. s \in Scan(g) /\ c[r] = s + 1 /\ (s < RowLast(g, r) => d[s + 1] >= 1)
    BY <1>1, CarriersAreLast
  <2>2. s + 1 = t /\ s < RowLast(g, r)
    BY <1>2, <1>3, <1>6, <2>1
  <2> QED BY <1>3, <2>1, <2>2
<1>8. \A s \in Scan(g) : IsTaken(g, c2, s) <=> IsTaken(g, c, s) \/ s = t
  <2> TAKE s \in Scan(g)
  <2>1. CASE RowOfSeg(g, s) = r
    <3>1. c[r] = t /\ c2[r] = t + 1 /\ s \in Nat
      BY <1>2, <1>5, <1>6
    <3>2. s < t + 1 <=> s < t \/ s = t
      BY <1>3, <1>6
    <3> QED BY <2>1, <3>1, <3>2 DEF IsTaken
  <2>2. CASE RowOfSeg(g, s) # r
    <3>1. c2[RowOfSeg(g, s)] = c[RowOfSeg(g, s)]
      BY <1>5, <1>6, <2>2
    <3> QED BY <1>4, <2>2, <3>1 DEF IsTaken
  <2> QED BY <2>1, <2>2
<1>9. ~IsTaken(g, c, t) /\ \A v \in Workers : ~Has(V, v, t)
  <2>1. ~IsTaken(g, c, t)
    BY <1>2, <1>3, <1>4 DEF IsTaken
  <2> QED BY <1>1, <2>1 DEF Placed
<1>10. \A v \in Workers \ {w} : /\ \A s : (Holds(V2, v, s) <=> Holds(V, v, s))
                                /\ \A s : (Leaves(V2, v, s) <=> Leaves(V, v, s))
                                /\ \A s : (Drops(V2, v, s) <=> Drops(V, v, s))
                                /\ \A s : (Has(V2, v, s) <=> Has(V, v, s))
                                /\ \A q : (Begins(g, V2, v, q) <=> Begins(g, V, v, q))
                                /\ Due(V2, v) = Due(V, v)
  BY SameWorker
<1>11. \A v \in Workers : \A s : /\ s # t => (Holds(V2, v, s) <=> Holds(V, v, s))
                                 /\ Leaves(V2, v, s) <=> Leaves(V, v, s)
                                 /\ Drops(V2, v, s) <=> Drops(V, v, s)
                                 /\ s # t => (Has(V2, v, s) <=> Has(V, v, s))
  BY <1>2, <1>10 DEF Has
<1>12. Holds(V2, w, t) /\ Has(V2, w, t)
  BY <1>2 DEF Has
<1>13. \A s \in Scan(g) : /\ RightDone(g, c2, V2, s) <=> RightDone(g, c, V, s)
                          /\ BelowDone(g, c2, V2, s) <=> BelowDone(g, c, V, s)
                          /\ IsCoded(g, c2, V2, s) <=> IsCoded(g, c, V, s)
  <2> TAKE s \in Scan(g)
  <2>1. CASE s = t
    BY <1>9, <1>12, <2>1 DEF RightDone, BelowDone, IsCoded
  <2>2. CASE s # t
    <3>1. IsTaken(g, c2, s) <=> IsTaken(g, c, s)
      BY <1>8, <2>2
    <3> QED BY <1>11, <2>2, <3>1 DEF RightDone, BelowDone, IsCoded
  <2> QED BY <2>1, <2>2
<1>14. Dependent(g, d, c2, V2)
  <2>1. \A q \in Rows(g) : c2[q] \in RowFirst(g, q) .. RowLast(g, q) + 1
    BY <1>1, <1>3, <1>5 DEF Dependent
  <2>2. \A q \in Rows(g) : c2[q] > RowFirst(g, q) => Reached(g, q)
    BY <1>1, <1>5 DEF Dependent
  <2>3. \A s \in Scan(g) : d[s] = Flag(WaitsLeft(g, c2, V2, s)) + Flag(WaitsAbove(g, c2, V2, s))
    <3>1. \A s \in Scan(g) : /\ Flag(WaitsLeft(g, c2, V2, s)) = Flag(WaitsLeft(g, c, V, s))
                             /\ Flag(WaitsAbove(g, c2, V2, s)) = Flag(WaitsAbove(g, c, V, s))
      <4>1. PICK k : k = c2
        OBVIOUS
      <4>2. \A s \in Scan(g) : RightDone(g, k, V2, s) <=> RightDone(g, c, V, s)
        BY <1>13, <4>1
      <4>3. \A s \in Scan(g) : BelowDone(g, k, V2, s) <=> BelowDone(g, c, V, s)
        BY <1>13, <4>1
      <4>4. \A s \in Scan(g) : /\ Flag(WaitsLeft(g, k, V2, s)) = Flag(WaitsLeft(g, c, V, s))
                               /\ Flag(WaitsAbove(g, k, V2, s)) = Flag(WaitsAbove(g, c, V, s))
        BY <4>2, <4>3, WaitsFrame
      <4> QED BY <4>1, <4>4
    <3> QED BY <1>1, <3>1 DEF Dependent
  <2>4. \A s \in Scan(g) : IsTaken(g, c2, s) => d[s] = 0
    BY <1>1, <1>3, <1>8 DEF Dependent
  <2>5. d \in [SegmentIds(g) -> 0 .. 2]
    BY <1>1 DEF Dependent
  <2> QED BY <1>5, <2>1, <2>2, <2>3, <2>4, <2>5 DEF Dependent
<1>15. Placed(g, c2, V2)
  <2> SUFFICES ASSUME NEW v \in Workers
               PROVE  /\ \A s : Has(V2, v, s) => s \in Scan(g) /\ IsTaken(g, c2, s)
                      /\ \A s : Holds(V2, v, s) \/ Leaves(V2, v, s) => s = c2[RowOfSeg(g, s)] - 1
                      /\ V2[v].pc = "bump" => V2[v].seg = c2[V2[v].task.row]
                      /\ V2[v].pc \in {"row", "bump", "right"} => ~V2[v].again
                      /\ V2[v].pc = "right" => ~V2[v].self
                      /\ V2[v].pc = "below" => (V2[v].self <=> V2[v].again)
                      /\ V2[v].pc = "feedback" => V2[v].again /\ V2[v].from \in Scan(g)
                      /\ V2[v].pc \in {"below", "feedback"} /\ V2[v].again =>
                            V2[v].seg = V2[v].from + 1 /\ RowOfSeg(g, V2[v].seg) = RowOfSeg(g, V2[v].from)
    BY DEF Placed
  <2>1. \A s : Has(V2, v, s) => s \in Scan(g) /\ IsTaken(g, c2, s)
    <3>1. \A s : Has(V2, v, s) => s = t \/ Has(V, v, s)
      BY <1>11
    <3>2. \A s : Has(V, v, s) => s \in Scan(g) /\ IsTaken(g, c, s)
      BY <1>1 DEF Placed
    <3> QED BY <1>4, <1>8, <3>1, <3>2
  <2>2. \A s : Holds(V2, v, s) \/ Leaves(V2, v, s) => s = c2[RowOfSeg(g, s)] - 1
    <3> SUFFICES ASSUME NEW s, Holds(V2, v, s) \/ Leaves(V2, v, s)
                 PROVE  s = c2[RowOfSeg(g, s)] - 1
      OBVIOUS
    <3>1. CASE s = t
      <4>1. c2[RowOfSeg(g, s)] = t + 1
        BY <1>4, <1>5, <3>1
      <4> QED BY <1>3, <3>1, <4>1
    <3>2. CASE s # t
      <4>1. Holds(V, v, s) \/ Leaves(V, v, s)
        BY <1>11, <3>2
      <4>2. s = c[RowOfSeg(g, s)] - 1 /\ s \in Scan(g)
        BY <1>1, <4>1 DEF Placed, Has
      <4>3. c2[RowOfSeg(g, s)] = c[RowOfSeg(g, s)]
        BY <1>5, <1>6, <1>7, <4>1, <4>2
      <4> QED BY <4>2, <4>3
    <3> QED BY <3>1, <3>2
  <2>3. CASE v = w
    BY <2>1, <2>2, <2>3
  <2>4. CASE v # w
    <3>1. V2[v] = V[v]
      BY <2>4
    <3>2. V[v].pc = "bump" => c2[V[v].task.row] = c[V[v].task.row]
      <4> SUFFICES ASSUME V[v].pc = "bump"
                   PROVE  c2[V[v].task.row] = c[V[v].task.row]
        OBVIOUS
      <4>1. Begins(g, V, v, V[v].task.row)
        BY DEF Begins
      <4>2. V[v].task.row # r
        BY <2>4, <4>1
      <4> QED BY <1>1, <4>2 DEF Dependent
    <3> QED BY <1>1, <2>1, <2>2, <3>1, <3>2 DEF Placed
  <2> QED BY <2>3, <2>4
<1>16. Ready(g, d, c2, V2, A)
  <2> SUFFICES ASSUME NEW q \in Nat, IsAsked(A, q) \/ \E v \in Workers : Begins(g, V2, v, q)
               PROVE  q \in Rows(g) /\ Reached(g, q) /\ c2[q] <= RowLast(g, q) /\ d[c2[q]] = 0
    BY DEF Ready
  <2>1. q # r /\ (IsAsked(A, q) \/ \E v \in Workers : Begins(g, V, v, q))
    BY <1>10
  <2>2. q \in Rows(g) /\ Reached(g, q) /\ c[q] <= RowLast(g, q) /\ d[c[q]] = 0
    BY <1>1, <2>1 DEF Ready
  <2> QED BY <1>5, <2>1, <2>2
<1>17. Apart(g, V2, A)
  <2>1. \A v, u \in Workers, s \in Scan(g) : Has(V2, v, s) /\ Has(V2, u, s) => v = u
    <3> SUFFICES ASSUME NEW v \in Workers, NEW u \in Workers, NEW s \in Scan(g), Has(V2, v, s), Has(V2, u, s)
                 PROVE  v = u
      OBVIOUS
    <3>1. CASE s = t
      BY <1>9, <1>10, <3>1
    <3>2. CASE s # t
      BY <1>1, <1>11, <3>2 DEF Apart
    <3> QED BY <3>1, <3>2
  <2>2. \A v, u \in Workers, q \in Nat : Begins(g, V2, v, q) /\ Begins(g, V2, u, q) => v = u
    BY <1>1, <1>10 DEF Apart
  <2>3. \A v \in Workers, q \in Nat : ~(Begins(g, V2, v, q) /\ IsAsked(A, q))
    BY <1>1, <1>10 DEF Apart
  <2> QED BY <2>1, <2>2, <2>3 DEF Apart
<1>18. Counted(g, c2, n, tm, V2)
  <2>1. \A v \in Workers : Due(V2, v) = Due(V, v)
    BY <1>10
  <2>2. \A v \in Workers : V2[v].pc \in {"right", "below", "feedback", "tally"} => V2[v].coded >= 1
    BY <1>1 DEF Counted
  <2> QED BY <1>1, <1>13, <2>1, <2>2, CountedFrame
<1> QED BY <1>14, <1>15, <1>16, <1>17, <1>18 DEF Wave

\* A worker releases a segment: what it has is what it had, and no dependency grows.
LEMMA Releases ==
    ASSUME NEW g, IsGrid(g), NEW d, NEW c, NEW n, NEW tm, NEW V, NEW A,
           Wave(g, d, c, n, tm, V, A), NEW w \in Workers,
           NEW V2, \A v \in Workers \ {w} : V2[v] = V[v],
           \A s : Holds(V2, w, s) <=> Holds(V, w, s), \A s : Leaves(V2, w, s) => Leaves(V, w, s),
           \A s : Has(V2, w, s) => Has(V, w, s), \A q : ~Begins(g, V2, w, q), Due(V2, w) = Due(V, w),
           V2[w].pc \in {"below", "code", "tally"}, V2[w].pc = "below" => ~V2[w].self /\ ~V2[w].again,
           V2[w].pc \in {"below", "tally"} => V2[w].coded >= 1,
           NEW d2 \in [SegmentIds(g) -> 0 .. 2], \A s \in SegmentIds(g) : d2[s] <= d[s],
           \A s \in Scan(g) : d2[s] = Flag(WaitsLeft(g, c, V2, s)) + Flag(WaitsAbove(g, c, V2, s))
    PROVE  Wave(g, d2, c, n, tm, V2, A)
<1>1. Dependent(g, d, c, V) /\ Placed(g, c, V) /\ Ready(g, d, c, V, A) /\ Apart(g, V, A) /\ Counted(g, c, n, tm, V)
  BY DEF Wave
<1>2. \A v \in Workers \ {w} : /\ \A s : (Holds(V2, v, s) <=> Holds(V, v, s))
                               /\ \A s : (Leaves(V2, v, s) <=> Leaves(V, v, s))
                               /\ \A s : (Has(V2, v, s) <=> Has(V, v, s))
                               /\ \A q : (Begins(g, V2, v, q) <=> Begins(g, V, v, q))
                               /\ Due(V2, v) = Due(V, v)
  BY SameWorker
<1>3. \A s \in Scan(g) : d2[s] \in Nat /\ d[s] \in Nat /\ (d[s] = 0 => d2[s] = 0)
  BY <1>1, ScanNumbers DEF Dependent
<1>4. Dependent(g, d2, c, V2)
  BY <1>1, <1>3 DEF Dependent
<1>5. Placed(g, c, V2)
  <2> SUFFICES ASSUME NEW v \in Workers
               PROVE  /\ \A s : Has(V2, v, s) => s \in Scan(g) /\ IsTaken(g, c, s)
                      /\ \A s : Holds(V2, v, s) \/ Leaves(V2, v, s) => s = c[RowOfSeg(g, s)] - 1
                      /\ V2[v].pc = "bump" => V2[v].seg = c[V2[v].task.row]
                      /\ V2[v].pc \in {"row", "bump", "right"} => ~V2[v].again
                      /\ V2[v].pc = "right" => ~V2[v].self
                      /\ V2[v].pc = "below" => (V2[v].self <=> V2[v].again)
                      /\ V2[v].pc = "feedback" => V2[v].again /\ V2[v].from \in Scan(g)
                      /\ V2[v].pc \in {"below", "feedback"} /\ V2[v].again =>
                            V2[v].seg = V2[v].from + 1 /\ RowOfSeg(g, V2[v].seg) = RowOfSeg(g, V2[v].from)
    BY DEF Placed
  <2>1. \A s : Has(V2, v, s) => s \in Scan(g) /\ IsTaken(g, c, s)
    BY <1>1, <1>2 DEF Placed
  <2>2. \A s : Holds(V2, v, s) \/ Leaves(V2, v, s) => s = c[RowOfSeg(g, s)] - 1
    BY <1>1, <1>2 DEF Placed
  <2>3. CASE v = w
    BY <2>1, <2>2, <2>3
  <2>4. CASE v # w
    BY <1>1, <2>1, <2>2, <2>4 DEF Placed
  <2> QED BY <2>3, <2>4
<1>6. Ready(g, d2, c, V2, A)
  <2> SUFFICES ASSUME NEW q \in Nat, IsAsked(A, q) \/ \E v \in Workers : Begins(g, V2, v, q)
               PROVE  q \in Rows(g) /\ Reached(g, q) /\ c[q] <= RowLast(g, q) /\ d2[c[q]] = 0
    BY DEF Ready
  <2>1. IsAsked(A, q) \/ \E v \in Workers : Begins(g, V, v, q)
    BY <1>2
  <2>2. q \in Rows(g) /\ Reached(g, q) /\ c[q] <= RowLast(g, q) /\ d[c[q]] = 0
    BY <1>1, <2>1 DEF Ready
  <2>3. c[q] \in RowFirst(g, q) .. RowLast(g, q)
    BY <1>1, <2>2, RowNumbers DEF Dependent
  <2>4. c[q] \in Scan(g)
    BY <2>2, <2>3, InRow
  <2> QED BY <1>3, <2>2, <2>4
<1>7. Apart(g, V2, A)
  <2>1. \A v, u \in Workers, s \in Scan(g) : Has(V2, v, s) /\ Has(V2, u, s) => v = u
    BY <1>1, <1>2 DEF Apart
  <2>2. \A v, u \in Workers, q \in Nat : Begins(g, V2, v, q) /\ Begins(g, V2, u, q) => v = u
    BY <1>1, <1>2 DEF Apart
  <2>3. \A v \in Workers, q \in Nat : ~(Begins(g, V2, v, q) /\ IsAsked(A, q))
    BY <1>1, <1>2 DEF Apart
  <2> QED BY <2>1, <2>2, <2>3 DEF Apart
<1>8. Counted(g, c, n, tm, V2)
  <2>1. \A v \in Workers : Due(V2, v) = Due(V, v)
    BY <1>2
  <2>2. \A v \in Workers : V2[v].pc \in {"right", "below", "feedback", "tally"} => V2[v].coded >= 1
    BY <1>1 DEF Counted
  <2>3. \A s \in Scan(g) : IsCoded(g, c, V2, s) <=> IsCoded(g, c, V, s)
    BY <1>2 DEF IsCoded
  <2> QED BY <1>1, <2>1, <2>2, <2>3, CountedFrame
<1> QED BY <1>4, <1>5, <1>6, <1>7, <1>8 DEF Wave

\* The segment on the right, and the release of it.
LEMMA LeaveRight ==
    ASSUME NEW g, IsGrid(g), NEW d, NEW c, NEW n, NEW tm, NEW V, NEW A,
           Wave(g, d, c, n, tm, V, A), NEW w \in Workers, V[w].pc = "right",
           NEW s, s = V[w].from,
           NEW V2, \A v \in Workers \ {w} : V2[v] = V[v],
           V2[w].pc = "below", V2[w].from = s, V2[w].coded = V[w].coded,
           V2[w].self = V[w].self, V2[w].again = V[w].again,
           NEW d2, s < RowLast(g, RowOfSeg(g, s)) => d2 = [d EXCEPT ![s + 1] = @ - 1],
           ~(s < RowLast(g, RowOfSeg(g, s))) => d2 = d
    PROVE  /\ Wave(g, d2, c, n, tm, V2, A)
           /\ s \in Scan(g) /\ c[RowOfSeg(g, s)] = s + 1
           /\ ~IsAsked(A, RowOfSeg(g, s)) /\ \A v \in Workers : ~Begins(g, V, v, RowOfSeg(g, s))
           /\ s < RowLast(g, RowOfSeg(g, s)) => d[s + 1] >= 1
           /\ \A u : ~Holds(V2, w, u) /\ ~Leaves(V2, w, u)
<1> DEFINE r == RowOfSeg(g, s)
<1>1. Dependent(g, d, c, V) /\ Placed(g, c, V) /\ Ready(g, d, c, V, A) /\ Apart(g, V, A) /\ Counted(g, c, n, tm, V)
  BY DEF Wave
<1>2. /\ \A u : (Leaves(V, w, u) <=> u = s)
      /\ \A u : (Has(V, w, u) <=> u = s)
      /\ \A u : ~Holds(V, w, u)
  BY DEF Holds, Leaves, Drops, Has
<1>3. ~V[w].again /\ ~V[w].self /\ V[w].coded >= 1
  BY <1>1 DEF Placed, Counted
<1>4. /\ \A u : ~Leaves(V2, w, u)
      /\ \A u : (Has(V2, w, u) <=> u = s)
      /\ \A u : ~Holds(V2, w, u)
      /\ \A q : ~Begins(g, V2, w, q)
      /\ Due(V2, w) = Due(V, w)
  BY <1>3 DEF Holds, Leaves, Drops, Has, Begins, Due, Counting
<1>5. \A v \in Workers \ {w} : /\ \A u : (Holds(V2, v, u) <=> Holds(V, v, u))
                               /\ \A u : (Leaves(V2, v, u) <=> Leaves(V, v, u))
                               /\ \A u : (Has(V2, v, u) <=> Has(V, v, u))
  BY SameWorker
<1>6. /\ s \in Scan(g) /\ c[r] = s + 1 /\ IsTaken(g, c, s)
      /\ ~IsAsked(A, r) /\ \A v \in Workers : ~Begins(g, V, v, r)
      /\ s < RowLast(g, r) => d[s + 1] >= 1
  <2>1. Leaves(V, w, s) /\ Has(V, w, s)
    BY <1>2
  <2>2. IsTaken(g, c, s)
    BY <1>1, <2>1 DEF Placed
  <2> QED BY <1>1, <2>1, <2>2, CarriersAreLast
<1>7. r \in Rows(g) /\ s \in Nat /\ RowLast(g, r) \in Nat /\ s + 1 \in Nat
  BY <1>6, ScanNumbers
<1>8. \A u \in Scan(g) : /\ RightDone(g, c, V2, u) <=> (RightDone(g, c, V, u) \/ u = s)
                         /\ BelowDone(g, c, V2, u) <=> BelowDone(g, c, V, u)
  <2> TAKE u \in Scan(g)
  <2>1. BelowDone(g, c, V2, u) <=> BelowDone(g, c, V, u)
    BY <1>2, <1>4, <1>5 DEF BelowDone
  <2>2. CASE u = s
    <3>1. \A v \in Workers \ {w} : ~Has(V, v, s)
      BY <1>1, <1>2, <1>6 DEF Apart
    <3>2. \A v \in Workers : ~Holds(V2, v, s) /\ ~Leaves(V2, v, s)
      BY <1>4, <1>5, <3>1 DEF Has
    <3> QED BY <1>6, <2>1, <2>2, <3>2 DEF RightDone
  <2>3. CASE u # s
    BY <1>2, <1>4, <1>5, <2>1, <2>3 DEF RightDone
  <2> QED BY <2>2, <2>3
<1>9. \A u \in Scan(g) : WaitsAbove(g, c, V2, u) <=> WaitsAbove(g, c, V, u)
  BY <1>8 DEF WaitsAbove
<1>10. \A u \in Scan(g) : u - 1 # s => (WaitsLeft(g, c, V2, u) <=> WaitsLeft(g, c, V, u))
  BY <1>8, ScanLeft DEF WaitsLeft
<1>11. \A u \in Scan(g) : u - 1 = s => ~WaitsLeft(g, c, V2, u)
  BY <1>6, <1>8 DEF WaitsLeft
<1>12. \A u \in Scan(g) : u - 1 = s /\ WaitsLeft(g, c, V, u) => s < RowLast(g, r)
  <2> SUFFICES ASSUME NEW u \in Scan(g), u - 1 = s, u > RowFirst(g, RowOfSeg(g, u))
               PROVE  s < RowLast(g, r)
    BY DEF WaitsLeft
  <2>1. RowOfSeg(g, u - 1) = RowOfSeg(g, u)
    BY ScanLeft
  <2>2. RowOfSeg(g, u) = r /\ u <= RowLast(g, RowOfSeg(g, u)) /\ u \in Nat
    BY <2>1, ScanNumbers
  <2> HIDE DEF r
  <2> QED BY <1>7, <2>2
<1>13. s < RowLast(g, r) => /\ s + 1 \in Scan(g) /\ s + 1 - 1 = s
                            /\ WaitsLeft(g, c, V, s + 1)
  <2> SUFFICES ASSUME s < RowLast(g, r)
               PROVE  s + 1 \in Scan(g) /\ s + 1 - 1 = s /\ WaitsLeft(g, c, V, s + 1)
    OBVIOUS
  <2>1. PICK u : u = s + 1
    OBVIOUS
  <2>2. s + 1 \in Scan(g) /\ s + 1 > RowFirst(g, RowOfSeg(g, s + 1))
    BY <1>6, ScanRight
  <2>3. u \in Scan(g) /\ u - 1 = s /\ u > RowFirst(g, RowOfSeg(g, u))
    <3>1. u - 1 = s
      BY <1>7, <2>1
    <3>2. RowOfSeg(g, u) = RowOfSeg(g, s + 1)
      BY <2>1
    <3> QED BY <2>1, <2>2, <3>1, <3>2
  <2>4. ~RightDone(g, c, V, s)
    BY <1>2 DEF RightDone
  <2>5. WaitsLeft(g, c, V, u)
    BY <2>3, <2>4 DEF WaitsLeft
  <2> QED BY <2>1, <2>3, <2>5
<1> HIDE DEF r
<1>14. \A u \in Scan(g) : /\ u \in Nat /\ u \in SegmentIds(g) /\ (u = s + 1 <=> u - 1 = s)
                          /\ d[u] = Flag(WaitsLeft(g, c, V, u)) + Flag(WaitsAbove(g, c, V, u))
  BY <1>1, <1>7, ScanNumbers DEF Dependent
<1>15. d \in [SegmentIds(g) -> 0 .. 2]
  BY <1>1 DEF Dependent
<1>16. s < RowLast(g, r) => s + 1 \in SegmentIds(g) /\ d[s + 1] \in 1 .. 2
  BY <1>6, <1>13, <1>14, <1>15
<1>17. /\ d2 \in [SegmentIds(g) -> 0 .. 2] /\ \A u \in SegmentIds(g) : d2[u] <= d[u]
       /\ \A u \in SegmentIds(g) : u # s + 1 => d2[u] = d[u]
       /\ s < RowLast(g, r) => d2[s + 1] = d[s + 1] - 1
       /\ ~(s < RowLast(g, r)) => d2 = d
  <2>1. CASE s < RowLast(g, r)
    <3>1. d2 = [d EXCEPT ![s + 1] = @ - 1]
      BY <2>1 DEF r
    <3> QED BY <1>15, <1>16, <2>1, <3>1
  <2>2. CASE ~(s < RowLast(g, r))
    <3>1. d2 = d
      BY <2>2 DEF r
    <3> QED BY <1>15, <2>2, <3>1
  <2> QED BY <2>1, <2>2
<1>18. ASSUME NEW u \in Scan(g)
       PROVE  d2[u] = Flag(WaitsLeft(g, c, V2, u)) + Flag(WaitsAbove(g, c, V2, u))
  <2> DEFINE a2 == Flag(WaitsAbove(g, c, V2, u))
             a  == Flag(WaitsAbove(g, c, V, u))
             l2 == Flag(WaitsLeft(g, c, V2, u))
             l  == Flag(WaitsLeft(g, c, V, u))
  <2>1. a2 = a /\ a \in {0, 1} /\ l \in {0, 1} /\ l2 \in {0, 1} /\ d[u] = l + a
    BY <1>9, <1>14 DEF Flag
  <2>2. CASE u # s + 1
    <3>1. l2 = l
      BY <1>10, <1>14, <2>2 DEF Flag
    <3>2. d2[u] = d[u]
      BY <1>14, <1>17, <2>2
    <3> HIDE DEF a, a2, l, l2
    <3>3. d2[u] = l2 + a2
      BY <2>1, <3>1, <3>2
    <3> QED BY <3>3 DEF l2, a2
  <2>3. CASE u = s + 1 /\ s < RowLast(g, r)
    <3>1. l = 1 /\ l2 = 0
      BY <1>11, <1>13, <1>14, <2>3 DEF Flag
    <3>2. d2[u] = d[u] - 1
      BY <1>17, <2>3
    <3> HIDE DEF a, a2, l, l2
    <3>3. d2[u] = l2 + a2
      BY <2>1, <3>1, <3>2
    <3> QED BY <3>3 DEF l2, a2
  <2>4. CASE u = s + 1 /\ ~(s < RowLast(g, r))
    <3>1. l = 0 /\ l2 = 0
      BY <1>11, <1>12, <1>14, <2>4 DEF Flag
    <3>2. d2[u] = d[u]
      BY <1>17, <2>4
    <3> HIDE DEF a, a2, l, l2
    <3>3. d2[u] = l2 + a2
      BY <2>1, <3>1, <3>2
    <3> QED BY <3>3 DEF l2, a2
  <2> QED BY <2>2, <2>3, <2>4
<1>19. Wave(g, d2, c, n, tm, V2, A)
  <2>1. \A u : Holds(V2, w, u) <=> Holds(V, w, u)
    BY <1>2, <1>4
  <2>2. \A u : Leaves(V2, w, u) => Leaves(V, w, u)
    BY <1>4
  <2>3. \A u : Has(V2, w, u) => Has(V, w, u)
    BY <1>2, <1>4
  <2> QED BY <1>3, <1>4, <1>17, <1>18, <2>1, <2>2, <2>3, Releases
<1> QED BY <1>4, <1>6, <1>19 DEF r

\* Whether there is a segment below.
Bottom(g, s) == RowOfSeg(g, s) < g.rows - 1 /\ s + g.bands >= RowFirst(g, RowOfSeg(g, s) + 1)

\* The segment below, and the release of it.  When that was the last release,
\* the segment is the next one of its row, and nobody begins that row.
LEMMA LeaveBelow ==
    ASSUME NEW g, IsGrid(g), NEW d, NEW c, NEW n, NEW tm, NEW V, NEW A,
           Wave(g, d, c, n, tm, V, A), NEW w \in Workers, V[w].pc = "below",
           NEW s, s = V[w].from,
           NEW V2, \A v \in Workers \ {w} : V2[v] = V[v],
           V2[w].pc = IF V[w].again THEN "code" ELSE "tally",
           V2[w].seg = V[w].seg, V2[w].coded = V[w].coded,
           NEW d2, Bottom(g, s) => d2 = [d EXCEPT ![s + g.bands] = @ - 1],
           ~Bottom(g, s) => d2 = d
    PROVE  /\ Wave(g, d2, c, n, tm, V2, A)
           /\ s \in Scan(g) /\ s \in Nat /\ RowOfSeg(g, s) \in Nat
           /\ Bottom(g, s) => d[s + g.bands] >= 1
           /\ Bottom(g, s) /\ d[s + g.bands] = 1 =>
                /\ RowOfSeg(g, s) + 1 \in Rows(g) /\ Reached(g, RowOfSeg(g, s) + 1)
                /\ c[RowOfSeg(g, s) + 1] = s + g.bands
                /\ c[RowOfSeg(g, s) + 1] <= RowLast(g, RowOfSeg(g, s) + 1)
                /\ d2[s + g.bands] = 0
                /\ ~IsAsked(A, RowOfSeg(g, s) + 1)
                /\ \A v \in Workers : ~Begins(g, V, v, RowOfSeg(g, s) + 1)
<1> DEFINE r == RowOfSeg(g, s)
           x == s + g.bands
<1>1. Dependent(g, d, c, V) /\ Placed(g, c, V) /\ Ready(g, d, c, V, A) /\ Apart(g, V, A) /\ Counted(g, c, n, tm, V)
  BY DEF Wave
<1>2. /\ \A u : (Drops(V, w, u) <=> u = s)
      /\ \A u : ~Leaves(V, w, u)
      /\ \A u : (Holds(V, w, u) <=> V[w].again /\ u = V[w].seg)
      /\ Has(V, w, s)
  BY DEF Holds, Leaves, Drops, Has
<1>3. s \in Scan(g) /\ IsTaken(g, c, s)
  BY <1>1, <1>2 DEF Placed
<1>4. /\ s \in Nat /\ r \in Rows(g) /\ r \in Nat /\ RowLast(g, r) \in Nat /\ s <= RowLast(g, r)
      /\ g.bands \in Nat \ {0} /\ g.rows \in Nat \ {0} /\ x \in Nat /\ x - g.bands = s
  BY <1>3, ScanNumbers, GridNumbers
<1>5. /\ \A u : ~Leaves(V2, w, u)
      /\ \A u : ~Drops(V2, w, u)
      /\ \A u : (Holds(V2, w, u) <=> Holds(V, w, u))
      /\ \A q : ~Begins(g, V2, w, q)
      /\ Due(V2, w) = Due(V, w)
  BY <1>2 DEF Holds, Leaves, Drops, Begins, Due, Counting
<1>6. \A u : Has(V2, w, u) => Has(V, w, u)
  BY <1>5 DEF Has
<1>7. ~Has(V2, w, s)
  <2>1. V[w].again => V[w].seg # s
    BY <1>1, <1>4 DEF Placed
  <2> QED BY <1>2, <1>5, <2>1 DEF Has
<1>8. \A v \in Workers \ {w} : /\ \A u : (Holds(V2, v, u) <=> Holds(V, v, u))
                               /\ \A u : (Leaves(V2, v, u) <=> Leaves(V, v, u))
                               /\ \A u : (Has(V2, v, u) <=> Has(V, v, u))
  BY SameWorker
<1>9. \A u \in Scan(g) : /\ RightDone(g, c, V2, u) <=> RightDone(g, c, V, u)
                         /\ BelowDone(g, c, V2, u) <=> (BelowDone(g, c, V, u) \/ u = s)
  <2> TAKE u \in Scan(g)
  <2>1. RightDone(g, c, V2, u) <=> RightDone(g, c, V, u)
    BY <1>2, <1>5, <1>8 DEF RightDone
  <2>2. CASE u = s
    <3>1. \A v \in Workers \ {w} : ~Has(V, v, s)
      BY <1>1, <1>2, <1>3 DEF Apart
    <3>2. \A v \in Workers : ~Has(V2, v, s)
      BY <1>7, <1>8, <3>1
    <3> QED BY <1>3, <2>1, <2>2, <3>2 DEF BelowDone
  <2>3. CASE u # s
    <3>1. Has(V2, w, u) <=> Has(V, w, u)
      BY <1>2, <1>5, <2>3 DEF Has
    <3> QED BY <1>8, <2>1, <2>3, <3>1 DEF BelowDone
  <2> QED BY <2>2, <2>3
<1>10. \A u \in Scan(g) : WaitsLeft(g, c, V2, u) <=> WaitsLeft(g, c, V, u)
  BY <1>9, ScanLeft DEF WaitsLeft
<1>11. \A u \in Scan(g) : u - g.bands # s => (WaitsAbove(g, c, V2, u) <=> WaitsAbove(g, c, V, u))
  BY <1>9 DEF WaitsAbove
<1>12. \A u \in Scan(g) : u - g.bands = s => ~WaitsAbove(g, c, V2, u) /\ WaitsAbove(g, c, V, u)
  <2>1. ~BelowDone(g, c, V, s) /\ BelowDone(g, c, V2, s)
    BY <1>2, <1>3, <1>9 DEF BelowDone
  <2> QED BY <1>3, <2>1 DEF WaitsAbove
<1>13. \A u \in Scan(g) : u - g.bands = s => Bottom(g, s)
  <2> SUFFICES ASSUME NEW u \in Scan(g), u - g.bands = s
               PROVE  Bottom(g, s)
    OBVIOUS
  <2>1. u - g.bands \in Scan(g)
    BY <1>3
  <2>2. RowOfSeg(g, u) = r + 1 /\ u = s + g.bands
    BY <2>1, ScanAbove
  <2>3. r + 1 \in Rows(g) /\ RowFirst(g, r + 1) <= u
    BY <2>2, ScanNumbers
  <2>4. r < g.rows - 1 /\ s + g.bands >= RowFirst(g, r + 1)
    <3>1. r + 1 \in 0 .. g.rows - 1
      BY <2>3 DEF Rows
    <3>2. RowFirst(g, r + 1) \in Nat
      BY <2>3, RowNumbers
    <3> HIDE DEF r
    <3> QED BY <1>4, <2>2, <2>3, <3>1, <3>2
  <2> QED BY <2>4 DEF Bottom
<1>14. Bottom(g, s) => /\ x \in Scan(g) /\ RowOfSeg(g, x) = r + 1 /\ x - g.bands = s
                       /\ WaitsAbove(g, c, V, x)
  <2> SUFFICES ASSUME Bottom(g, s)
               PROVE  x \in Scan(g) /\ RowOfSeg(g, x) = r + 1 /\ x - g.bands = s /\ WaitsAbove(g, c, V, x)
    OBVIOUS
  <2>1. x \in Scan(g) /\ RowOfSeg(g, x) = r + 1
    BY <1>3, ScanBelow DEF Bottom
  <2> HIDE DEF x
  <2> QED BY <1>4, <1>12, <2>1
<1> HIDE DEF r, x
<1>15. \A u \in Scan(g) : /\ u \in Nat /\ u \in SegmentIds(g) /\ (u = x <=> u - g.bands = s)
                          /\ d[u] = Flag(WaitsLeft(g, c, V, u)) + Flag(WaitsAbove(g, c, V, u))
  <2>1. x = s + g.bands
    BY DEF x
  <2> QED BY <1>1, <1>4, <2>1, ScanNumbers DEF Dependent
<1>16. d \in [SegmentIds(g) -> 0 .. 2]
  BY <1>1 DEF Dependent
<1>17. Bottom(g, s) => x \in SegmentIds(g) /\ d[x] \in 1 .. 2 /\ d[x] = Flag(WaitsLeft(g, c, V, x)) + 1
  <2> SUFFICES ASSUME Bottom(g, s)
               PROVE  x \in SegmentIds(g) /\ d[x] \in 1 .. 2 /\ d[x] = Flag(WaitsLeft(g, c, V, x)) + 1
    OBVIOUS
  <2> DEFINE l == Flag(WaitsLeft(g, c, V, x))
  <2>1. l \in {0, 1} /\ Flag(WaitsAbove(g, c, V, x)) = 1
    BY <1>14 DEF Flag
  <2>2. x \in SegmentIds(g) /\ d[x] = l + 1
    BY <1>14, <1>15, <2>1
  <2> HIDE DEF l
  <2>3. d[x] \in 1 .. 2
    BY <2>1, <2>2
  <2> QED BY <2>2, <2>3 DEF l
<1>18. /\ d2 \in [SegmentIds(g) -> 0 .. 2] /\ \A u \in SegmentIds(g) : d2[u] <= d[u]
       /\ \A u \in SegmentIds(g) : u # x => d2[u] = d[u]
       /\ Bottom(g, s) => d2[x] = d[x] - 1
       /\ ~Bottom(g, s) => d2 = d
  <2>1. CASE Bottom(g, s)
    <3>1. d2 = [d EXCEPT ![x] = @ - 1]
      BY <2>1 DEF x
    <3> QED BY <1>16, <1>17, <2>1, <3>1
  <2>2. CASE ~Bottom(g, s)
    BY <1>16, <2>2
  <2> QED BY <2>1, <2>2
<1>19. ASSUME NEW u \in Scan(g)
       PROVE  d2[u] = Flag(WaitsLeft(g, c, V2, u)) + Flag(WaitsAbove(g, c, V2, u))
  <2> DEFINE a2 == Flag(WaitsAbove(g, c, V2, u))
             a  == Flag(WaitsAbove(g, c, V, u))
             l2 == Flag(WaitsLeft(g, c, V2, u))
             l  == Flag(WaitsLeft(g, c, V, u))
  <2>1. l2 = l /\ a \in {0, 1} /\ l \in {0, 1} /\ a2 \in {0, 1} /\ d[u] = l + a
    BY <1>10, <1>15 DEF Flag
  <2>2. CASE u # x
    <3>1. a2 = a
      BY <1>11, <1>15, <2>2 DEF Flag
    <3>2. d2[u] = d[u]
      BY <1>15, <1>18, <2>2
    <3> HIDE DEF a, a2, l, l2
    <3>3. d2[u] = l2 + a2
      BY <2>1, <3>1, <3>2
    <3> QED BY <3>3 DEF l2, a2
  <2>3. CASE u = x
    <3>1. a = 1 /\ a2 = 0 /\ Bottom(g, s)
      BY <1>12, <1>13, <1>15, <2>3 DEF Flag
    <3>2. d2[u] = d[u] - 1
      BY <1>18, <2>3, <3>1
    <3> HIDE DEF a, a2, l, l2
    <3>3. d2[u] = l2 + a2
      BY <2>1, <3>1, <3>2
    <3> QED BY <3>3 DEF l2, a2
  <2> QED BY <2>2, <2>3
<1>20. Wave(g, d2, c, n, tm, V2, A)
  <2>1. \A u : Holds(V2, w, u) <=> Holds(V, w, u)
    BY <1>5
  <2>2. \A u : Leaves(V2, w, u) => Leaves(V, w, u)
    BY <1>5
  <2>3. V2[w].coded >= 1
    BY <1>1 DEF Counted
  <2>4. V2[w].pc \in {"below", "code", "tally"} /\ V2[w].pc # "below"
    OBVIOUS
  <2> QED BY <1>5, <1>6, <1>18, <1>19, <2>1, <2>2, <2>3, <2>4, Releases
<1>21. ASSUME Bottom(g, s), d[x] = 1
       PROVE  /\ r + 1 \in Rows(g) /\ Reached(g, r + 1) /\ c[r + 1] = x /\ c[r + 1] <= RowLast(g, r + 1)
              /\ d2[x] = 0 /\ ~IsAsked(A, r + 1) /\ \A v \in Workers : ~Begins(g, V, v, r + 1)
  <2>1. x \in Scan(g) /\ RowOfSeg(g, x) = r + 1 /\ x - g.bands = s
    BY <1>14, <1>21
  <2>2. /\ x \in Nat /\ r + 1 \in Rows(g) /\ RowFirst(g, r + 1) \in Nat /\ RowLast(g, r + 1) \in Nat
        /\ RowFirst(g, r + 1) <= x /\ x <= RowLast(g, r + 1)
    BY <2>1, ScanNumbers
  <2>3. c[r + 1] \in Nat /\ RowFirst(g, r + 1) <= c[r + 1]
    <3>1. c[r + 1] \in Nat /\ c[r + 1] \in RowFirst(g, r + 1) .. RowLast(g, r + 1) + 1
      BY <1>1, <2>2 DEF Dependent
    <3> QED BY <2>2, <3>1
  <2>4. c[r + 1] <= x
    <3>1. ~IsTaken(g, c, x)
      BY <1>1, <1>21, <2>1 DEF Dependent
    <3> QED BY <2>1, <2>2, <2>3, <3>1 DEF IsTaken
  <2>5. ~WaitsLeft(g, c, V, x)
    BY <1>17, <1>21 DEF Flag
  <2>6. x > RowFirst(g, r + 1) => c[r + 1] = x
    <3> SUFFICES ASSUME x > RowFirst(g, r + 1)
                 PROVE  c[r + 1] = x
      OBVIOUS
    <3>1. RowOfSeg(g, x - 1) = r + 1
      BY <2>1, ScanLeft
    <3>2. IsTaken(g, c, x - 1)
      BY <2>1, <2>5 DEF WaitsLeft, RightDone
    <3>3. x - 1 < c[r + 1]
      BY <3>1, <3>2 DEF IsTaken
    <3> QED BY <2>2, <2>3, <2>4, <3>3
  <2>7. c[r + 1] = x
    BY <2>2, <2>3, <2>4, <2>6
  <2>8. Reached(g, r + 1)
    <3>1. CASE x = RowFirst(g, r + 1)
      BY <1>3, <2>1, <3>1 DEF Reached
    <3>2. CASE x > RowFirst(g, r + 1)
      BY <1>1, <2>2, <2>7, <3>2 DEF Dependent
    <3> QED BY <2>2, <3>1, <3>2
  <2>9. d2[x] = 0
    BY <1>18, <1>21
  <2>10. r + 1 \in Nat
    BY <2>2, RowNumbers
  <2>11. ~IsAsked(A, r + 1) /\ \A v \in Workers : ~Begins(g, V, v, r + 1)
    BY <1>1, <1>21, <2>7, <2>10 DEF Ready
  <2> QED BY <2>2, <2>7, <2>8, <2>9, <2>11
<1>22. Bottom(g, s) => d[x] >= 1
  BY <1>17
<1> QED BY <1>3, <1>4, <1>20, <1>21, <1>22 DEF r, x

\* A worker codes its segment.
LEMMA CodeSegment ==
    ASSUME NEW g, IsGrid(g), NEW d, NEW c, NEW n, NEW tm, NEW V, NEW A,
           Wave(g, d, c, n, tm, V, A), NEW w \in Workers, V[w].pc = "code",
           NEW s, s = V[w].seg, V[w].coded \in Nat,
           NEW V2, \A v \in Workers \ {w} : V2[v] = V[v],
           V2[w].pc = "right", V2[w].from = s, ~V2[w].self, ~V2[w].again,
           V2[w].coded = V[w].coded + ValidSbCount(g, s),
           NEW tm2 \in [Sbs(g) -> Nat],
           \A sb \in Sbs(g) : tm2[sb] = tm[sb] + Flag(sb \in SbsOf(g, s))
    PROVE  /\ Wave(g, d, c, n, tm2, V2, A)
           /\ s \in Scan(g) /\ IsTaken(g, c, s) /\ c[RowOfSeg(g, s)] = s + 1
           /\ \A sb \in Sbs(g) : SegmentOf(g, sb) = s => tm[sb] = 0 /\ tm2[sb] = 1
           /\ \A sb \in Sbs(g) : SegmentOf(g, sb) # s => tm2[sb] = tm[sb]
<1>1. Dependent(g, d, c, V) /\ Placed(g, c, V) /\ Ready(g, d, c, V, A) /\ Apart(g, V, A) /\ Counted(g, c, n, tm, V)
  BY DEF Wave
<1>2. /\ \A u : (Holds(V, w, u) <=> u = s)
      /\ \A u : ~Leaves(V, w, u)
      /\ \A u : ~Drops(V, w, u)
      /\ \A u : (Has(V, w, u) <=> u = s)
  BY DEF Holds, Leaves, Drops, Has
<1>3. /\ \A u : ~Holds(V2, w, u)
      /\ \A u : (Leaves(V2, w, u) <=> u = s)
      /\ \A u : ~Drops(V2, w, u)
      /\ \A u : (Has(V2, w, u) <=> u = s)
      /\ \A q : ~Begins(g, V2, w, q)
  BY DEF Holds, Leaves, Drops, Has, Begins
<1>4. \A v \in Workers \ {w} : /\ \A u : (Holds(V2, v, u) <=> Holds(V, v, u))
                               /\ \A u : (Leaves(V2, v, u) <=> Leaves(V, v, u))
                               /\ \A u : (Has(V2, v, u) <=> Has(V, v, u))
                               /\ \A q : (Begins(g, V2, v, q) <=> Begins(g, V, v, q))
                               /\ Due(V2, v) = Due(V, v)
  BY SameWorker
<1>5. s \in Scan(g) /\ IsTaken(g, c, s) /\ c[RowOfSeg(g, s)] = s + 1
  <2>1. Holds(V, w, s) /\ Has(V, w, s)
    BY <1>2
  <2> QED BY <1>1, <2>1, CarriersAreLast DEF Placed
<1>6. \A v \in Workers \ {w} : ~Has(V, v, s)
  BY <1>1, <1>2, <1>5 DEF Apart
<1>7. \A u \in Scan(g) : /\ RightDone(g, c, V2, u) <=> RightDone(g, c, V, u)
                         /\ BelowDone(g, c, V2, u) <=> BelowDone(g, c, V, u)
                         /\ IsCoded(g, c, V2, u) <=> (IsCoded(g, c, V, u) \/ u = s)
  <2> TAKE u \in Scan(g)
  <2>1. RightDone(g, c, V2, u) <=> RightDone(g, c, V, u)
    BY <1>2, <1>3, <1>4 DEF RightDone
  <2>2. BelowDone(g, c, V2, u) <=> BelowDone(g, c, V, u)
    BY <1>2, <1>3, <1>4 DEF BelowDone
  <2>3. CASE u = s
    <3>1. \A v \in Workers : ~Holds(V2, v, s)
      BY <1>3, <1>4, <1>6 DEF Has
    <3> QED BY <1>5, <2>1, <2>2, <2>3, <3>1 DEF IsCoded
  <2>4. CASE u # s
    BY <1>2, <1>3, <1>4, <2>1, <2>2, <2>4 DEF IsCoded
  <2> QED BY <2>3, <2>4
<1>8. ~IsCoded(g, c, V, s)
  BY <1>2 DEF IsCoded
<1>9. Dependent(g, d, c, V2)
  <2>1. \A u \in Scan(g) : RightDone(g, c, V2, u) <=> RightDone(g, c, V, u)
    BY <1>7
  <2>2. \A u \in Scan(g) : BelowDone(g, c, V2, u) <=> BelowDone(g, c, V, u)
    BY <1>7
  <2>3. \A u \in Scan(g) : /\ Flag(WaitsLeft(g, c, V2, u)) = Flag(WaitsLeft(g, c, V, u))
                           /\ Flag(WaitsAbove(g, c, V2, u)) = Flag(WaitsAbove(g, c, V, u))
    BY <2>1, <2>2, WaitsFrame
  <2> QED BY <1>1, <2>3 DEF Dependent
<1>10. Placed(g, c, V2)
  <2> SUFFICES ASSUME NEW v \in Workers
               PROVE  /\ \A u : Has(V2, v, u) => u \in Scan(g) /\ IsTaken(g, c, u)
                      /\ \A u : Holds(V2, v, u) \/ Leaves(V2, v, u) => u = c[RowOfSeg(g, u)] - 1
                      /\ V2[v].pc = "bump" => V2[v].seg = c[V2[v].task.row]
                      /\ V2[v].pc \in {"row", "bump", "right"} => ~V2[v].again
                      /\ V2[v].pc = "right" => ~V2[v].self
                      /\ V2[v].pc = "below" => (V2[v].self <=> V2[v].again)
                      /\ V2[v].pc = "feedback" => V2[v].again /\ V2[v].from \in Scan(g)
                      /\ V2[v].pc \in {"below", "feedback"} /\ V2[v].again =>
                            V2[v].seg = V2[v].from + 1 /\ RowOfSeg(g, V2[v].seg) = RowOfSeg(g, V2[v].from)
    BY DEF Placed
  <2>1. \A u : Has(V2, v, u) => Has(V, v, u)
    BY <1>2, <1>3, <1>4
  <2>2. \A u : Holds(V2, v, u) \/ Leaves(V2, v, u) => Holds(V, v, u) \/ Leaves(V, v, u)
    BY <1>2, <1>3, <1>4
  <2>3. \A u : Has(V2, v, u) => u \in Scan(g) /\ IsTaken(g, c, u)
    BY <1>1, <2>1 DEF Placed
  <2>4. \A u : Holds(V2, v, u) \/ Leaves(V2, v, u) => u = c[RowOfSeg(g, u)] - 1
    BY <1>1, <2>2 DEF Placed
  <2>5. CASE v = w
    BY <2>3, <2>4, <2>5
  <2>6. CASE v # w
    BY <1>1, <2>3, <2>4, <2>6 DEF Placed
  <2> QED BY <2>5, <2>6
<1>11. Ready(g, d, c, V2, A)
  <2>1. \A v \in Workers : \A q : Begins(g, V2, v, q) => Begins(g, V, v, q)
    BY <1>3, <1>4
  <2> QED BY <1>1, <2>1 DEF Ready
<1>12. Apart(g, V2, A)
  <2>1. \A v, u \in Workers, t \in Scan(g) : Has(V2, v, t) /\ Has(V2, u, t) => v = u
    BY <1>1, <1>2, <1>3, <1>4 DEF Apart
  <2>2. \A v, u \in Workers, q \in Nat : Begins(g, V2, v, q) /\ Begins(g, V2, u, q) => v = u
    BY <1>1, <1>3, <1>4 DEF Apart
  <2>3. \A v \in Workers, q \in Nat : ~(Begins(g, V2, v, q) /\ IsAsked(A, q))
    BY <1>1, <1>3, <1>4 DEF Apart
  <2> QED BY <2>1, <2>2, <2>3 DEF Apart
<1>13. \A sb \in Sbs(g) : sb \in SbsOf(g, s) <=> SegmentOf(g, sb) = s
  BY DEF SbsOf
<1>14. \A sb \in Sbs(g) : /\ tm[sb] = Flag(IsCoded(g, c, V, SegmentOf(g, sb)))
                          /\ tm2[sb] = Flag(IsCoded(g, c, V2, SegmentOf(g, sb)))
                          /\ SegmentOf(g, sb) = s => tm[sb] = 0 /\ tm2[sb] = 1
                          /\ SegmentOf(g, sb) # s => tm2[sb] = tm[sb]
  <2> TAKE sb \in Sbs(g)
  <2>1. tm[sb] = Flag(IsCoded(g, c, V, SegmentOf(g, sb))) /\ tm[sb] \in Nat
    BY <1>1 DEF Counted
  <2>2. SegmentOf(g, sb) \in Scan(g)
    BY SbInScan
  <2>3. CASE SegmentOf(g, sb) = s
    <3>1. tm[sb] = 0 /\ Flag(IsCoded(g, c, V2, SegmentOf(g, sb))) = 1
      BY <1>5, <1>7, <1>8, <2>1, <2>3 DEF Flag
    <3>2. tm2[sb] = tm[sb] + 1
      BY <1>13, <2>3 DEF Flag
    <3> QED BY <2>1, <2>3, <3>1, <3>2
  <2>4. CASE SegmentOf(g, sb) # s
    <3>1. Flag(IsCoded(g, c, V2, SegmentOf(g, sb))) = Flag(IsCoded(g, c, V, SegmentOf(g, sb)))
      BY <1>7, <2>2, <2>4 DEF Flag
    <3>2. tm2[sb] = tm[sb] + 0
      BY <1>13, <2>4 DEF Flag
    <3> QED BY <2>1, <2>4, <3>1, <3>2
  <2> QED BY <2>3, <2>4
<1>15. PICK k \in Nat \ {0} : k = ValidSbCount(g, s)
  BY <1>5, RowHasNoGap DEF Scan, Rows, RowFirst, RowLast
<1>16. Counted(g, c, n, tm2, V2)
  <2>1. Due(V, w) \in Nat /\ Due(V2, w) = Due(V, w) + k /\ V2[w].coded >= 1
    BY <1>15 DEF Due, Counting
  <2>2. /\ IsFiniteSet(Uncounted(V)) <=> IsFiniteSet(Uncounted(V2))
        /\ IsFiniteSet(Uncounted(V)) => Cardinality(Uncounted(V2)) = Cardinality(Uncounted(V)) + k
    BY <1>4, <2>1, UncountedMore
  <2>3. CodedSbs(g, tm2) = CodedSbs(g, tm) \cup SbsOf(g, s) /\ CodedSbs(g, tm) \cap SbsOf(g, s) = {}
    <3>1. \A sb \in Sbs(g) : tm2[sb] = 1 <=> tm[sb] = 1 \/ sb \in SbsOf(g, s)
      BY <1>13, <1>14
    <3>2. \A sb \in Sbs(g) : ~(tm[sb] = 1 /\ sb \in SbsOf(g, s))
      BY <1>13, <1>14
    <3>3. SbsOf(g, s) \subseteq Sbs(g)
      BY DEF SbsOf
    <3> QED BY <3>1, <3>2, <3>3 DEF CodedSbs
  <2> DEFINE C == CodedSbs(g, tm)
             D == SbsOf(g, s)
  <2>4. IsFiniteSet(C) /\ Cardinality(C) \in Nat
    BY CodedFinite
  <2>5. IsFiniteSet(D) /\ Cardinality(D) = k
    BY <1>15, SbsFinite DEF ValidSbCount
  <2>6. Cardinality(CodedSbs(g, tm2)) = Cardinality(C \cup D) /\ C \cap D = {}
    BY <2>3
  <2> HIDE DEF C, D
  <2>7. Cardinality(C \cup D) = Cardinality(C) + Cardinality(D) - Cardinality(C \cap D)
    BY <2>4, <2>5, FS_Union
  <2>8. Cardinality(C \cap D) = 0
    BY <2>6, FS_EmptySet
  <2>9. Cardinality(CodedSbs(g, tm2)) = Cardinality(C) + k
    BY <2>4, <2>5, <2>6, <2>7, <2>8
  <2>10. IsFiniteSet(Uncounted(V)) /\ n \in Nat /\ n + Cardinality(Uncounted(V)) = Cardinality(C)
    BY <1>1 DEF Counted, C
  <2>11. IsFiniteSet(Uncounted(V2)) /\ Cardinality(Uncounted(V2)) = Cardinality(Uncounted(V)) + k
    BY <2>2, <2>10
  <2> DEFINE m == Cardinality(Uncounted(V))
  <2>12. m \in Nat
    BY <2>10, FS_CardinalityType
  <2>13. n + (m + k) = Cardinality(CodedSbs(g, tm2))
    <3> HIDE DEF m
    <3>1. n + m = Cardinality(C)
      BY <2>10 DEF m
    <3> QED BY <2>4, <2>9, <2>10, <2>12, <3>1
  <2>14. n + Cardinality(Uncounted(V2)) = Cardinality(CodedSbs(g, tm2))
    BY <2>11, <2>13
  <2>15. \A v \in Workers : V2[v].pc \in {"right", "below", "feedback", "tally"} => V2[v].coded >= 1
    BY <1>1, <2>1 DEF Counted
  <2> QED BY <1>14, <2>10, <2>11, <2>14, <2>15 DEF Counted
<1>17. Wave(g, d, c, n, tm2, V2, A)
  BY <1>9, <1>10, <1>11, <1>12, <1>16 DEF Wave
<1> QED BY <1>5, <1>14, <1>17

\* A row that a worker may be asked to begin, and nobody begins.
Startable(g, d, c, V, q) ==
    /\ q \in Rows(g) /\ Reached(g, q) /\ c[q] <= RowLast(g, q) /\ d[c[q]] = 0
    /\ \A v \in Workers : ~Begins(g, V, v, q)

\* A worker moves on, or is asked to, and the segments stay with their workers.
LEMMA Moves ==
    ASSUME NEW g, IsGrid(g), NEW d, NEW c, NEW n, NEW tm, NEW V, NEW A,
           Wave(g, d, c, n, tm, V, A), NEW w \in Workers,
           NEW V2, \A v \in Workers \ {w} : V2[v] = V[v],
           \A s : Holds(V2, w, s) <=> Holds(V, w, s),
           \A s : ~Leaves(V, w, s) /\ ~Leaves(V2, w, s),
           \A s : ~Drops(V, w, s) /\ ~Drops(V2, w, s),
           V2[w].pc \in {"idle", "row", "bump", "code", "feedback"},
           V2[w].pc \in {"row", "bump"} => ~V2[w].again,
           V2[w].pc = "bump" => V2[w].seg = c[V2[w].task.row],
           V2[w].pc = "feedback" => /\ V2[w].again /\ V2[w].from \in Scan(g) /\ V2[w].seg = V2[w].from + 1
                                    /\ RowOfSeg(g, V2[w].seg) = RowOfSeg(g, V2[w].from),
           NEW A2,
           \A q \in Nat : IsAsked(A2, q) => IsAsked(A, q) \/ Begins(g, V, w, q) \/ Startable(g, d, c, V, q),
           \A q \in Nat : Begins(g, V2, w, q) => IsAsked(A, q) \/ Begins(g, V, w, q) \/ Startable(g, d, c, V, q),
           \A q \in Nat : ~(IsAsked(A2, q) /\ Begins(g, V2, w, q))
    PROVE  /\ Dependent(g, d, c, V2) /\ Placed(g, c, V2) /\ Ready(g, d, c, V2, A2) /\ Apart(g, V2, A2)
           /\ \A s \in Scan(g) : IsCoded(g, c, V2, s) <=> IsCoded(g, c, V, s)
           /\ Due(V2, w) = Due(V, w) /\ (V2[w].pc = "feedback" => V2[w].coded >= 1) => Wave(g, d, c, n, tm, V2, A2)
<1>1. Dependent(g, d, c, V) /\ Placed(g, c, V) /\ Ready(g, d, c, V, A) /\ Apart(g, V, A) /\ Counted(g, c, n, tm, V)
  BY DEF Wave
<1>2. \A v \in Workers \ {w} : /\ \A u : (Holds(V2, v, u) <=> Holds(V, v, u))
                               /\ \A u : (Leaves(V2, v, u) <=> Leaves(V, v, u))
                               /\ \A u : (Drops(V2, v, u) <=> Drops(V, v, u))
                               /\ \A q : (Begins(g, V2, v, q) <=> Begins(g, V, v, q))
                               /\ Due(V2, v) = Due(V, v)
  BY SameWorker
<1>3. /\ \A v \in Workers : \A s : Holds(V2, v, s) <=> Holds(V, v, s)
      /\ \A v \in Workers : \A s : Leaves(V2, v, s) <=> Leaves(V, v, s)
      /\ \A v \in Workers : \A s : Drops(V2, v, s) <=> Drops(V, v, s)
  BY <1>2
<1>4. \A v \in Workers : \A s : Has(V2, v, s) <=> Has(V, v, s)
  BY <1>3 DEF Has
<1>5. Dependent(g, d, c, V2) /\ \A s \in Scan(g) : IsCoded(g, c, V2, s) <=> IsCoded(g, c, V, s)
  <2>1. \A v \in Workers, s \in Scan(g) : Holds(V2, v, s) <=> Holds(V, v, s)
    BY <1>3
  <2>2. \A v \in Workers, s \in Scan(g) : Leaves(V2, v, s) <=> Leaves(V, v, s)
    BY <1>3
  <2>3. \A v \in Workers, s \in Scan(g) : Drops(V2, v, s) <=> Drops(V, v, s)
    BY <1>3
  <2> QED BY <1>1, <2>1, <2>2, <2>3, SameCarriers
<1>6. Placed(g, c, V2)
  <2> SUFFICES ASSUME NEW v \in Workers
               PROVE  /\ \A u : Has(V2, v, u) => u \in Scan(g) /\ IsTaken(g, c, u)
                      /\ \A u : Holds(V2, v, u) \/ Leaves(V2, v, u) => u = c[RowOfSeg(g, u)] - 1
                      /\ V2[v].pc = "bump" => V2[v].seg = c[V2[v].task.row]
                      /\ V2[v].pc \in {"row", "bump", "right"} => ~V2[v].again
                      /\ V2[v].pc = "right" => ~V2[v].self
                      /\ V2[v].pc = "below" => (V2[v].self <=> V2[v].again)
                      /\ V2[v].pc = "feedback" => V2[v].again /\ V2[v].from \in Scan(g)
                      /\ V2[v].pc \in {"below", "feedback"} /\ V2[v].again =>
                            V2[v].seg = V2[v].from + 1 /\ RowOfSeg(g, V2[v].seg) = RowOfSeg(g, V2[v].from)
    BY DEF Placed
  <2>1. \A u : Has(V2, v, u) => u \in Scan(g) /\ IsTaken(g, c, u)
    BY <1>1, <1>4 DEF Placed
  <2>2. \A u : Holds(V2, v, u) \/ Leaves(V2, v, u) => u = c[RowOfSeg(g, u)] - 1
    BY <1>1, <1>3 DEF Placed
  <2>3. CASE v = w
    BY <2>1, <2>2, <2>3
  <2>4. CASE v # w
    BY <1>1, <2>1, <2>2, <2>4 DEF Placed
  <2> QED BY <2>3, <2>4
<1>7. ASSUME NEW q \in Nat, IsAsked(A2, q) \/ \E v \in Workers : Begins(g, V2, v, q)
      PROVE  IsAsked(A, q) \/ (\E v \in Workers : Begins(g, V, v, q)) \/ Startable(g, d, c, V, q)
  BY <1>2, <1>7
<1>8. Ready(g, d, c, V2, A2)
  BY <1>1, <1>7 DEF Ready, Startable
<1>9. Apart(g, V2, A2)
  <2>1. \A v, u \in Workers, s \in Scan(g) : Has(V2, v, s) /\ Has(V2, u, s) => v = u
    BY <1>1, <1>4 DEF Apart
  <2>2. \A v \in Workers \ {w}, q \in Nat : ~(Begins(g, V2, v, q) /\ Begins(g, V2, w, q))
    BY <1>1, <1>2 DEF Apart, Startable
  <2>3. \A v \in Workers \ {w}, q \in Nat : ~(Begins(g, V2, v, q) /\ IsAsked(A2, q))
    BY <1>1, <1>2 DEF Apart, Startable
  <2>4. \A v, u \in Workers \ {w}, q \in Nat : Begins(g, V2, v, q) /\ Begins(g, V2, u, q) => v = u
    BY <1>1, <1>2 DEF Apart
  <2>5. \A v, u \in Workers, q \in Nat : Begins(g, V2, v, q) /\ Begins(g, V2, u, q) => v = u
    BY <2>2, <2>4
  <2>6. \A v \in Workers, q \in Nat : ~(Begins(g, V2, v, q) /\ IsAsked(A2, q))
    BY <2>3
  <2> QED BY <2>1, <2>5, <2>6 DEF Apart
<1>10. ASSUME Due(V2, w) = Due(V, w), V2[w].pc = "feedback" => V2[w].coded >= 1
       PROVE  Counted(g, c, n, tm, V2)
  <2>1. \A v \in Workers : Due(V2, v) = Due(V, v)
    BY <1>2, <1>10
  <2>2. \A v \in Workers : V2[v].pc \in {"right", "below", "feedback", "tally"} => V2[v].coded >= 1
    BY <1>1, <1>10 DEF Counted
  <2> QED BY <1>1, <1>5, <2>1, <2>2, CountedFrame
<1> QED BY <1>5, <1>6, <1>8, <1>9, <1>10 DEF Wave

\* A worker adds what it has coded to the count, and leaves.
LEMMA TallyLeaves ==
    ASSUME NEW g, IsGrid(g), NEW d, NEW c, NEW n, NEW tm, NEW V, NEW A,
           Wave(g, d, c, n, tm, V, A), NEW w \in Workers, V[w].pc = "tally", V[w].coded \in Nat,
           NEW V2, \A v \in Workers \ {w} : V2[v] = V[v], V2[w].pc = "idle"
    PROVE  /\ Wave(g, d, c, n + V[w].coded, tm, V2, A)
           /\ \A sb \in Sbs(g) : tm[sb] = Flag(IsCoded(g, c, V2, SegmentOf(g, sb)))
           /\ n + V[w].coded \in Nat /\ IsFiniteSet(Uncounted(V2))
           /\ n + V[w].coded + Cardinality(Uncounted(V2)) = Cardinality(CodedSbs(g, tm))
<1>1. Counted(g, c, n, tm, V)
  BY DEF Wave
<1>2. /\ \A s : ~Holds(V, w, s) /\ ~Holds(V2, w, s)
      /\ \A s : ~Leaves(V, w, s) /\ ~Leaves(V2, w, s)
      /\ \A s : ~Drops(V, w, s) /\ ~Drops(V2, w, s)
      /\ \A q : ~Begins(g, V2, w, q)
      /\ Due(V, w) = V[w].coded /\ Due(V2, w) = 0
  BY DEF Holds, Leaves, Drops, Begins, Due, Counting
<1>3. /\ Dependent(g, d, c, V2) /\ Placed(g, c, V2) /\ Ready(g, d, c, V2, A) /\ Apart(g, V2, A)
      /\ \A s \in Scan(g) : IsCoded(g, c, V2, s) <=> IsCoded(g, c, V, s)
  <2>1. \A s : Holds(V2, w, s) <=> Holds(V, w, s)
    BY <1>2
  <2> QED BY <1>2, <2>1, Moves
<1>4. \A sb \in Sbs(g) : tm[sb] = Flag(IsCoded(g, c, V2, SegmentOf(g, sb)))
  BY <1>1, <1>3, SbInScan DEF Counted, Flag
<1>5. PICK k \in Nat : k = V[w].coded
  OBVIOUS
<1>6. \A v \in Workers \ {w} : Due(V, v) = Due(V2, v)
  BY SameWorker
<1>7. Due(V2, w) \in Nat /\ Due(V, w) = Due(V2, w) + k
  BY <1>2, <1>5
<1>8. /\ IsFiniteSet(Uncounted(V2)) <=> IsFiniteSet(Uncounted(V))
      /\ IsFiniteSet(Uncounted(V2)) => Cardinality(Uncounted(V)) = Cardinality(Uncounted(V2)) + k
  BY <1>6, <1>7, UncountedMore
<1>9. IsFiniteSet(Uncounted(V)) /\ n \in Nat /\ n + Cardinality(Uncounted(V)) = Cardinality(CodedSbs(g, tm))
  BY <1>1 DEF Counted
<1>10. IsFiniteSet(Uncounted(V2)) /\ Cardinality(Uncounted(V)) = Cardinality(Uncounted(V2)) + k
  BY <1>8, <1>9
<1>11. Cardinality(Uncounted(V2)) \in Nat
  BY <1>10, FS_CardinalityType
<1>12. n + k \in Nat /\ n + k + Cardinality(Uncounted(V2)) = Cardinality(CodedSbs(g, tm))
  <2> DEFINE m == Cardinality(Uncounted(V2))
             e == Cardinality(CodedSbs(g, tm))
  <2>1. m \in Nat /\ n + (m + k) = e
    BY <1>9, <1>10, <1>11
  <2> HIDE DEF m, e
  <2>2. n + k \in Nat /\ n + k + m = e
    BY <1>9, <2>1
  <2> QED BY <2>2 DEF m, e
<1>13. Counted(g, c, n + k, tm, V2)
  <2>1. \A v \in Workers : V2[v].pc \in {"right", "below", "feedback", "tally"} => V2[v].coded >= 1
    BY <1>1 DEF Counted
  <2> QED BY <1>1, <1>4, <1>10, <1>12, <2>1 DEF Counted
<1> QED BY <1>3, <1>4, <1>5, <1>10, <1>12, <1>13 DEF Wave

\* The worker that reaches the total is the last one, and the picture is coded.
LEMMA TallyEnds ==
    ASSUME NEW g, IsGrid(g), NEW d, NEW c, NEW n, NEW tm, NEW V, NEW A,
           Wave(g, d, c, n, tm, V, A), Running(V, A),
           \A t \in A : t.row \in Nat, \A v \in Workers : V[v].pc \in {"row", "bump"} => V[v].task.row \in Nat,
           \A v \in Workers : V[v].coded \in Nat,
           NEW w \in Workers, V[w].pc = "tally", n + V[w].coded = g.w * g.h
    PROVE  A = {} /\ (\A v \in Workers \ {w} : V[v].pc = "idle") /\ tm = [sb \in Sbs(g) |-> 1]
<1>1. PICK V2 : (\A v \in Workers \ {w} : V2[v] = V[v]) /\ V2[w].pc = "idle"
  <2> DEFINE X == [v \in Workers |-> IF v = w THEN Idle ELSE V[v]]
  <2>1. (\A v \in Workers \ {w} : X[v] = V[v]) /\ X[w].pc = "idle"
    BY DEF Idle
  <2> HIDE DEF X
  <2> QED BY <2>1
<1> DEFINE k == V[w].coded
           U == Uncounted(V2)
           C == CodedSbs(g, tm)
<1>2. /\ Wave(g, d, c, n + k, tm, V2, A) /\ n + k \in Nat
      /\ IsFiniteSet(U) /\ n + k + Cardinality(U) = Cardinality(C)
      /\ \A sb \in Sbs(g) : tm[sb] = Flag(IsCoded(g, c, V2, SegmentOf(g, sb)))
  BY <1>1, TallyLeaves
<1>3. /\ Cardinality(C) \in Nat /\ Cardinality(C) <= g.w * g.h
      /\ Cardinality(C) = g.w * g.h => C = Sbs(g)
  BY CodedFinite
<1>4. Cardinality(U) \in Nat
  BY <1>2, FS_CardinalityType
<1>5. n + k = g.w * g.h
  OBVIOUS
<1> HIDE DEF k, U, C
<1>6. Cardinality(U) = 0 /\ Cardinality(C) = g.w * g.h
  <2>1. PICK e \in Nat : e = n + k
    BY <1>2
  <2>2. e + Cardinality(U) = Cardinality(C) /\ Cardinality(C) <= e
    BY <1>2, <1>3, <1>5, <2>1
  <2>3. Cardinality(U) = 0 /\ Cardinality(C) = e
    BY <1>3, <1>4, <2>1, <2>2
  <2> QED BY <1>5, <2>1, <2>3
<1>7. U = {}
  BY <1>2, <1>6, FS_EmptySet
<1>8. \A sb \in Sbs(g) : tm[sb] = 1 /\ IsCoded(g, c, V2, SegmentOf(g, sb))
  <2>1. \A sb \in Sbs(g) : tm[sb] = 1
    BY <1>3, <1>6 DEF C, CodedSbs
  <2> QED BY <1>2, <2>1 DEF Flag
<1>9. tm = [sb \in Sbs(g) |-> 1]
  <2>1. tm \in [Sbs(g) -> Nat]
    BY <1>2 DEF Wave, Counted
  <2> QED BY <1>8, <2>1
<1>10. \A s \in Scan(g) : IsCoded(g, c, V2, s)
  <2> SUFFICES ASSUME NEW s \in Scan(g)
               PROVE  IsCoded(g, c, V2, s)
    OBVIOUS
  <2>1. SbsOf(g, s) # {}
    BY RowHasNoGap DEF Scan, Rows, RowFirst, RowLast
  <2>2. PICK sb \in Sbs(g) : SegmentOf(g, sb) = s
    BY <2>1 DEF SbsOf
  <2> QED BY <1>8, <2>2
<1>11. Ready(g, d, c, V2, A) /\ Placed(g, c, V2) /\ Dependent(g, d, c, V2) /\ Counted(g, c, n + k, tm, V2)
  BY <1>2 DEF Wave
<1>12. ASSUME NEW q \in Nat, IsAsked(A, q) \/ \E v \in Workers : Begins(g, V2, v, q)
       PROVE  FALSE
  <2>1. q \in Rows(g) /\ c[q] <= RowLast(g, q)
    BY <1>11, <1>12 DEF Ready
  <2>2. c[q] \in RowFirst(g, q) .. RowLast(g, q) /\ c[q] \in Nat
    BY <1>11, <2>1, RowNumbers DEF Dependent
  <2>3. c[q] \in Scan(g) /\ RowOfSeg(g, c[q]) = q
    BY <2>1, <2>2, InRow
  <2>4. IsTaken(g, c, c[q])
    BY <1>10, <2>3 DEF IsCoded
  <2>5. c[q] < c[q]
    BY <2>3, <2>4 DEF IsTaken
  <2> QED BY <2>2, <2>5
<1>13. A = {}
  <2> SUFFICES ASSUME NEW t \in A
               PROVE  FALSE
    OBVIOUS
  <2>1. t.row \in Nat /\ IsAsked(A, t.row)
    BY DEF IsAsked
  <2> QED BY <1>12, <2>1
<1>14. ASSUME NEW v \in Workers \ {w}
       PROVE  V[v].pc = "idle"
  <2>1. V2[v] = V[v] /\ V[v].pc \in (Counting \cup {"idle"}) \ {"start"}
    BY <1>1 DEF Running
  <2>2. V[v].pc \notin {"row", "bump"}
    <3> SUFFICES ASSUME V[v].pc \in {"row", "bump"}
                 PROVE  FALSE
      OBVIOUS
    <3>1. V[v].task.row \in Nat /\ Begins(g, V2, v, V[v].task.row)
      BY <2>1 DEF Begins
    <3> QED BY <1>12, <3>1
  <2>3. V[v].pc # "code"
    <3> SUFFICES ASSUME V[v].pc = "code"
                 PROVE  FALSE
      OBVIOUS
    <3>1. Holds(V2, v, V[v].seg)
      BY <2>1 DEF Holds
    <3>2. V[v].seg \in Scan(g)
      BY <1>11, <3>1 DEF Placed, Has
    <3> QED BY <1>10, <3>1, <3>2 DEF IsCoded
  <2>4. V[v].pc \notin {"right", "below", "feedback", "tally"}
    <3> SUFFICES ASSUME V[v].pc \in {"right", "below", "feedback", "tally"}
                 PROVE  FALSE
      OBVIOUS
    <3>1. V2[v].coded >= 1 /\ Due(V2, v) = V[v].coded /\ V[v].coded \in Nat
      BY <1>11, <2>1 DEF Counted, Due, Counting
    <3>2. 1 \in 1 .. Due(V2, v)
      BY <2>1, <3>1
    <3>3. <<v, 1>> \in Uncounted(V2)
      BY <3>2, UncountedPairs
    <3> QED BY <1>7, <3>3 DEF U
  <2> QED BY <2>1, <2>2, <2>3, <2>4 DEF Counting
<1> QED BY <1>9, <1>13, <1>14

\* A picture whose segments are set up, and where nobody has begun, is in order.
LEMMA FreshWave ==
    ASSUME NEW g \in Grids, NEW d, NEW c, NEW n, NEW tm, NEW V, Fresh(g, d, c, n, tm),
           \A v \in Workers : V[v].pc \in {"idle", "start"} /\ Due(V, v) = 0
    PROVE  Wave(g, d, c, n, tm, V, {})
<1>1. /\ IsGrid(g)
      /\ c \in [Rows(g) -> Nat] /\ \A r \in Rows(g) : c[r] = RowFirst(g, r)
      /\ d \in [SegmentIds(g) -> 0 .. 2]
      /\ \A s \in Scan(g) : d[s] = Flag(s > RowFirst(g, RowOfSeg(g, s))) + Flag(s - g.bands \in Scan(g))
  BY FreshDependencies DEF Fresh
<1>2. /\ \A v \in Workers : \A s : ~Holds(V, v, s) /\ ~Leaves(V, v, s) /\ ~Drops(V, v, s) /\ ~Has(V, v, s)
      /\ \A v \in Workers : \A r : ~Begins(g, V, v, r)
  BY DEF Holds, Leaves, Drops, Has, Begins
<1>3. \A s \in Scan(g) : ~IsTaken(g, c, s)
  <2> SUFFICES ASSUME NEW s \in Scan(g), s < c[RowOfSeg(g, s)]
               PROVE  FALSE
    BY DEF IsTaken
  <2>1. RowOfSeg(g, s) \in Rows(g) /\ RowFirst(g, RowOfSeg(g, s)) <= s /\ s \in Nat /\ RowFirst(g, RowOfSeg(g, s)) \in Nat
    BY <1>1, ScanNumbers
  <2>2. c[RowOfSeg(g, s)] = RowFirst(g, RowOfSeg(g, s))
    BY <1>1, <2>1
  <2> QED BY <2>1, <2>2
<1>4. Dependent(g, d, c, V)
  <2>1. \A r \in Rows(g) : c[r] \in RowFirst(g, r) .. RowLast(g, r) + 1 /\ ~(c[r] > RowFirst(g, r))
    <3> TAKE r \in Rows(g)
    <3>1. c[r] = RowFirst(g, r) /\ RowFirst(g, r) \in Nat /\ RowLast(g, r) \in Nat /\ RowFirst(g, r) <= RowLast(g, r)
      BY <1>1, RowNumbers
    <3> QED BY <3>1
  <2>2. \A s \in Scan(g) : /\ WaitsLeft(g, c, V, s) <=> s > RowFirst(g, RowOfSeg(g, s))
                           /\ WaitsAbove(g, c, V, s) <=> s - g.bands \in Scan(g)
    BY <1>1, <1>3, ScanLeft DEF WaitsLeft, WaitsAbove, RightDone, BelowDone
  <2>3. \A s \in Scan(g) : d[s] = Flag(WaitsLeft(g, c, V, s)) + Flag(WaitsAbove(g, c, V, s))
    BY <1>1, <2>2 DEF Flag
  <2> QED BY <1>1, <1>3, <2>1, <2>3 DEF Dependent
<1>5. Placed(g, c, V)
  <2>1. \A v \in Workers : V[v].pc \notin {"row", "bump", "right", "below", "feedback"}
    OBVIOUS
  <2> QED BY <1>2, <2>1 DEF Placed
<1>6. \A r : ~IsAsked({}, r)
  BY DEF IsAsked
<1>7. Ready(g, d, c, V, {}) /\ Apart(g, V, {})
  BY <1>2, <1>6 DEF Ready, Apart
<1>8. Counted(g, c, n, tm, V)
  <2>1. Uncounted(V) = {}
    <3> SUFFICES ASSUME NEW x \in Uncounted(V)
                 PROVE  FALSE
      OBVIOUS
    <3>1. PICK v \in Workers : \E i \in 1 .. Due(V, v) : x = <<v, i>>
      BY UncountedPairs
    <3>2. Due(V, v) = 0
      OBVIOUS
    <3> QED BY <3>1, <3>2
  <2>2. n = 0 /\ tm = [sb \in Sbs(g) |-> 0]
    BY DEF Fresh, NoneCoded
  <2>3. CodedSbs(g, tm) = {}
    BY <2>2 DEF CodedSbs
  <2>4. IsFiniteSet({}) /\ Cardinality({}) = 0
    BY FS_EmptySet
  <2>5. \A sb \in Sbs(g) : tm[sb] = Flag(IsCoded(g, c, V, SegmentOf(g, sb)))
    <3> TAKE sb \in Sbs(g)
    <3>1. ~IsCoded(g, c, V, SegmentOf(g, sb))
      BY <1>1, <1>3, SbInScan DEF IsCoded
    <3> QED BY <2>2, <3>1 DEF Flag
  <2>6. n + Cardinality({}) = Cardinality({}) /\ n \in Nat
    BY <2>2, <2>4
  <2>7. n + Cardinality(Uncounted(V)) = Cardinality(CodedSbs(g, tm)) /\ IsFiniteSet(Uncounted(V))
    BY <2>1, <2>3, <2>4, <2>6
  <2>8. tm \in [Sbs(g) -> Nat]
    BY <2>2
  <2>9. \A v \in Workers : V[v].pc \notin {"right", "below", "feedback", "tally"}
    OBVIOUS
  <2> QED BY <2>5, <2>6, <2>7, <2>8, <2>9 DEF Counted
<1> QED BY <1>4, <1>5, <1>7, <1>8 DEF Wave

\* A segment that was taken waits for nothing: what comes before it in its row, and
\* in the row above up to the segment above it, is coded.
LEMMA EarlierIsCoded ==
    ASSUME NEW g, IsGrid(g), NEW d, NEW c, NEW V, Dependent(g, d, c, V), Placed(g, c, V),
           NEW s \in Scan(g), IsTaken(g, c, s), NEW t \in Scan(g),
           \/ RowOfSeg(g, t) = RowOfSeg(g, s) /\ t < s
           \/ RowOfSeg(g, s) = RowOfSeg(g, t) + 1 /\ t <= s - g.bands
    PROVE  IsCoded(g, c, V, t)
<1> DEFINE q == RowOfSeg(g, s)
           p == RowOfSeg(g, t)
<1>1. /\ s \in Nat /\ q \in Rows(g) /\ q \in Nat /\ RowFirst(g, q) \in Nat /\ RowLast(g, q) \in Nat
      /\ RowFirst(g, q) <= s /\ s <= RowLast(g, q)
      /\ t \in Nat /\ p \in Rows(g) /\ p \in Nat /\ RowFirst(g, p) \in Nat /\ RowLast(g, p) \in Nat
      /\ RowFirst(g, p) <= t /\ t <= RowLast(g, p) /\ g.bands \in Nat \ {0}
  BY ScanNumbers
<1>2. c[q] \in Nat /\ c[p] \in Nat /\ s < c[q]
  BY <1>1 DEF Dependent, IsTaken
<1>3. \A v \in Workers : Holds(V, v, t) => t = c[p] - 1
  BY DEF Placed
<1>4. ASSUME c[p] > t + 1
      PROVE  IsCoded(g, c, V, t)
  <2>1. \A v \in Workers : ~Holds(V, v, t)
    <3> HIDE DEF p, q
    <3> QED BY <1>1, <1>2, <1>3, <1>4
  <2>2. t < c[p]
    <3> HIDE DEF p, q
    <3> QED BY <1>1, <1>2, <1>4
  <2> QED BY <2>1, <2>2 DEF IsCoded, IsTaken
<1>5. ASSUME NEW z \in Scan(g), RowOfSeg(g, z) = p, z + g.bands <= s, z + g.bands \in Scan(g),
             RowOfSeg(g, z + g.bands) = q
      PROVE  BelowDone(g, c, V, z) /\ c[p] > z
  <2>1. PICK x : x = z + g.bands
    OBVIOUS
  <2>2. z \in Nat
    BY ScanNumbers
  <2>3. x \in Scan(g) /\ x - g.bands = z /\ x < c[q] /\ RowOfSeg(g, x) = q
    <3> HIDE DEF p, q
    <3> QED BY <1>1, <1>2, <1>5, <2>1, <2>2
  <2>4. IsTaken(g, c, x)
    BY <2>3 DEF IsTaken
  <2> DEFINE l == Flag(WaitsLeft(g, c, V, x))
             a == Flag(WaitsAbove(g, c, V, x))
  <2>5. l + a = 0 /\ l \in {0, 1} /\ a \in {0, 1}
    BY <2>3, <2>4 DEF Dependent, Flag
  <2>6. a = 0
    <3> HIDE DEF l, a
    <3> QED BY <2>5
  <2>7. ~WaitsAbove(g, c, V, x)
    BY <2>6 DEF Flag
  <2>8. BelowDone(g, c, V, z)
    BY <2>3, <2>7 DEF WaitsAbove
  <2>9. z < c[p]
    BY <1>5, <2>8 DEF BelowDone, IsTaken
  <2> QED BY <1>2, <2>2, <2>8, <2>9
<1>6. CASE p = q /\ t < s
  <2>1. c[p] > t + 1
    <3>1. c[p] = c[q]
      BY <1>6
    <3> HIDE DEF p, q
    <3> QED BY <1>1, <1>2, <1>6, <3>1
  <2> QED BY <1>4, <2>1
<1>7. CASE q = p + 1 /\ t <= s - g.bands
  <2> DEFINE e == RowLast(g, p)
             k == s - g.bands
             z == IF k <= e THEN k ELSE e
  <2>1. z \in Nat /\ t <= z /\ z <= e /\ z + g.bands <= s /\ (k <= e => z = k) /\ (~(k <= e) => z = e)
    <3> HIDE DEF p, q
    <3> QED BY <1>1, <1>7
  <2>2. z \in Scan(g) /\ RowOfSeg(g, z) = p
    <3>1. z \in RowFirst(g, p) .. RowLast(g, p)
      <4> HIDE DEF p, q, z
      <4> QED BY <1>1, <2>1
    <3> HIDE DEF p, q, z
    <3> QED BY <1>1, <3>1, InRow
  <2>3. z + g.bands \in Scan(g) /\ RowOfSeg(g, z + g.bands) = q
    <3>1. CASE k <= e
      <4>1. z + g.bands = s
        <5> HIDE DEF p, q
        <5> QED BY <1>1, <2>1, <3>1
      <4> QED BY <4>1
    <3>2. CASE ~(k <= e)
      <4> DEFINE f == RowFirst(g, q) - g.bands
      <4>1. z = e /\ e + g.bands < s
        <5> HIDE DEF p, q
        <5> QED BY <1>1, <2>1, <3>2
      <4>2. c[q] > RowFirst(g, q)
        <5> HIDE DEF p, q
        <5> QED BY <1>1, <1>2
      <4>3. Reached(g, q)
        BY <1>1, <4>2 DEF Dependent
      <4>4. f \in Scan(g)
        <5>1. q # 0
          <6> HIDE DEF p, q
          <6> QED BY <1>1, <1>7
        <5> QED BY <4>3, <5>1 DEF Reached
      <4>5. f \in Nat /\ f <= RowLast(g, RowOfSeg(g, f)) /\ RowOfSeg(g, f) \in Nat /\ f + g.bands = RowFirst(g, q)
        <5>1. f \in Nat /\ f <= RowLast(g, RowOfSeg(g, f)) /\ RowOfSeg(g, f) \in Nat
          BY <4>4, ScanNumbers
        <5>2. f + g.bands = RowFirst(g, q)
          <6> HIDE DEF q
          <6> QED BY <1>1
        <5> QED BY <5>1, <5>2
      <4>6. RowOfSeg(g, f) = p
        <5>1. RowOfSeg(g, RowFirst(g, q)) = q /\ RowFirst(g, q) \in Scan(g)
          <6> HIDE DEF q
          <6> QED BY <1>1, RowNumbers
        <5>2. RowOfSeg(g, f + g.bands) = RowOfSeg(g, f) + 1
          <6> HIDE DEF f
          <6> QED BY <4>5, RowBelow
        <5>3. q = RowOfSeg(g, f) + 1
          BY <4>5, <5>1, <5>2
        <5> HIDE DEF p, q, f
        <5> QED BY <1>1, <1>7, <4>5, <5>3
      <4>7. f <= e
        BY <4>5, <4>6
      <4>8. z + g.bands \in RowFirst(g, q) .. RowLast(g, q)
        <5> HIDE DEF p, q, f, z, k, e
        <5>1. z + g.bands >= RowFirst(g, q) /\ z + g.bands <= RowLast(g, q)
          <6>1. e \in Nat
            BY <1>1 DEF e
          <6> QED BY <1>1, <2>1, <4>1, <4>5, <4>7, <6>1
        <5> QED BY <1>1, <2>1, <5>1
      <4> HIDE DEF p, q, z
      <4> QED BY <1>1, <4>8, InRow
    <3> QED BY <3>1, <3>2
  <2> HIDE DEF z
  <2>4. BelowDone(g, c, V, z) /\ c[p] > z
    BY <1>5, <2>1, <2>2, <2>3
  <2>5. CASE t = z
    BY <2>4, <2>5 DEF BelowDone, IsCoded, Has
  <2>6. CASE t # z
    <3>1. c[p] > t + 1
      <4> HIDE DEF p, q
      <4> QED BY <1>1, <1>2, <2>1, <2>4, <2>6
    <3> QED BY <1>4, <3>1
  <2> QED BY <2>5, <2>6
<1> QED BY <1>6, <1>7

-----------------------------------------------------------------------------
(* The passes of a picture.                                                 *)

\* What a worker does, or a task asks for, tells where the picture is.
LEMMA Modes ==
    ASSUME NEW st, NEW rt, NEW g, NEW d, NEW c, NEW n, NEW tm, NEW V, NEW A,
           PictureOK(st, rt, g, d, c, n, tm, V, A)
    PROVE  /\ \A w \in Workers : V[w].pc \in Counting \ {"start"} =>
                 st = "encdec" /\ Running(V, A) /\ Wave(g, d, c, n, tm, V, A)
           /\ \A w \in Workers : V[w].pc \in {"start", "repost"} =>
                 /\ st = "encdec" /\ Alone(w, {"start", "repost"}, V, A) /\ Due(V, w) = 0
                 /\ Fresh(g, d, c, n, tm)
           /\ \A w \in Workers : V[w].pc \in {"renew"} => st = "encdec" /\ Alone(w, {"renew"}, V, A) /\ Stale(g, d, tm)
           /\ \A w \in Workers : V[w].pc \in {"last"} => st = "encdec" /\ Alone(w, {"last"}, V, A) /\ Whole(g, d, tm)
           /\ \A t \in A : t.type = "ENCDEC" => st = "encdec" /\ Running(V, A) /\ Wave(g, d, c, n, tm, V, A)
           /\ \A t \in A : t.type = "MDC" => st = "encdec" /\ Queued("MDC", V, A) /\ A = {t} /\ Fresh(g, d, c, n, tm)
           /\ \A t \in A : t.type = "SUPERRES" => st = "encdec" /\ Queued("SUPERRES", V, A) /\ A = {t} /\ Stale(g, d, tm)
           /\ st = "mdc" => /\ Quiet(V, A)
                            /\ rt = TRUE => Stale(g, d, tm)
                            /\ rt = FALSE => Fresh(g, d, c, n, tm)
           /\ st = "results" => Quiet(V, A) /\ Whole(g, d, tm)
<1>1. CASE st = "mdc" /\ Quiet(V, A) /\ (rt = TRUE => Stale(g, d, tm)) /\ (rt = FALSE => Fresh(g, d, c, n, tm))
  BY <1>1 DEF Quiet, Counting
<1>2. CASE st = "encdec" /\ Queued("SUPERRES", V, A) /\ Stale(g, d, tm)
  BY <1>2 DEF Queued, Counting
<1>3. CASE st = "encdec" /\ (\E w \in Workers : Alone(w, {"renew"}, V, A)) /\ Stale(g, d, tm)
  BY <1>3 DEF Alone, Counting
<1>4. CASE st = "encdec" /\ Queued("MDC", V, A) /\ Fresh(g, d, c, n, tm)
  BY <1>4 DEF Queued, Counting
<1>5. CASE /\ st = "encdec" /\ \E w \in Workers : Alone(w, {"start", "repost"}, V, A) /\ Due(V, w) = 0
           /\ Fresh(g, d, c, n, tm)
  BY <1>5 DEF Alone, Counting
<1>6. CASE st = "encdec" /\ Running(V, A) /\ Wave(g, d, c, n, tm, V, A)
  BY <1>6 DEF Running, Counting
<1>7. CASE st = "encdec" /\ (\E w \in Workers : Alone(w, {"last"}, V, A)) /\ Whole(g, d, tm)
  BY <1>7 DEF Alone, Counting
<1>8. CASE st = "results" /\ Quiet(V, A) /\ Whole(g, d, tm)
  BY <1>8 DEF Quiet, Counting
<1> QED BY <1>1, <1>2, <1>3, <1>4, <1>5, <1>6, <1>7, <1>8 DEF PictureOK

\* The same for one worker.
LEMMA ModeOfWorker ==
    ASSUME NEW st, NEW rt, NEW g \in Grids, NEW d, NEW c, NEW n, NEW tm, NEW V, NEW A,
           PictureOK(st, rt, g, d, c, n, tm, V, A), NEW w \in Workers
    PROVE  /\ V[w].pc \in Counting \ {"start"} => st = "encdec" /\ Running(V, A) /\ Wave(g, d, c, n, tm, V, A)
           /\ V[w].pc \in {"start", "repost"} =>
                 /\ st = "encdec" /\ Alone(w, {"start", "repost"}, V, A) /\ Due(V, w) = 0
                 /\ Fresh(g, d, c, n, tm)
           /\ V[w].pc \in {"renew"} => st = "encdec" /\ Alone(w, {"renew"}, V, A) /\ Stale(g, d, tm)
           /\ V[w].pc \in {"last"} => st = "encdec" /\ Alone(w, {"last"}, V, A) /\ Whole(g, d, tm)
           /\ IsGrid(g)
<1>1. V[w].pc \in Counting \ {"start"} => st = "encdec" /\ Running(V, A) /\ Wave(g, d, c, n, tm, V, A)
  BY Modes
<1>2. V[w].pc \in {"start", "repost"} => /\ st = "encdec" /\ Alone(w, {"start", "repost"}, V, A) /\ Due(V, w) = 0
                                         /\ Fresh(g, d, c, n, tm)
  BY Modes
<1>3. V[w].pc \in {"renew"} => st = "encdec" /\ Alone(w, {"renew"}, V, A) /\ Stale(g, d, tm)
  <2> SUFFICES ASSUME V[w].pc = "renew"
               PROVE  st = "encdec" /\ Alone(w, {"renew"}, V, A) /\ Stale(g, d, tm)
    OBVIOUS
  <2>1. /\ ~Quiet(V, A) /\ ~Queued("SUPERRES", V, A) /\ ~Queued("MDC", V, A) /\ ~Running(V, A)
        /\ \A v \in Workers : ~Alone(v, {"start", "repost"}, V, A) /\ ~Alone(v, {"last"}, V, A)
        /\ \A v \in Workers : Alone(v, {"renew"}, V, A) => v = w
    BY DEF Quiet, Queued, Running, Counting, Alone
  <2>2. st = "encdec" /\ (\E v \in Workers : Alone(v, {"renew"}, V, A)) /\ Stale(g, d, tm)
    BY <2>1 DEF PictureOK
  <2> QED BY <2>1, <2>2
<1>4. V[w].pc \in {"last"} => st = "encdec" /\ Alone(w, {"last"}, V, A) /\ Whole(g, d, tm)
  BY Modes
<1>5. IsGrid(g)
  BY FreshDependencies
<1> QED BY <1>1, <1>2, <1>3, <1>4, <1>5

-----------------------------------------------------------------------------
(* Workers and tasks.                                                       *)

\* A worker that moves changes the view of the picture that it serves.
LEMMA Views ==
    ASSUME NEW W, NEW W2, NEW w \in Workers, \A v \in Workers \ {w} : W2[v] = W[v], NEW p
    PROVE  /\ \A v \in Workers \ {w} : ViewOf(W2, p)[v] = ViewOf(W, p)[v]
           /\ Serves(W[w], p) => ViewOf(W, p)[w] = W[w]
           /\ ~Serves(W[w], p) => ViewOf(W, p)[w] = Idle
           /\ Serves(W2[w], p) => ViewOf(W2, p)[w] = W2[w]
           /\ ~Serves(W2[w], p) => ViewOf(W2, p)[w] = Idle
<1>1. /\ \A v \in Workers : ViewOf(W2, p)[v] = IF Serves(W2[v], p) THEN W2[v] ELSE Idle
      /\ \A v \in Workers : ViewOf(W, p)[v] = IF Serves(W[v], p) THEN W[v] ELSE Idle
  BY DEF ViewOf
<1> QED BY <1>1

\* One that serves another picture, or none, changes nothing.
LEMMA SameView ==
    ASSUME NEW W, NEW W2, NEW w \in Workers, \A v \in Workers \ {w} : W2[v] = W[v],
           NEW p, ~Serves(W[w], p), ~Serves(W2[w], p)
    PROVE  ViewOf(W2, p) = ViewOf(W, p)
  BY DEF ViewOf

\* The tasks of a picture are those in the queue.
LEMMA AskedIs ==
    ASSUME NEW q \in Seq(Tasks), NEW p
    PROVE  \A t : t \in AskedOf(q, p) <=> t.pic = p /\ \E i \in 1 .. Len(q) : q[i] = t
  BY DEF AskedOf

\* A task is posted.
LEMMA AskedPost ==
    ASSUME NEW q \in Seq(Tasks), NEW t \in Tasks, NEW p
    PROVE  /\ Append(q, t) \in Seq(Tasks) /\ Len(Append(q, t)) = Len(q) + 1
           /\ t.pic = p => AskedOf(Append(q, t), p) = AskedOf(q, p) \cup {t}
           /\ t.pic # p => AskedOf(Append(q, t), p) = AskedOf(q, p)
<1> DEFINE a == Append(q, t)
<1>1. a \in Seq(Tasks) /\ Len(a) = Len(q) + 1 /\ Len(q) \in Nat
      /\ a[Len(q) + 1] = t /\ \A i \in 1 .. Len(q) : a[i] = q[i]
  OBVIOUS
<1> HIDE DEF a
<1>2. \A i : i \in 1 .. Len(a) <=> i \in 1 .. Len(q) \/ i = Len(q) + 1
  BY <1>1
<1>3. \A u : u \in AskedOf(a, p) <=> u \in AskedOf(q, p) \/ (u = t /\ t.pic = p)
  BY <1>1, <1>2, AskedIs
<1>4. /\ t.pic = p => AskedOf(a, p) = AskedOf(q, p) \cup {t}
      /\ t.pic # p => AskedOf(a, p) = AskedOf(q, p)
  BY <1>3
<1> QED BY <1>1, <1>4 DEF a

\* A task is taken.
LEMMA AskedTake ==
    ASSUME NEW q \in Seq(Tasks), q # << >>, \A i, j \in DOMAIN q : q[i] = q[j] => i = j, NEW p
    PROVE  /\ Tail(q) \in Seq(Tasks) /\ Head(q) \in Tasks /\ Len(q) = Len(Tail(q)) + 1
           /\ \A i, j \in DOMAIN Tail(q) : Tail(q)[i] = Tail(q)[j] => i = j
           /\ Head(q).pic = p => AskedOf(Tail(q), p) = AskedOf(q, p) \ {Head(q)} /\ Head(q) \in AskedOf(q, p)
           /\ Head(q).pic # p => AskedOf(Tail(q), p) = AskedOf(q, p)
<1> DEFINE a == Tail(q)
           t == Head(q)
<1>1. /\ a \in Seq(Tasks) /\ t \in Tasks /\ Len(q) \in Nat /\ Len(q) >= 1 /\ Len(a) = Len(q) - 1 /\ q[1] = t
      /\ \A i \in 1 .. Len(a) : a[i] = q[i + 1] /\ i + 1 \in 1 .. Len(q)
      /\ DOMAIN q = 1 .. Len(q) /\ DOMAIN a = 1 .. Len(a)
  OBVIOUS
<1> HIDE DEF a, t
<1>2. \A i \in 1 .. Len(q) : i = 1 \/ (i - 1 \in 1 .. Len(a) /\ a[i - 1] = q[i])
  <2> TAKE i \in 1 .. Len(q)
  <2>1. CASE i # 1
    <3>1. i - 1 \in 1 .. Len(a) /\ i - 1 + 1 = i
      BY <1>1, <2>1
    <3> QED BY <1>1, <3>1
  <2> QED BY <2>1
<1>3. \A i \in 1 .. Len(a) : a[i] # t
  <2> TAKE i \in 1 .. Len(a)
  <2>1. i + 1 # 1 /\ 1 \in 1 .. Len(q)
    BY <1>1
  <2> QED BY <1>1, <2>1
<1>4. \A u : u \in AskedOf(a, p) <=> u \in AskedOf(q, p) /\ u # t
  <2> TAKE u
  <2>1. u \in AskedOf(a, p) => u \in AskedOf(q, p) /\ u # t
    BY <1>1, <1>3, AskedIs
  <2>2. u \in AskedOf(q, p) /\ u # t => u \in AskedOf(a, p)
    <3> SUFFICES ASSUME u \in AskedOf(q, p), u # t
                 PROVE  u.pic = p /\ \E i \in 1 .. Len(a) : a[i] = u
      BY <1>1, AskedIs
    <3>1. PICK j \in 1 .. Len(q) : q[j] = u /\ u.pic = p
      BY AskedIs
    <3>2. j - 1 \in 1 .. Len(a) /\ a[j - 1] = u
      BY <1>1, <1>2, <3>1
    <3> QED BY <3>1, <3>2
  <2> QED BY <2>1, <2>2
<1>5. \A i, j \in DOMAIN a : a[i] = a[j] => i = j
  <2> TAKE i, j \in DOMAIN a
  <2>1. a[i] = a[j] => i + 1 = j + 1
    BY <1>1
  <2> QED BY <1>1, <2>1
<1>6. t.pic = p => t \in AskedOf(q, p)
  BY <1>1, AskedIs
<1>7. t.pic # p => t \notin AskedOf(q, p)
  BY AskedIs
<1>8. /\ t.pic = p => AskedOf(a, p) = AskedOf(q, p) \ {t} /\ t \in AskedOf(q, p)
      /\ t.pic # p => AskedOf(a, p) = AskedOf(q, p)
  BY <1>4, <1>6, <1>7
<1>9. Len(q) = Len(a) + 1
  BY <1>1
<1> QED BY <1>1, <1>5, <1>8, <1>9 DEF a, t

-----------------------------------------------------------------------------
(* The steps of a worker, as its picture sees them.                         *)

\* The first segment of the picture waits for nothing.
LEMMA FirstIsReady ==
    ASSUME NEW g \in Grids
    PROVE  /\ IsGrid(g) /\ 0 \in Rows(g) /\ Reached(g, 0) /\ First[g][0] = RowFirst(g, 0)
           /\ RowFirst(g, 0) \in Nat /\ RowLast(g, 0) \in Nat
           /\ RowFirst(g, 0) <= RowLast(g, 0) /\ InitialDep[g][RowFirst(g, 0)] = 0
<1>1. IsGrid(g) /\ 0 \in Rows(g) /\ Reached(g, 0)
  BY FreshDependencies, GridNumbers DEF Rows, Reached
<1>2. /\ First[g][0] = RowFirst(g, 0) /\ RowFirst(g, 0) \in Nat /\ RowLast(g, 0) \in Nat
      /\ RowFirst(g, 0) <= RowLast(g, 0) /\ RowFirst(g, 0) \in Scan(g) /\ RowOfSeg(g, RowFirst(g, 0)) = 0
  BY <1>1, FreshDependencies, RowNumbers
<1> DEFINE s == RowFirst(g, 0)
<1>3. InitialDep[g][s] = Flag(s > RowFirst(g, RowOfSeg(g, s))) + Flag(s - g.bands \in Scan(g))
  BY <1>2, FreshDependencies
<1>4. ~(s > RowFirst(g, RowOfSeg(g, s)))
  BY <1>2
<1>5. s - g.bands \notin Scan(g)
  <2> SUFFICES ASSUME s - g.bands \in Scan(g)
               PROVE  FALSE
    OBVIOUS
  <2>1. RowOfSeg(g, s) = RowOfSeg(g, s - g.bands) + 1
    BY <1>1, <1>2, ScanAbove
  <2> DEFINE k == RowOfSeg(g, s - g.bands)
  <2>2. k \in Nat /\ 0 = k + 1
    BY <1>1, <1>2, <2>1, ScanNumbers
  <2> HIDE DEF k
  <2> QED BY <2>2
<1>6. InitialDep[g][s] = 0
  BY <1>3, <1>4, <1>5 DEF Flag
<1> QED BY <1>1, <1>2, <1>6

\* A picture is begun.
LEMMA StartStep ==
    ASSUME NEW st, NEW rt, NEW g \in Grids, NEW d, NEW c, NEW n, NEW tm, NEW V, NEW A,
           PictureOK(st, rt, g, d, c, n, tm, V, A), NEW w \in Workers, V[w].pc = "start",
           NEW V2, \A v \in Workers \ {w} : V2[v] = V[v],
           V2[w].pc = "code", V2[w].seg = First[g][0], V2[w].coded = V[w].coded,
           NEW c2, c2 = [First[g] EXCEPT ![0] = @ + 1]
    PROVE  PictureOK(st, rt, g, d, c2, n, tm, V2, A)
<1>1. st = "encdec" /\ Alone(w, {"start", "repost"}, V, A) /\ Due(V, w) = 0 /\ Fresh(g, d, c, n, tm)
  BY ModeOfWorker
<1>2. A = {} /\ \A v \in Workers \ {w} : V[v].pc = "idle"
  BY <1>1 DEF Alone
<1>3. \A v \in Workers : V[v].pc \in {"idle", "start"} /\ Due(V, v) = 0
  BY <1>1, <1>2 DEF Due, Counting
<1>4. Wave(g, d, c, n, tm, V, A)
  BY <1>1, <1>2, <1>3, FreshWave
<1>5. /\ IsGrid(g) /\ 0 \in Rows(g) /\ Reached(g, 0) /\ c[0] = First[g][0] /\ c[0] <= RowLast(g, 0) /\ d[c[0]] = 0
      /\ c2 = [c EXCEPT ![0] = @ + 1]
  BY <1>1, FirstIsReady DEF Fresh
<1>6. /\ \A s : ~Holds(V, w, s) /\ ~Leaves(V, w, s)
      /\ \A s : Holds(V2, w, s) <=> s = c[0]
      /\ \A s : ~Leaves(V2, w, s)
      /\ \A s : Drops(V2, w, s) <=> Drops(V, w, s)
      /\ \A q : ~Begins(g, V2, w, q)
      /\ Due(V2, w) = Due(V, w)
  BY <1>5 DEF Holds, Leaves, Drops, Begins, Due, Counting
<1>7. ~IsAsked(A, 0) /\ \A v \in Workers \ {w} : ~Begins(g, V, v, 0)
  BY <1>2 DEF IsAsked, Begins
<1>8. Wave(g, d, c2, n, tm, V2, A)
  <2>1. V2[w].pc \in {"code", "below"} /\ V2[w].pc # "below"
    OBVIOUS
  <2> QED BY <1>4, <1>5, <1>6, <1>7, <2>1, TakeSegment
<1>9. Running(V2, A)
  BY <1>2 DEF Running, Counting
<1> QED BY <1>1, <1>8, <1>9 DEF PictureOK

\* A row is begun: its current segment is read ...
LEMMA RowStep ==
    ASSUME NEW st, NEW rt, NEW g \in Grids, NEW d, NEW c, NEW n, NEW tm, NEW V, NEW A,
           PictureOK(st, rt, g, d, c, n, tm, V, A), NEW w \in Workers, V[w].pc = "row",
           V[w].task.row \in Nat,
           NEW V2, \A v \in Workers \ {w} : V2[v] = V[v],
           V2[w].pc = "bump", V2[w].seg = c[V[w].task.row], V2[w].task = V[w].task,
           V2[w].again = V[w].again, V2[w].coded = V[w].coded
    PROVE  /\ PictureOK(st, rt, g, d, c, n, tm, V2, A)
           /\ V[w].task.row \in Rows(g) /\ c \in [Rows(g) -> Nat]
<1>1. st = "encdec" /\ Running(V, A) /\ Wave(g, d, c, n, tm, V, A) /\ IsGrid(g)
  <2>1. V[w].pc \in Counting \ {"start"}
    BY DEF Counting
  <2> QED BY <2>1, ModeOfWorker
<1>2. /\ \A s : Holds(V2, w, s) <=> Holds(V, w, s)
      /\ \A s : ~Leaves(V, w, s) /\ ~Leaves(V2, w, s)
      /\ \A s : ~Drops(V, w, s) /\ ~Drops(V2, w, s)
      /\ \A q : Begins(g, V2, w, q) <=> Begins(g, V, w, q)
      /\ Due(V2, w) = Due(V, w)
  BY DEF Holds, Leaves, Drops, Begins, Due, Counting
<1>3. /\ \A q \in Nat : ~(IsAsked(A, q) /\ Begins(g, V2, w, q))
      /\ ~V2[w].again
  BY <1>1, <1>2 DEF Wave, Apart, Placed
<1>4. Wave(g, d, c, n, tm, V2, A)
  <2>1. /\ \A q \in Nat : IsAsked(A, q) => IsAsked(A, q) \/ Begins(g, V, w, q) \/ Startable(g, d, c, V, q)
        /\ \A q \in Nat : Begins(g, V2, w, q) => IsAsked(A, q) \/ Begins(g, V, w, q) \/ Startable(g, d, c, V, q)
    BY <1>2
  <2>2. V2[w].pc \in {"idle", "row", "bump", "code", "feedback"} /\ V2[w].pc # "feedback" /\ V2[w].seg = c[V2[w].task.row]
    OBVIOUS
  <2> QED BY <1>1, <1>2, <1>3, <2>1, <2>2, Moves
<1>5. Running(V2, A)
  BY <1>1 DEF Running, Counting
<1>6. V[w].task.row \in Rows(g) /\ c \in [Rows(g) -> Nat]
  BY <1>1 DEF Wave, Ready, Begins, Dependent
<1> QED BY <1>1, <1>4, <1>5, <1>6 DEF PictureOK

\* ... and incremented.
LEMMA BumpStep ==
    ASSUME NEW st, NEW rt, NEW g \in Grids, NEW d, NEW c, NEW n, NEW tm, NEW V, NEW A,
           PictureOK(st, rt, g, d, c, n, tm, V, A), NEW w \in Workers, V[w].pc = "bump",
           V[w].task.row \in Nat,
           NEW V2, \A v \in Workers \ {w} : V2[v] = V[v],
           V2[w].pc = "code", V2[w].seg = V[w].seg, V2[w].coded = V[w].coded,
           NEW c2, V[w].task.row \in Nat => c2 = [c EXCEPT ![V[w].task.row] = @ + 1]
    PROVE  /\ PictureOK(st, rt, g, d, c2, n, tm, V2, A)
           /\ V[w].task.row \in Rows(g) /\ c \in [Rows(g) -> Nat]
<1>1. st = "encdec" /\ Running(V, A) /\ Wave(g, d, c, n, tm, V, A) /\ IsGrid(g)
  <2>1. V[w].pc \in Counting \ {"start"}
    BY DEF Counting
  <2> QED BY <2>1, ModeOfWorker
<1>2. PICK r : r = V[w].task.row
  OBVIOUS
<1>3. Begins(g, V, w, r)
  BY <1>2 DEF Begins
<1>4. /\ r \in Rows(g) /\ Reached(g, r) /\ c[r] <= RowLast(g, r) /\ d[c[r]] = 0
      /\ ~IsAsked(A, r) /\ \A v \in Workers \ {w} : ~Begins(g, V, v, r)
      /\ V[w].seg = c[r] /\ c \in [Rows(g) -> Nat]
  BY <1>1, <1>2, <1>3 DEF Wave, Ready, Apart, Placed, Dependent
<1>5. /\ \A s : ~Holds(V, w, s) /\ ~Leaves(V, w, s)
      /\ \A s : Holds(V2, w, s) <=> s = c[r]
      /\ \A s : ~Leaves(V2, w, s)
      /\ \A s : Drops(V2, w, s) <=> Drops(V, w, s)
      /\ \A q : ~Begins(g, V2, w, q)
      /\ Due(V2, w) = Due(V, w)
  BY <1>4 DEF Holds, Leaves, Drops, Begins, Due, Counting
<1>6. Wave(g, d, c2, n, tm, V2, A)
  <2>1. /\ V2[w].pc \in {"code", "below"}
        /\ V2[w].pc = "below" => /\ V2[w].self /\ V2[w].again /\ V2[w].coded >= 1
                                 /\ V2[w].seg = V2[w].from + 1
                                 /\ RowOfSeg(g, V2[w].seg) = RowOfSeg(g, V2[w].from)
    OBVIOUS
  <2>2. PICK k : k = [c EXCEPT ![r] = @ + 1]
    OBVIOUS
  <2>3. Wave(g, d, k, n, tm, V2, A)
    <3>1. \A v \in Workers \ {w} : V2[v] = V[v]
      OBVIOUS
    <3> QED BY ONLY w \in Workers, <1>1, <1>4, <1>5, <2>1, <2>2, <3>1, TakeSegment
  <2> QED BY <1>2, <1>4, <2>2, <2>3 DEF Rows
<1>7. Running(V2, A)
  BY <1>1 DEF Running, Counting
<1> QED BY <1>1, <1>2, <1>4, <1>6, <1>7 DEF PictureOK

\* The segment that a worker is to code has SBs.
LEMMA HeldSegment ==
    ASSUME NEW st, NEW rt, NEW g \in Grids, NEW d, NEW c, NEW n, NEW tm, NEW V, NEW A,
           PictureOK(st, rt, g, d, c, n, tm, V, A), NEW w \in Workers, V[w].pc = "code"
    PROVE  /\ st = "encdec" /\ Running(V, A) /\ Wave(g, d, c, n, tm, V, A) /\ IsGrid(g)
           /\ V[w].seg \in Scan(g) /\ Valid[g][V[w].seg] \in Nat /\ tm \in [Sbs(g) -> Nat]
<1>1. st = "encdec" /\ Running(V, A) /\ Wave(g, d, c, n, tm, V, A) /\ IsGrid(g)
  <2>1. V[w].pc \in Counting \ {"start"}
    BY DEF Counting
  <2> QED BY <2>1, ModeOfWorker
<1>2. V[w].seg \in Scan(g) /\ tm \in [Sbs(g) -> Nat]
  BY <1>1 DEF Wave, Placed, Has, Holds, Counted
<1> QED BY <1>1, <1>2, FreshDependencies

\* The SBs that are swept are coded once more.
SweptOnce(g, s, tm) == [sb \in DOMAIN tm |-> tm[sb] + Flag(sb \in Swept(g, s))]

\* They are those of the segment.
LEMMA SweptCounts ==
    ASSUME NEW g \in Grids, NEW s \in Scan(g), NEW tm \in [Sbs(g) -> Nat]
    PROVE  /\ SweptOnce(g, s, tm) \in [Sbs(g) -> Nat] /\ Valid[g][s] = ValidSbCount(g, s)
           /\ \A sb \in Sbs(g) : SweptOnce(g, s, tm)[sb] = tm[sb] + Flag(sb \in SbsOf(g, s))
<1>1. Swept(g, s) = SbsOf(g, s) /\ Valid[g][s] = ValidSbCount(g, s)
  BY SweptIsSegment, FreshDependencies DEF Scan, Rows, RowFirst, RowLast
<1>2. DOMAIN tm = Sbs(g) /\ \A sb \in Sbs(g) : tm[sb] \in Nat /\ tm[sb] + Flag(sb \in SbsOf(g, s)) \in Nat
  BY DEF Flag
<1>3. SweptOnce(g, s, tm) = [sb \in Sbs(g) |-> tm[sb] + Flag(sb \in SbsOf(g, s))]
  BY <1>1, <1>2 DEF SweptOnce
<1> QED BY <1>1, <1>2, <1>3

\* A segment is coded.
LEMMA CodeStep ==
    ASSUME NEW st, NEW rt, NEW g \in Grids, NEW d, NEW c, NEW n, NEW tm, NEW V, NEW A,
           PictureOK(st, rt, g, d, c, n, tm, V, A), NEW w \in Workers, V[w].pc = "code", V[w].coded \in Nat,
           NEW V2, \A v \in Workers \ {w} : V2[v] = V[v],
           V2[w].pc = "right", V2[w].from = V[w].seg, ~V2[w].self, ~V2[w].again,
           NEW m \in Nat, m = Valid[g][V[w].seg], V2[w].coded = V[w].coded + m,
           NEW tm2, tm2 = SweptOnce(g, V[w].seg, tm)
    PROVE  PictureOK(st, rt, g, d, c, n, tm2, V2, A)
<1>1. /\ st = "encdec" /\ Running(V, A) /\ Wave(g, d, c, n, tm, V, A) /\ IsGrid(g)
      /\ V[w].seg \in Scan(g) /\ Valid[g][V[w].seg] \in Nat /\ tm \in [Sbs(g) -> Nat]
  BY ONLY g \in Grids, w \in Workers, PictureOK(st, rt, g, d, c, n, tm, V, A), V[w].pc = "code", HeldSegment
<1>2. PICK s : s = V[w].seg
  OBVIOUS
<1>3. /\ tm2 \in [Sbs(g) -> Nat] /\ Valid[g][s] = ValidSbCount(g, s)
      /\ \A sb \in Sbs(g) : tm2[sb] = tm[sb] + Flag(sb \in SbsOf(g, s))
  BY <1>1, <1>2, SweptCounts
<1>4. Wave(g, d, c, n, tm2, V2, A)
  <2>1. V2[w].from = s /\ V2[w].coded = V[w].coded + ValidSbCount(g, s)
    BY <1>2, <1>3
  <2> QED BY <1>1, <1>2, <1>3, <2>1, CodeSegment
<1>5. Running(V2, A)
  BY <1>1 DEF Running, Counting
<1> QED BY <1>1, <1>4, <1>5 DEF PictureOK

\* SBs are coded that were not, and their neighbours before or with them.
CodedAfter(g, tm, tm2) == \A sb \in Sbs(g) : tm2[sb] # tm[sb] =>
                             /\ tm[sb] = 0 /\ tm2[sb] = 1
                             /\ \A nb \in Neighbours(g, sb) : tm2[nb] = 1

\* So it is when a segment is coded.
LEMMA CodedStep ==
    ASSUME NEW st, NEW rt, NEW g \in Grids, NEW d, NEW c, NEW n, NEW tm, NEW V, NEW A,
           PictureOK(st, rt, g, d, c, n, tm, V, A), NEW w \in Workers, V[w].pc = "code", V[w].coded \in Nat
    PROVE  CodedAfter(g, tm, SweptOnce(g, V[w].seg, tm))
<1>1. /\ st = "encdec" /\ Running(V, A) /\ Wave(g, d, c, n, tm, V, A) /\ IsGrid(g)
      /\ V[w].seg \in Scan(g) /\ Valid[g][V[w].seg] \in Nat /\ tm \in [Sbs(g) -> Nat]
  BY HeldSegment
<1>2. PICK s, tm2 : s = V[w].seg /\ tm2 = SweptOnce(g, s, tm)
  OBVIOUS
<1>3. /\ tm2 \in [Sbs(g) -> Nat] /\ s \in Scan(g)
      /\ \A sb \in Sbs(g) : tm2[sb] = tm[sb] + Flag(sb \in SbsOf(g, s))
  BY <1>1, <1>2, SweptCounts
<1> DEFINE V2 == [v \in Workers |-> IF v = w THEN [pc |-> "right", from |-> s, self |-> FALSE, again |-> FALSE,
                                                   coded |-> V[w].coded + ValidSbCount(g, s)]
                                    ELSE V[v]]
<1>4. /\ \A v \in Workers \ {w} : V2[v] = V[v]
      /\ V2[w].pc = "right" /\ V2[w].from = s /\ ~V2[w].self /\ ~V2[w].again
      /\ V2[w].coded = V[w].coded + ValidSbCount(g, s)
  OBVIOUS
<1> HIDE DEF V2
<1>5. /\ Wave(g, d, c, n, tm2, V2, A) /\ IsTaken(g, c, s)
      /\ \A sb \in Sbs(g) : SegmentOf(g, sb) = s => tm[sb] = 0 /\ tm2[sb] = 1
      /\ \A sb \in Sbs(g) : SegmentOf(g, sb) # s => tm2[sb] = tm[sb]
  BY <1>1, <1>2, <1>3, <1>4, CodeSegment
<1>6. ASSUME NEW sb \in Sbs(g), tm2[sb] # tm[sb], NEW nb \in Neighbours(g, sb)
      PROVE  tm2[nb] = 1
  <2>1. SegmentOf(g, sb) = s
    BY <1>5, <1>6
  <2>2. /\ nb \in Sbs(g)
        /\ \/ /\ RowIndex(g, nb[2]) = RowIndex(g, sb[2])
              /\ SegmentOf(g, nb) <= SegmentOf(g, sb)
           \/ /\ RowIndex(g, sb[2]) > 0 /\ RowIndex(g, nb[2]) = RowIndex(g, sb[2]) - 1
              /\ SegmentOf(g, nb) <= SegmentOf(g, sb) - g.bands
    BY <1>1, NeighboursEarlier
  <2>3. /\ SegmentOf(g, nb) \in Scan(g) /\ RowOfSeg(g, SegmentOf(g, nb)) = RowIndex(g, nb[2])
        /\ RowOfSeg(g, s) = RowIndex(g, sb[2])
        /\ SegmentOf(g, nb) \in Nat /\ s \in Nat
        /\ RowIndex(g, nb[2]) \in Nat /\ RowIndex(g, sb[2]) \in Nat
    BY <1>1, <1>3, <2>1, <2>2, SbInScan, ScanNumbers
  <2> DEFINE t == SegmentOf(g, nb)
  <2>4. CASE t = s
    BY <1>5, <2>2, <2>4
  <2>5. CASE t # s
    <3>1. \/ RowOfSeg(g, t) = RowOfSeg(g, s) /\ t < s
          \/ RowOfSeg(g, s) = RowOfSeg(g, t) + 1 /\ t <= s - g.bands
      <4> DEFINE a == RowIndex(g, nb[2])
                 b == RowIndex(g, sb[2])
      <4>1. /\ t \in Nat /\ s \in Nat /\ a \in Nat /\ b \in Nat /\ RowOfSeg(g, t) = a /\ RowOfSeg(g, s) = b
            /\ (a = b /\ t <= s) \/ (b > 0 /\ a = b - 1 /\ t <= s - g.bands)
        BY <2>1, <2>2, <2>3
      <4> HIDE DEF t, a, b
      <4> QED BY <2>5, <4>1
    <3>2. IsCoded(g, c, V, t)
      <4>1. Dependent(g, d, c, V) /\ Placed(g, c, V)
        BY <1>1 DEF Wave
      <4> HIDE DEF t
      <4>2. t \in Scan(g)
        BY <2>3 DEF t
      <4> QED BY <1>1, <1>3, <1>5, <3>1, <4>1, <4>2, EarlierIsCoded
    <3>3. tm[nb] = 1
      BY <1>1, <2>2, <3>2 DEF Wave, Counted, Flag
    <3> QED BY <1>5, <2>2, <2>5, <3>3
  <2> QED BY <2>4, <2>5
<1>7. \A sb \in Sbs(g) : tm2[sb] # tm[sb] => tm[sb] = 0 /\ tm2[sb] = 1
  BY <1>5
<1> QED BY <1>2, <1>6, <1>7 DEF CodedAfter

\* A worker that counts is in a running picture; those in a segment are where it is.
LEMMA RunningWorker ==
    ASSUME NEW st, NEW rt, NEW g \in Grids, NEW d, NEW c, NEW n, NEW tm, NEW V, NEW A,
           PictureOK(st, rt, g, d, c, n, tm, V, A), NEW w \in Workers, V[w].pc \in Counting \ {"start"}
    PROVE  st = "encdec" /\ Running(V, A) /\ Wave(g, d, c, n, tm, V, A) /\ IsGrid(g)
  BY ModeOfWorker

\* A worker comes from a segment of the picture.
LEMMA FromSegment ==
    ASSUME NEW st, NEW rt, NEW g \in Grids, NEW d, NEW c, NEW n, NEW tm, NEW V, NEW A,
           PictureOK(st, rt, g, d, c, n, tm, V, A), NEW w \in Workers, V[w].pc \in {"right", "below", "feedback"}
    PROVE  V[w].from \in Scan(g)
<1>1. Wave(g, d, c, n, tm, V, A) /\ IsGrid(g)
  BY RunningWorker DEF Counting
<1> QED BY <1>1 DEF Wave, Placed, Has, Leaves, Drops

\* The rows of a running picture have a current segment.
LEMMA CurrentSegments ==
    ASSUME NEW st, NEW rt, NEW g \in Grids, NEW d, NEW c, NEW n, NEW tm, NEW V, NEW A,
           PictureOK(st, rt, g, d, c, n, tm, V, A), NEW w \in Workers, V[w].pc \in {"right", "below", "feedback"}
    PROVE  c \in [Rows(g) -> Nat]
<1>1. Wave(g, d, c, n, tm, V, A) /\ IsGrid(g)
  BY RunningWorker DEF Counting
<1> QED BY <1>1 DEF Wave, Dependent

\* The table of last segments at the row of a segment.
LEMMA LastOfRow ==
    ASSUME NEW g \in Grids, NEW s \in Scan(g)
    PROVE  RowOfSeg(g, s) \in Rows(g) /\ Last[g][RowOfSeg(g, s)] = RowLast(g, RowOfSeg(g, s))
<1>1. PICK r : r = RowOfSeg(g, s)
  OBVIOUS
<1>2. IsGrid(g) /\ r \in Rows(g)
  BY <1>1, FreshDependencies, ScanNumbers
<1> QED BY <1>1, <1>2, FreshDependencies

\* The table of first segments at the row below.
LEMMA FirstOfRowUnder ==
    ASSUME NEW g \in Grids, NEW s \in Scan(g), RowOfSeg(g, s) < g.rows - 1
    PROVE  /\ RowOfSeg(g, s) + 1 \in Rows(g)
           /\ First[g][RowOfSeg(g, s) + 1] = RowFirst(g, RowOfSeg(g, s) + 1)
<1>1. PICK r : r = RowOfSeg(g, s)
  OBVIOUS
<1>2. IsGrid(g) /\ r \in Nat /\ g.rows \in Nat
  BY <1>1, FreshDependencies, ScanNumbers, GridNumbers
<1>3. r + 1 \in Rows(g)
  BY <1>1, <1>2 DEF Rows
<1>4. PICK q : q = r + 1
  OBVIOUS
<1>5. First[g][q] = RowFirst(g, q)
  BY <1>3, <1>4, FreshDependencies
<1> QED BY <1>1, <1>3, <1>4, <1>5

\* The segment on the right is released, and waits for another one, or there is none.
LEMMA RightMoves ==
    ASSUME NEW st, NEW rt, NEW g \in Grids, NEW d, NEW c, NEW n, NEW tm, NEW V, NEW A,
           PictureOK(st, rt, g, d, c, n, tm, V, A), NEW w \in Workers, V[w].pc = "right",
           NEW s, s = V[w].from,
           NEW V2, \A v \in Workers \ {w} : V2[v] = V[v],
           V2[w].pc = "below", V2[w].from = s, V2[w].coded = V[w].coded,
           V2[w].self = V[w].self, V2[w].again = V[w].again,
           NEW d2, s < RowLast(g, RowOfSeg(g, s)) => d2 = [d EXCEPT ![s + 1] = @ - 1],
           ~(s < RowLast(g, RowOfSeg(g, s))) => d2 = d
    PROVE  PictureOK(st, rt, g, d2, c, n, tm, V2, A)
<1>1. st = "encdec" /\ Running(V, A) /\ Wave(g, d, c, n, tm, V, A) /\ IsGrid(g)
  BY RunningWorker DEF Counting
<1>2. Wave(g, d2, c, n, tm, V2, A)
  BY <1>1, LeaveRight
<1>3. Running(V2, A)
  BY <1>1 DEF Running, Counting
<1> QED BY <1>1, <1>2, <1>3 DEF PictureOK

\* The segment on the right is released, and the worker takes it.
LEMMA RightTakes ==
    ASSUME NEW st, NEW rt, NEW g \in Grids, NEW d, NEW c, NEW n, NEW tm, NEW V, NEW A,
           PictureOK(st, rt, g, d, c, n, tm, V, A), NEW w \in Workers, V[w].pc = "right",
           NEW s, s = V[w].from, NEW r, r = RowOfSeg(g, s), s < RowLast(g, r), d[s + 1] = 1,
           NEW V2, \A v \in Workers \ {w} : V2[v] = V[v],
           V2[w].pc = "below", V2[w].from = s, V2[w].coded = V[w].coded,
           V2[w].self, V2[w].again, V2[w].seg = c[r],
           NEW d2, s < RowLast(g, r) => d2 = [d EXCEPT ![s + 1] = @ - 1],
           NEW c2, r \in Rows(g) => c2 = [c EXCEPT ![r] = @ + 1]
    PROVE  PictureOK(st, rt, g, d2, c2, n, tm, V2, A)
<1>1. st = "encdec" /\ Running(V, A) /\ Wave(g, d, c, n, tm, V, A) /\ IsGrid(g)
  BY RunningWorker DEF Counting
<1> DEFINE V1 == [v \in Workers |-> IF v = w THEN [pc |-> "below", from |-> s, coded |-> V[w].coded,
                                                   self |-> V[w].self, again |-> V[w].again]
                                    ELSE V[v]]
<1>2. /\ \A v \in Workers \ {w} : V1[v] = V[v] /\ V2[v] = V1[v]
      /\ V1[w].pc = "below" /\ V1[w].from = s /\ V1[w].coded = V[w].coded
      /\ V1[w].self = V[w].self /\ V1[w].again = V[w].again
  OBVIOUS
<1> HIDE DEF V1
<1>3. /\ Wave(g, d2, c, n, tm, V1, A)
      /\ s \in Scan(g) /\ c[r] = s + 1
      /\ ~IsAsked(A, r) /\ \A v \in Workers : ~Begins(g, V, v, r)
      /\ \A u : ~Holds(V1, w, u) /\ ~Leaves(V1, w, u)
  <2>1. PICK e : /\ s < RowLast(g, RowOfSeg(g, s)) => e = [d EXCEPT ![s + 1] = @ - 1]
                 /\ ~(s < RowLast(g, RowOfSeg(g, s))) => e = d
    OBVIOUS
  <2>2. /\ Wave(g, e, c, n, tm, V1, A)
        /\ s \in Scan(g) /\ c[RowOfSeg(g, s)] = s + 1
        /\ ~IsAsked(A, RowOfSeg(g, s)) /\ \A v \in Workers : ~Begins(g, V, v, RowOfSeg(g, s))
        /\ \A u : ~Holds(V1, w, u) /\ ~Leaves(V1, w, u)
    BY ONLY <1>1, <1>2, <2>1, LeaveRight, V[w].pc = "right", s = V[w].from
  <2>3. e = d2
    BY <2>1
  <2> QED BY <2>2, <2>3
<1>4. r \in Rows(g) /\ s \in Nat /\ RowFirst(g, r) <= s /\ RowLast(g, r) \in Nat /\ RowFirst(g, r) \in Nat
  BY <1>1, <1>3, ScanNumbers
<1>5. s + 1 \in Scan(g) /\ RowOfSeg(g, s + 1) = r
  BY <1>1, <1>3, ScanRight
<1>6. Reached(g, r)
  <2>1. c[r] > RowFirst(g, r)
    BY <1>3, <1>4
  <2> QED BY <1>1, <1>4, <2>1 DEF Wave, Dependent
<1>7. c[r] <= RowLast(g, r) /\ d2[c[r]] = 0
  <2>1. s + 1 \in DOMAIN d
    BY <1>1, <1>5, ScanNumbers DEF Wave, Dependent
  <2> QED BY <1>3, <1>4, <2>1
<1>8. \A v \in Workers \ {w} : ~Begins(g, V1, v, r)
  BY <1>2, <1>3, SameWorker
<1>9. /\ \A u : Holds(V2, w, u) <=> u = c[r]
      /\ \A u : ~Leaves(V2, w, u)
      /\ \A u : Drops(V2, w, u) <=> Drops(V1, w, u)
      /\ \A q : ~Begins(g, V2, w, q)
      /\ Due(V2, w) = Due(V1, w)
  BY <1>2 DEF Holds, Leaves, Drops, Begins, Due
<1>10. V2[w].coded >= 1
  BY <1>1 DEF Wave, Counted
<1>11. V2[w].seg = V2[w].from + 1 /\ RowOfSeg(g, V2[w].seg) = RowOfSeg(g, V2[w].from)
  BY <1>3, <1>5
<1>12. Wave(g, d2, c2, n, tm, V2, A)
  <2>1. PICK k : k = [c EXCEPT ![r] = @ + 1]
    OBVIOUS
  <2>2. V2[w].pc \in {"code", "below"}
    OBVIOUS
  <2>3. Wave(g, d2, k, n, tm, V2, A)
    <3>1. V2[w].pc = "below" => /\ V2[w].self /\ V2[w].again /\ V2[w].coded >= 1
                                /\ V2[w].seg = V2[w].from + 1
                                /\ RowOfSeg(g, V2[w].seg) = RowOfSeg(g, V2[w].from)
      BY <1>10, <1>11
    <3>2. \A u : ~Holds(V1, w, u) /\ ~Leaves(V1, w, u)
      BY <1>3
    <3>3. ~IsAsked(A, r) /\ Wave(g, d2, c, n, tm, V1, A)
      BY <1>3
    <3>4. \A v \in Workers \ {w} : V2[v] = V1[v]
      BY <1>2
    <3> QED BY ONLY <1>1, <1>4, <1>6, <1>7, <1>8, <1>9, <2>1, <2>2, <3>1, <3>2, <3>3, <3>4, TakeSegment
  <2> QED BY <1>4, <2>1, <2>3
<1>13. Running(V2, A)
  BY <1>1 DEF Running, Counting
<1> QED BY <1>1, <1>12, <1>13 DEF PictureOK

\* The segment below is released, and waits for another one, or there is none.
LEMMA BelowMoves ==
    ASSUME NEW st, NEW rt, NEW g \in Grids, NEW d, NEW c, NEW n, NEW tm, NEW V, NEW A,
           PictureOK(st, rt, g, d, c, n, tm, V, A), NEW w \in Workers, V[w].pc = "below",
           NEW s, s = V[w].from,
           NEW V2, \A v \in Workers \ {w} : V2[v] = V[v],
           V2[w].pc = IF V[w].again THEN "code" ELSE "tally",
           V2[w].seg = V[w].seg, V2[w].coded = V[w].coded,
           NEW d2, Bottom(g, s) => d2 = [d EXCEPT ![s + g.bands] = @ - 1],
           ~Bottom(g, s) => d2 = d
    PROVE  PictureOK(st, rt, g, d2, c, n, tm, V2, A)
<1>1. st = "encdec" /\ Running(V, A) /\ Wave(g, d, c, n, tm, V, A) /\ IsGrid(g)
  BY RunningWorker DEF Counting
<1>2. Wave(g, d2, c, n, tm, V2, A)
  BY <1>1, LeaveBelow
<1>3. Running(V2, A)
  BY <1>1 DEF Running, Counting
<1> QED BY <1>1, <1>2, <1>3 DEF PictureOK

\* The row that a segment's last release may hand out.
RowUnder(g, s) == RowOfSeg(g, s) + 1

\* The last release of the segment below: the row below is ready, and nobody has it.
LEMMA BelowReady ==
    ASSUME NEW g, IsGrid(g), NEW d, NEW c, NEW n, NEW tm, NEW V, NEW A,
           Wave(g, d, c, n, tm, V, A), NEW w \in Workers, V[w].pc = "below",
           NEW s, s = V[w].from, NEW r, r = RowUnder(g, s), Bottom(g, s), d[s + g.bands] = 1,
           NEW V1, \A v \in Workers \ {w} : V1[v] = V[v],
           V1[w].pc = IF V[w].again THEN "code" ELSE "tally",
           V1[w].seg = V[w].seg, V1[w].coded = V[w].coded,
           NEW d2, Bottom(g, s) => d2 = [d EXCEPT ![s + g.bands] = @ - 1]
    PROVE  /\ Wave(g, d2, c, n, tm, V1, A)
           /\ r \in Rows(g) /\ Reached(g, r) /\ c[r] <= RowLast(g, r) /\ d2[c[r]] = 0
           /\ ~IsAsked(A, r) /\ \A v \in Workers : ~Begins(g, V1, v, r)
<1>1. PICK e : (Bottom(g, s) => e = [d EXCEPT ![s + g.bands] = @ - 1]) /\ (~Bottom(g, s) => e = d)
  OBVIOUS
<1>2. /\ Wave(g, e, c, n, tm, V1, A)
      /\ Bottom(g, s) /\ d[s + g.bands] = 1 =>
            /\ RowOfSeg(g, s) + 1 \in Rows(g) /\ Reached(g, RowOfSeg(g, s) + 1)
            /\ c[RowOfSeg(g, s) + 1] = s + g.bands
            /\ c[RowOfSeg(g, s) + 1] <= RowLast(g, RowOfSeg(g, s) + 1)
            /\ e[s + g.bands] = 0
            /\ ~IsAsked(A, RowOfSeg(g, s) + 1)
            /\ \A v \in Workers : ~Begins(g, V, v, RowOfSeg(g, s) + 1)
  BY ONLY <1>1, IsGrid(g), Wave(g, d, c, n, tm, V, A), V[w].pc = "below", s = V[w].from,
          \A v \in Workers \ {w} : V1[v] = V[v], V1[w].pc = IF V[w].again THEN "code" ELSE "tally",
          V1[w].seg = V[w].seg, V1[w].coded = V[w].coded, LeaveBelow
<1>3. e = d2
  BY <1>1
<1>4. /\ r \in Rows(g) /\ Reached(g, r) /\ c[r] <= RowLast(g, r) /\ e[c[r]] = 0
      /\ ~IsAsked(A, r) /\ \A v \in Workers : ~Begins(g, V, v, r)
  BY <1>2 DEF RowUnder
<1>5. \A v \in Workers : ~Begins(g, V1, v, r)
  <2>1. \A v \in Workers \ {w} : ~Begins(g, V1, v, r)
    BY <1>4, SameWorker
  <2>2. ~Begins(g, V1, w, r)
    BY DEF Begins
  <2> QED BY <2>1, <2>2
<1> QED BY <1>2, <1>3, <1>4, <1>5

\* The segment below is released, and the worker takes it.
LEMMA BelowTakes ==
    ASSUME NEW st, NEW rt, NEW g \in Grids, NEW d, NEW c, NEW n, NEW tm, NEW V, NEW A,
           PictureOK(st, rt, g, d, c, n, tm, V, A), NEW w \in Workers, V[w].pc = "below", ~V[w].self,
           NEW s, s = V[w].from, NEW r, r = RowUnder(g, s), Bottom(g, s), d[s + g.bands] = 1,
           NEW V2, \A v \in Workers \ {w} : V2[v] = V[v],
           V2[w].pc = "code", V2[w].coded = V[w].coded, V2[w].seg = c[r],
           NEW d2, Bottom(g, s) => d2 = [d EXCEPT ![s + g.bands] = @ - 1],
           NEW c2, r \in Rows(g) => c2 = [c EXCEPT ![r] = @ + 1]
    PROVE  PictureOK(st, rt, g, d2, c2, n, tm, V2, A)
<1>1. st = "encdec" /\ Running(V, A) /\ Wave(g, d, c, n, tm, V, A) /\ IsGrid(g)
  BY RunningWorker DEF Counting
<1>2. ~V[w].again
  BY <1>1 DEF Wave, Placed
<1> DEFINE V1 == [v \in Workers |-> IF v = w THEN [pc |-> "tally", coded |-> V[w].coded, seg |-> V[w].seg]
                                    ELSE V[v]]
<1>3. /\ \A v \in Workers \ {w} : V1[v] = V[v] /\ V2[v] = V1[v]
      /\ V1[w].pc = "tally" /\ V1[w].coded = V[w].coded /\ V1[w].seg = V[w].seg
  OBVIOUS
<1> HIDE DEF V1
<1>4. /\ Wave(g, d2, c, n, tm, V1, A)
      /\ r \in Rows(g) /\ Reached(g, r) /\ c[r] <= RowLast(g, r) /\ d2[c[r]] = 0
      /\ ~IsAsked(A, r) /\ \A v \in Workers : ~Begins(g, V1, v, r)
  <2>1. PICK e, q : (Bottom(g, s) => e = [d EXCEPT ![s + g.bands] = @ - 1]) /\ q = RowUnder(g, s)
    OBVIOUS
  <2>2. V1[w].pc = IF V[w].again THEN "code" ELSE "tally"
    BY <1>2, <1>3
  <2>3. /\ Wave(g, e, c, n, tm, V1, A)
        /\ q \in Rows(g) /\ Reached(g, q) /\ c[q] <= RowLast(g, q) /\ e[c[q]] = 0
        /\ ~IsAsked(A, q) /\ \A v \in Workers : ~Begins(g, V1, v, q)
    <3>1. IsGrid(g) /\ Wave(g, d, c, n, tm, V, A) /\ V[w].pc = "below" /\ s = V[w].from
      BY <1>1
    <3>2. V1[w].seg = V[w].seg /\ V1[w].coded = V[w].coded /\ \A v \in Workers \ {w} : V1[v] = V[v]
      BY <1>3
    <3>3. Bottom(g, s) /\ d[s + g.bands] = 1
      OBVIOUS
    <3> QED BY ONLY <2>1, <2>2, <3>1, <3>2, <3>3, BelowReady
  <2> QED BY <2>1, <2>3 DEF RowUnder
<1>5. /\ \A u : ~Holds(V1, w, u) /\ ~Leaves(V1, w, u)
      /\ \A u : Holds(V2, w, u) <=> u = c[r]
      /\ \A u : ~Leaves(V2, w, u)
      /\ \A u : Drops(V2, w, u) <=> Drops(V1, w, u)
      /\ \A q : ~Begins(g, V2, w, q)
      /\ Due(V2, w) = Due(V1, w)
  BY <1>3 DEF Holds, Leaves, Drops, Begins, Due, Counting
<1>6. Wave(g, d2, c2, n, tm, V2, A)
  <2>1. PICK k : k = [c EXCEPT ![r] = @ + 1]
    OBVIOUS
  <2>2. /\ V2[w].pc \in {"code", "below"}
        /\ V2[w].pc = "below" => /\ V2[w].self /\ V2[w].again /\ V2[w].coded >= 1
                                 /\ V2[w].seg = V2[w].from + 1
                                 /\ RowOfSeg(g, V2[w].seg) = RowOfSeg(g, V2[w].from)
    OBVIOUS
  <2>3. Wave(g, d2, k, n, tm, V2, A)
    <3>1. /\ Wave(g, d2, c, n, tm, V1, A) /\ r \in Rows(g) /\ Reached(g, r) /\ c[r] <= RowLast(g, r)
          /\ d2[c[r]] = 0 /\ ~IsAsked(A, r)
      BY <1>4
    <3>2. \A v \in Workers \ {w} : ~Begins(g, V1, v, r)
      BY <1>4
    <3>3. \A u : ~Holds(V1, w, u) /\ ~Leaves(V1, w, u)
      BY <1>5
    <3>4. \A v \in Workers \ {w} : V2[v] = V1[v]
      BY <1>3
    <3> QED BY ONLY <1>1, <1>5, <2>1, <2>2, <3>1, <3>2, <3>3, <3>4, TakeSegment
  <2> QED BY <1>4, <2>1, <2>3
<1>7. Running(V2, A)
  BY <1>1 DEF Running, Counting
<1> QED BY <1>1, <1>6, <1>7 DEF PictureOK

\* The segment below is released, and the worker has one already.
LEMMA BelowAsks ==
    ASSUME NEW st, NEW rt, NEW g \in Grids, NEW d, NEW c, NEW n, NEW tm, NEW V, NEW A,
           PictureOK(st, rt, g, d, c, n, tm, V, A), NEW w \in Workers, V[w].pc = "below", V[w].self,
           NEW s, s = V[w].from, Bottom(g, s), d[s + g.bands] = 1,
           NEW V2, \A v \in Workers \ {w} : V2[v] = V[v],
           V2[w].pc = "feedback", V2[w].coded = V[w].coded, V2[w].seg = V[w].seg, V2[w].from = s,
           V2[w].again = V[w].again,
           NEW d2, Bottom(g, s) => d2 = [d EXCEPT ![s + g.bands] = @ - 1]
    PROVE  PictureOK(st, rt, g, d2, c, n, tm, V2, A)
<1>1. st = "encdec" /\ Running(V, A) /\ Wave(g, d, c, n, tm, V, A) /\ IsGrid(g)
  BY RunningWorker DEF Counting
<1>2. /\ V[w].again /\ V[w].seg = s + 1 /\ RowOfSeg(g, V[w].seg) = RowOfSeg(g, s)
      /\ s \in Scan(g) /\ V[w].coded >= 1
  BY <1>1 DEF Wave, Placed, Has, Drops, Counted
<1> DEFINE V1 == [v \in Workers |-> IF v = w THEN [pc |-> "code", coded |-> V[w].coded, seg |-> V[w].seg]
                                    ELSE V[v]]
<1>3. /\ \A v \in Workers \ {w} : V1[v] = V[v] /\ V2[v] = V1[v]
      /\ V1[w].pc = "code" /\ V1[w].coded = V[w].coded /\ V1[w].seg = V[w].seg
  OBVIOUS
<1> HIDE DEF V1
<1>4. PICK q : q = RowUnder(g, s)
  OBVIOUS
<1>5. /\ Wave(g, d2, c, n, tm, V1, A)
      /\ q \in Rows(g) /\ Reached(g, q) /\ c[q] <= RowLast(g, q) /\ d2[c[q]] = 0
      /\ ~IsAsked(A, q) /\ \A v \in Workers : ~Begins(g, V1, v, q)
  <2>1. PICK e : Bottom(g, s) => e = [d EXCEPT ![s + g.bands] = @ - 1]
    OBVIOUS
  <2>2. V1[w].pc = IF V[w].again THEN "code" ELSE "tally"
    BY <1>2, <1>3
  <2>3. /\ Wave(g, e, c, n, tm, V1, A)
        /\ q \in Rows(g) /\ Reached(g, q) /\ c[q] <= RowLast(g, q) /\ e[c[q]] = 0
        /\ ~IsAsked(A, q) /\ \A v \in Workers : ~Begins(g, V1, v, q)
    <3>1. IsGrid(g) /\ Wave(g, d, c, n, tm, V, A) /\ V[w].pc = "below" /\ s = V[w].from
      BY <1>1
    <3>2. V1[w].seg = V[w].seg /\ V1[w].coded = V[w].coded /\ \A v \in Workers \ {w} : V1[v] = V[v]
      BY <1>3
    <3>3. Bottom(g, s) /\ d[s + g.bands] = 1
      OBVIOUS
    <3> QED BY ONLY <1>4, <2>1, <2>2, <3>1, <3>2, <3>3, BelowReady
  <2> QED BY <2>1, <2>3
<1>6. Startable(g, d2, c, V1, q)
  BY <1>5 DEF Startable
<1>7. /\ \A u : Holds(V2, w, u) <=> Holds(V1, w, u)
      /\ \A u : ~Leaves(V1, w, u) /\ ~Leaves(V2, w, u)
      /\ \A u : ~Drops(V1, w, u) /\ ~Drops(V2, w, u)
      /\ \A k : Begins(g, V2, w, k) <=> k = q
      /\ Due(V2, w) = Due(V1, w)
  BY <1>2, <1>3, <1>4 DEF Holds, Leaves, Drops, Begins, Due, Counting, RowUnder
<1>8. Wave(g, d2, c, n, tm, V2, A)
  <2>1. /\ V2[w].pc \in {"idle", "row", "bump", "code", "feedback"}
        /\ ~(V2[w].pc \in {"row", "bump"}) /\ ~(V2[w].pc = "bump")
    OBVIOUS
  <2>2. V2[w].pc = "feedback" => /\ V2[w].again /\ V2[w].from \in Scan(g) /\ V2[w].seg = V2[w].from + 1
                                 /\ RowOfSeg(g, V2[w].seg) = RowOfSeg(g, V2[w].from)
    BY <1>2
  <2>3. /\ \A k \in Nat : IsAsked(A, k) => IsAsked(A, k) \/ Begins(g, V1, w, k) \/ Startable(g, d2, c, V1, k)
        /\ \A k \in Nat : Begins(g, V2, w, k) => IsAsked(A, k) \/ Begins(g, V1, w, k) \/ Startable(g, d2, c, V1, k)
        /\ \A k \in Nat : ~(IsAsked(A, k) /\ Begins(g, V2, w, k))
    BY <1>5, <1>6, <1>7
  <2>4. V2[w].coded >= 1 /\ \A v \in Workers \ {w} : V2[v] = V1[v]
    BY <1>2, <1>3
  <2> QED BY ONLY <1>1, <1>5, <1>7, <2>1, <2>2, <2>3, <2>4, Moves
<1>9. Running(V2, A)
  BY <1>1 DEF Running, Counting
<1> QED BY <1>1, <1>8, <1>9 DEF PictureOK

\* The row below is asked for.
LEMMA FeedbackStep ==
    ASSUME NEW st, NEW rt, NEW g \in Grids, NEW d, NEW c, NEW n, NEW tm, NEW V, NEW A,
           PictureOK(st, rt, g, d, c, n, tm, V, A), NEW w \in Workers, V[w].pc = "feedback",
           NEW t, t.type = "ENCDEC", t.row = RowUnder(g, V[w].from),
           NEW V2, \A v \in Workers \ {w} : V2[v] = V[v],
           V2[w].pc = "code", V2[w].coded = V[w].coded, V2[w].seg = V[w].seg,
           NEW A2, A2 = A \cup {t}
    PROVE  PictureOK(st, rt, g, d, c, n, tm, V2, A2) /\ t \notin A /\ t.row \in Nat
<1>1. st = "encdec" /\ Running(V, A) /\ Wave(g, d, c, n, tm, V, A) /\ IsGrid(g)
  BY RunningWorker DEF Counting
<1>2. V[w].again /\ V[w].coded >= 1 /\ V[w].from \in Scan(g)
  BY <1>1 DEF Wave, Placed, Counted
<1>3. PICK r : r = t.row /\ r = RowUnder(g, V[w].from)
  OBVIOUS
<1>4. r \in Nat
  BY <1>1, <1>2, <1>3, ScanNumbers DEF RowUnder
<1>5. /\ \A u : Holds(V2, w, u) <=> Holds(V, w, u)
      /\ \A u : ~Leaves(V, w, u) /\ ~Leaves(V2, w, u)
      /\ \A u : ~Drops(V, w, u) /\ ~Drops(V2, w, u)
      /\ \A k : Begins(g, V, w, k) <=> k = r
      /\ \A k : ~Begins(g, V2, w, k)
      /\ Due(V2, w) = Due(V, w)
  BY <1>2, <1>3 DEF Holds, Leaves, Drops, Begins, Due, Counting, RowUnder
<1>6. \A k : IsAsked(A2, k) <=> IsAsked(A, k) \/ k = r
  BY <1>3 DEF IsAsked
<1>7. ~IsAsked(A, r) /\ t \notin A
  <2>1. ~IsAsked(A, r)
    BY <1>1, <1>4, <1>5 DEF Wave, Apart
  <2> QED BY <1>3, <2>1 DEF IsAsked
<1>8. Wave(g, d, c, n, tm, V2, A2)
  <2>1. /\ V2[w].pc \in {"idle", "row", "bump", "code", "feedback"}
        /\ ~(V2[w].pc \in {"row", "bump"}) /\ ~(V2[w].pc = "bump") /\ ~(V2[w].pc = "feedback")
    OBVIOUS
  <2>2. /\ \A k \in Nat : IsAsked(A2, k) => IsAsked(A, k) \/ Begins(g, V, w, k) \/ Startable(g, d, c, V, k)
        /\ \A k \in Nat : Begins(g, V2, w, k) => IsAsked(A, k) \/ Begins(g, V, w, k) \/ Startable(g, d, c, V, k)
        /\ \A k \in Nat : ~(IsAsked(A2, k) /\ Begins(g, V2, w, k))
    BY <1>5, <1>6
  <2> QED BY <1>1, <1>5, <2>1, <2>2, Moves
<1>9. Running(V2, A2)
  BY <1>1 DEF Running, Counting
<1> QED BY <1>1, <1>3, <1>4, <1>7, <1>8, <1>9 DEF PictureOK

\* A worker counts what it has coded, and the picture is not done.
LEMMA TallyStep ==
    ASSUME NEW st, NEW rt, NEW g \in Grids, NEW d, NEW c, NEW n, NEW tm, NEW V, NEW A,
           PictureOK(st, rt, g, d, c, n, tm, V, A), NEW w \in Workers, V[w].pc = "tally", V[w].coded \in Nat,
           NEW V2, \A v \in Workers \ {w} : V2[v] = V[v], V2[w].pc = "idle",
           NEW n2, n2 = n + V[w].coded
    PROVE  PictureOK(st, rt, g, d, c, n2, tm, V2, A)
<1>1. st = "encdec" /\ Running(V, A) /\ Wave(g, d, c, n, tm, V, A) /\ IsGrid(g)
  BY RunningWorker DEF Counting
<1>2. Wave(g, d, c, n2, tm, V2, A)
  BY <1>1, TallyLeaves
<1>3. Running(V2, A)
  BY <1>1 DEF Running, Counting
<1> QED BY <1>1, <1>2, <1>3 DEF PictureOK

\* A worker counts what it has coded, and the picture is done: the worker is alone.
LEMMA LastStep ==
    ASSUME NEW st, NEW rt, NEW g \in Grids, NEW d, NEW c, NEW n, NEW tm, NEW V, NEW A,
           PictureOK(st, rt, g, d, c, n, tm, V, A), NEW w \in Workers, V[w].pc = "tally",
           \A t \in A : t.row \in Nat, \A v \in Workers : V[v].pc \in {"row", "bump"} => V[v].task.row \in Nat,
           \A v \in Workers : V[v].coded \in Nat, n + V[w].coded = g.w * g.h,
           NEW V2, \A v \in Workers \ {w} : V2[v] = V[v], V2[w].pc = "last",
           NEW n2
    PROVE  PictureOK(st, rt, g, d, c, n2, tm, V2, A)
<1>1. st = "encdec" /\ Running(V, A) /\ Wave(g, d, c, n, tm, V, A) /\ IsGrid(g)
  BY RunningWorker DEF Counting
<1>2. A = {} /\ (\A v \in Workers \ {w} : V[v].pc = "idle") /\ tm = [sb \in Sbs(g) |-> 1]
  BY <1>1, TallyEnds
<1>3. Alone(w, {"last"}, V2, A)
  BY <1>2 DEF Alone
<1>4. \A s \in DOMAIN d : d[s] \in 0 .. 2
  BY <1>1 DEF Wave, Dependent
<1>5. Whole(g, d, tm)
  BY <1>2, <1>4 DEF Whole
<1> QED BY <1>1, <1>3, <1>5 DEF PictureOK

\* A worker that is to renew the segments is alone.
LEMMA RenewWorker ==
    ASSUME NEW st, NEW rt, NEW g \in Grids, NEW d, NEW c, NEW n, NEW tm, NEW V, NEW A,
           PictureOK(st, rt, g, d, c, n, tm, V, A), NEW w \in Workers, V[w].pc = "renew"
    PROVE  st = "encdec" /\ Alone(w, {"renew"}, V, A) /\ Stale(g, d, tm)
<1>1. /\ ~Quiet(V, A) /\ ~Queued("SUPERRES", V, A) /\ ~Queued("MDC", V, A) /\ ~Running(V, A)
      /\ \A v \in Workers : ~Alone(v, {"start", "repost"}, V, A) /\ ~Alone(v, {"last"}, V, A)
      /\ \A v \in Workers : Alone(v, {"renew"}, V, A) => v = w
  BY DEF Quiet, Queued, Running, Counting, Alone
<1>2. st = "encdec" /\ (\E v \in Workers : Alone(v, {"renew"}, V, A)) /\ Stale(g, d, tm)
  BY <1>1 DEF PictureOK
<1> QED BY <1>1, <1>2

\* The worker that coded the last segment is alone.
LEMMA LastWorker ==
    ASSUME NEW st, NEW rt, NEW g \in Grids, NEW d, NEW c, NEW n, NEW tm, NEW V, NEW A,
           PictureOK(st, rt, g, d, c, n, tm, V, A), NEW w \in Workers, V[w].pc = "last"
    PROVE  st = "encdec" /\ Alone(w, {"last"}, V, A) /\ Whole(g, d, tm)
<1>1. /\ ~Quiet(V, A) /\ ~Queued("SUPERRES", V, A) /\ ~Queued("MDC", V, A) /\ ~Running(V, A)
      /\ \A v \in Workers : ~Alone(v, {"start", "repost"}, V, A) /\ ~Alone(v, {"renew"}, V, A)
      /\ \A v \in Workers : Alone(v, {"last"}, V, A) => v = w
  BY DEF Quiet, Queued, Running, Counting, Alone
<1>2. st = "encdec" /\ (\E v \in Workers : Alone(v, {"last"}, V, A)) /\ Whole(g, d, tm)
  BY <1>1 DEF PictureOK
<1> QED BY <1>1, <1>2

\* The segments are set up again, after the last worker or for another size.
LEMMA RenewStep ==
    ASSUME NEW st, NEW rt, NEW g \in Grids, NEW d, NEW c, NEW n, NEW tm, NEW V, NEW A,
           PictureOK(st, rt, g, d, c, n, tm, V, A), NEW w \in Workers, V[w].pc \in {"renew", "last"},
           NEW V2, \A v \in Workers \ {w} : V2[v] = V[v], V2[w].pc = "repost"
    PROVE  /\ PictureOK(st, rt, g, InitialDep[g], First[g], 0, NoneCoded(g), V2, A)
           /\ V[w].pc = "renew" => tm = NoneCoded(g)
           /\ V[w].pc = "last" => tm = [sb \in Sbs(g) |-> 1]
           /\ st # "results"
<1>1. st = "encdec" /\ Alone(w, {V[w].pc}, V, A)
  <2>1. CASE V[w].pc = "renew"
    BY <2>1, RenewWorker
  <2>2. CASE V[w].pc = "last"
    BY <2>2, LastWorker
  <2> QED BY <2>1, <2>2
<1>2. Alone(w, {"start", "repost"}, V2, A) /\ Due(V2, w) = 0
  BY <1>1 DEF Alone, Due, Counting
<1>3. Fresh(g, InitialDep[g], First[g], 0, NoneCoded(g))
  BY DEF Fresh
<1>4. V[w].pc = "renew" => tm = NoneCoded(g)
  <2> SUFFICES ASSUME V[w].pc = "renew"
               PROVE  tm = NoneCoded(g)
    OBVIOUS
  <2>1. st = "encdec" /\ Alone(w, {"renew"}, V, A) /\ Stale(g, d, tm)
    BY RenewWorker
  <2> QED BY <2>1 DEF Stale
<1>5. V[w].pc = "last" => tm = [sb \in Sbs(g) |-> 1]
  <2> SUFFICES ASSUME V[w].pc = "last"
               PROVE  tm = [sb \in Sbs(g) |-> 1]
    OBVIOUS
  <2>1. st = "encdec" /\ Alone(w, {"last"}, V, A) /\ Whole(g, d, tm)
    BY LastWorker
  <2> QED BY <2>1 DEF Whole
<1>6. \E v \in Workers : Alone(v, {"start", "repost"}, V2, A) /\ Due(V2, v) = 0
  BY <1>2
<1>7. PictureOK(st, rt, g, InitialDep[g], First[g], 0, NoneCoded(g), V2, A)
  BY <1>1, <1>3, <1>6 DEF PictureOK
<1> QED BY <1>1, <1>4, <1>5, <1>7

\* The picture is posted to EncDec again.
LEMMA RepostStep ==
    ASSUME NEW st, NEW rt, NEW g \in Grids, NEW d, NEW c, NEW n, NEW tm, NEW V, NEW A,
           PictureOK(st, rt, g, d, c, n, tm, V, A), NEW w \in Workers, V[w].pc = "repost",
           NEW t, t.type = "MDC",
           NEW V2, \A v \in Workers \ {w} : V2[v] = V[v], V2[w].pc = "idle",
           NEW A2, A2 = A \cup {t}
    PROVE  PictureOK(st, rt, g, d, c, n, tm, V2, A2) /\ t \notin A
<1>1. st = "encdec" /\ Alone(w, {"start", "repost"}, V, A) /\ Fresh(g, d, c, n, tm)
  BY ModeOfWorker
<1>2. Queued("MDC", V2, A2)
  BY <1>1 DEF Alone, Queued
<1> QED BY <1>1, <1>2 DEF PictureOK, Alone

\* The result of a picture is posted.
LEMMA ResultStep ==
    ASSUME NEW st, NEW rt, NEW g \in Grids, NEW d, NEW c, NEW n, NEW tm, NEW V, NEW A,
           PictureOK(st, rt, g, d, c, n, tm, V, A), NEW w \in Workers, V[w].pc = "last",
           NEW V2, \A v \in Workers \ {w} : V2[v] = V[v], V2[w].pc = "idle"
    PROVE  PictureOK("results", rt, g, d, c, n, tm, V2, A)
<1>1. st = "encdec" /\ Alone(w, {"last"}, V, A) /\ Whole(g, d, tm)
  BY LastWorker
<1>2. Quiet(V2, A)
  BY <1>1 DEF Alone, Quiet
<1> QED BY <1>1, <1>2 DEF PictureOK, Whole

\* The tasks of a running picture are for EncDec, and only those.
LEMMA AskedMode ==
    ASSUME NEW st, NEW rt, NEW g \in Grids, NEW d, NEW c, NEW n, NEW tm, NEW V, NEW A,
           PictureOK(st, rt, g, d, c, n, tm, V, A), NEW t \in A
    PROVE  /\ st = "encdec"
           /\ \/ t.type = "ENCDEC" /\ Running(V, A) /\ Wave(g, d, c, n, tm, V, A)
              \/ t.type = "MDC" /\ A = {t} /\ (\A v \in Workers : V[v].pc = "idle") /\ Fresh(g, d, c, n, tm)
              \/ t.type = "SUPERRES" /\ A = {t} /\ (\A v \in Workers : V[v].pc = "idle") /\ Stale(g, d, tm)
<1>1. ~Quiet(V, A) /\ \A w \in Workers : \A S : ~Alone(w, S, V, A)
  BY DEF Quiet, Alone
<1>2. /\ st = "encdec"
      /\ \/ Queued("SUPERRES", V, A) /\ Stale(g, d, tm)
         \/ Queued("MDC", V, A) /\ Fresh(g, d, c, n, tm)
         \/ Running(V, A) /\ Wave(g, d, c, n, tm, V, A)
  BY <1>1 DEF PictureOK
<1>3. CASE Queued("SUPERRES", V, A) /\ Stale(g, d, tm)
  BY <1>2, <1>3 DEF Queued
<1>4. CASE Queued("MDC", V, A) /\ Fresh(g, d, c, n, tm)
  BY <1>2, <1>4 DEF Queued
<1>5. CASE Running(V, A) /\ Wave(g, d, c, n, tm, V, A)
  <2>1. t.type = "ENCDEC"
    BY <1>5 DEF Running
  <2> QED BY <1>2, <1>5, <2>1
<1> QED BY <1>2, <1>3, <1>4, <1>5

\* A worker takes a task of the picture.
LEMMA TakeStep ==
    ASSUME NEW st, NEW rt, NEW g \in Grids, NEW d, NEW c, NEW n, NEW tm, NEW V, NEW A,
           PictureOK(st, rt, g, d, c, n, tm, V, A), NEW w \in Workers, V[w].pc = "idle",
           NEW t \in A, t.row \in Nat, \A u \in A : u.type = t.type /\ u.row = t.row => u = t,
           NEW V2, \A v \in Workers \ {w} : V2[v] = V[v],
           t.type = "MDC" => V2[w].pc = "start",
           t.type = "ENCDEC" => V2[w].pc = "row",
           t.type = "SUPERRES" => V2[w].pc = "renew",
           V2[w].task = t, V2[w].coded = 0, ~V2[w].again,
           NEW A2, A2 = A \ {t}
    PROVE  PictureOK(st, rt, g, d, c, n, tm, V2, A2)
<1>1. /\ st = "encdec"
      /\ \/ t.type = "ENCDEC" /\ Running(V, A) /\ Wave(g, d, c, n, tm, V, A)
         \/ t.type = "MDC" /\ A = {t} /\ (\A v \in Workers : V[v].pc = "idle") /\ Fresh(g, d, c, n, tm)
         \/ t.type = "SUPERRES" /\ A = {t} /\ (\A v \in Workers : V[v].pc = "idle") /\ Stale(g, d, tm)
  BY AskedMode
<1>2. CASE t.type = "MDC" /\ A = {t} /\ (\A v \in Workers : V[v].pc = "idle") /\ Fresh(g, d, c, n, tm)
  <2>1. Alone(w, {"start", "repost"}, V2, A2) /\ Due(V2, w) = 0
    BY <1>2 DEF Alone, Due
  <2>2. \E v \in Workers : Alone(v, {"start", "repost"}, V2, A2) /\ Due(V2, v) = 0
    BY <2>1
  <2> QED BY <1>1, <1>2, <2>2 DEF PictureOK
<1>3. CASE t.type = "SUPERRES" /\ A = {t} /\ (\A v \in Workers : V[v].pc = "idle") /\ Stale(g, d, tm)
  <2>1. Alone(w, {"renew"}, V2, A2)
    BY <1>3 DEF Alone
  <2>2. \E v \in Workers : Alone(v, {"renew"}, V2, A2)
    BY <2>1
  <2> QED BY <1>1, <1>3, <2>2 DEF PictureOK
<1>4. CASE t.type = "ENCDEC" /\ Running(V, A) /\ Wave(g, d, c, n, tm, V, A)
  <2>1. IsGrid(g)
    BY FreshDependencies
  <2>2. V2[w].pc = "row"
    BY <1>4
  <2>3. PICK r : r = t.row
    OBVIOUS
  <2>4. /\ \A u : ~Holds(V, w, u) /\ ~Holds(V2, w, u)
        /\ \A u : ~Leaves(V, w, u) /\ ~Leaves(V2, w, u)
        /\ \A u : ~Drops(V, w, u) /\ ~Drops(V2, w, u)
        /\ \A k : ~Begins(g, V, w, k)
        /\ \A k : Begins(g, V2, w, k) <=> k = r
        /\ Due(V2, w) = 0 /\ Due(V, w) = 0
    BY <2>2, <2>3 DEF Holds, Leaves, Drops, Begins, Due, Counting
  <2>5. /\ \A k : IsAsked(A2, k) => IsAsked(A, k)
        /\ IsAsked(A, r) /\ ~IsAsked(A2, r)
    <3>1. \A u \in A2 : u.row # r
      BY <1>4, <2>3 DEF Running
    <3> QED BY <2>3, <3>1 DEF IsAsked
  <2>6. Wave(g, d, c, n, tm, V2, A2)
    <3>1. /\ V2[w].pc \in {"idle", "row", "bump", "code", "feedback"}
          /\ ~V2[w].again /\ ~(V2[w].pc = "bump") /\ ~(V2[w].pc = "feedback")
      BY <2>2
    <3>2. /\ \A k \in Nat : IsAsked(A2, k) => IsAsked(A, k) \/ Begins(g, V, w, k) \/ Startable(g, d, c, V, k)
          /\ \A k \in Nat : Begins(g, V2, w, k) => IsAsked(A, k) \/ Begins(g, V, w, k) \/ Startable(g, d, c, V, k)
          /\ \A k \in Nat : ~(IsAsked(A2, k) /\ Begins(g, V2, w, k))
      BY <2>4, <2>5
    <3>3. \A u : Holds(V2, w, u) <=> Holds(V, w, u)
      BY <2>4
    <3>4. /\ \A u : ~Leaves(V, w, u) /\ ~Leaves(V2, w, u)
          /\ \A u : ~Drops(V, w, u) /\ ~Drops(V2, w, u)
          /\ Due(V2, w) = Due(V, w)
      BY <2>4
    <3>5. Wave(g, d, c, n, tm, V, A) /\ \A v \in Workers \ {w} : V2[v] = V[v]
      BY <1>4
    <3> QED BY ONLY <2>1, <3>1, <3>2, <3>3, <3>4, <3>5, Moves
  <2>7. Running(V2, A2)
    BY <1>4, <2>2 DEF Running, Counting
  <2> QED BY <1>1, <2>6, <2>7 DEF PictureOK
<1> QED BY <1>1, <1>2, <1>3, <1>4

\* Mode decision configuration posts the picture.
LEMMA ConfigureStep ==
    ASSUME NEW rt \in BOOLEAN, NEW g \in Grids, NEW d, NEW c, NEW n, NEW tm, NEW V, NEW A,
           PictureOK("mdc", rt, g, d, c, n, tm, V, A),
           NEW t, t.type = IF rt THEN "SUPERRES" ELSE "MDC", NEW A2, A2 = A \cup {t}
    PROVE  PictureOK("encdec", rt, g, d, c, n, tm, V, A2) /\ t \notin A
<1>1. /\ Quiet(V, A)
      /\ (rt = TRUE /\ Stale(g, d, tm)) \/ (rt = FALSE /\ Fresh(g, d, c, n, tm))
  BY DEF PictureOK
<1>2. Queued(t.type, V, A2) /\ t \notin A
  BY <1>1 DEF Quiet, Queued
<1>3. CASE rt = TRUE /\ Stale(g, d, tm)
  BY <1>2, <1>3 DEF PictureOK
<1>4. CASE rt = FALSE /\ Fresh(g, d, c, n, tm)
  BY <1>2, <1>4 DEF PictureOK
<1> QED BY <1>1, <1>2, <1>3, <1>4

\* The picture comes back in another size.
LEMMA RetryStep ==
    ASSUME NEW rt, NEW g, NEW d, NEW c, NEW n, NEW tm, NEW V, NEW A,
           PictureOK("results", rt, g, d, c, n, tm, V, A), NEW g2
    PROVE  PictureOK("mdc", TRUE, g2, d, c, n, NoneCoded(g2), V, A)
<1>1. Quiet(V, A) /\ \A s \in DOMAIN d : d[s] \in 0 .. 2
  BY DEF PictureOK, Whole
<1>2. Stale(g2, d, NoneCoded(g2))
  BY <1>1 DEF Stale
<1> QED BY <1>1, <1>2 DEF PictureOK

-----------------------------------------------------------------------------
(* The steps of a worker.                                                   *)

\* A worker moves in its picture; the other pictures see nothing of it.
LEMMA Local ==
    ASSUME TypesInv, PicturesInv, NEW w \in Workers, worker[w].pc \notin {"idle", "release"},
           NEW x, worker' = [worker EXCEPT ![w] = x], x.task = worker[w].task
    PROVE  /\ Pic(w) \in Pictures /\ grid[Pic(w)] \in Grids /\ worker[w] \in WorkerType
           /\ Seen(Pic(w))
           /\ ViewOf(worker, Pic(w))[w] = worker[w]
           /\ \A v \in Workers \ {w} : ViewOf(worker', Pic(w))[v] = ViewOf(worker, Pic(w))[v]
           /\ x.pc \notin {"idle", "release"} => ViewOf(worker', Pic(w))[w] = x
           /\ x.pc \in {"idle", "release"} => ViewOf(worker', Pic(w))[w].pc = "idle"
           /\ \A r \in Pictures \ {Pic(w)} : ViewOf(worker', r) = ViewOf(worker, r)
<1>1. worker \in [Workers -> WorkerType] /\ worker[w].task \in Tasks /\ grid \in [Pictures -> Grids]
  BY DEF TypesInv
<1>2. Pic(w) \in Pictures /\ worker[w] \in WorkerType
  BY <1>1 DEF Pic, Tasks
<1>3. worker'[w] = x /\ \A v \in Workers \ {w} : worker'[v] = worker[v]
  BY <1>1
<1>4. PICK p, W, W2 : p = Pic(w) /\ W = worker /\ W2 = worker'
  OBVIOUS
<1>5. \A v \in Workers \ {w} : W2[v] = W[v]
  BY <1>3, <1>4
<1>6. Serves(W[w], p) /\ (Serves(W2[w], p) <=> x.pc \notin {"idle", "release"})
  BY <1>3, <1>4 DEF Serves, Pic
<1>7. \A r \in Pictures \ {p} : ~Serves(W[w], r) /\ ~Serves(W2[w], r)
  BY <1>3, <1>4 DEF Serves, Pic
<1>8. /\ \A v \in Workers \ {w} : ViewOf(W2, p)[v] = ViewOf(W, p)[v]
      /\ ViewOf(W, p)[w] = W[w]
      /\ Serves(W2[w], p) => ViewOf(W2, p)[w] = W2[w]
      /\ ~Serves(W2[w], p) => ViewOf(W2, p)[w] = Idle
  BY ONLY <1>5, <1>6, w \in Workers, Views
<1>9. \A r \in Pictures \ {p} : ViewOf(W2, r) = ViewOf(W, r)
  BY ONLY <1>5, <1>7, w \in Workers, SameView
<1>10. Seen(p)
  BY <1>2, <1>4 DEF PicturesInv
<1>11. grid[p] \in Grids
  BY <1>1, <1>2, <1>4
<1>12. /\ x.pc \notin {"idle", "release"} => ViewOf(worker', p)[w] = x
       /\ x.pc \in {"idle", "release"} => ViewOf(worker', p)[w].pc = "idle"
  BY <1>3, <1>4, <1>6, <1>8 DEF Idle
<1>13. /\ \A v \in Workers \ {w} : ViewOf(worker', p)[v] = ViewOf(worker, p)[v]
       /\ ViewOf(worker, p)[w] = worker[w]
       /\ \A r \in Pictures \ {p} : ViewOf(worker', r) = ViewOf(worker, r)
  BY <1>4, <1>8, <1>9
<1> QED BY <1>2, <1>4, <1>10, <1>11, <1>12, <1>13

\* One picture moves.
LEMMA PicturesNext ==
    ASSUME PicturesInv, NEW p \in Pictures,
           \A r \in Pictures \ {p} :
              /\ ViewOf(worker', r) = ViewOf(worker, r) /\ AskedOf(queue', r) = AskedOf(queue, r)
              /\ stage'[r] = stage[r] /\ retry'[r] = retry[r] /\ grid'[r] = grid[r] /\ dep'[r] = dep[r]
              /\ cur'[r] = cur[r] /\ count'[r] = count[r] /\ times'[r] = times[r],
           PictureOK(stage'[p], retry'[p], grid'[p], dep'[p], cur'[p], count'[p], times'[p],
                     ViewOf(worker', p), AskedOf(queue', p))
    PROVE  PicturesInv'
<1>1. ASSUME NEW r \in Pictures \ {p}
      PROVE  PictureOK(stage'[r], retry'[r], grid'[r], dep'[r], cur'[r], count'[r], times'[r],
                       ViewOf(worker', r), AskedOf(queue', r))
  <2>1. PictureOK(stage[r], retry[r], grid[r], dep[r], cur[r], count[r], times[r],
                  ViewOf(worker, r), AskedOf(queue, r))
    BY DEF PicturesInv, Seen
  <2> QED BY <2>1
<1> QED BY <1>1 DEF PicturesInv, Seen

\* A worker that has a task keeps one.
LEMMA WorkersNext ==
    ASSUME TypesInv, PoolInv, NEW w \in Workers, worker[w].pc # "idle",
           NEW x \in WorkerType, worker' = [worker EXCEPT ![w] = x], x.pc # "idle",
           x.task = worker[w].task, x.pc \in {"row", "bump"} => worker[w].pc \in {"row", "bump"}
    PROVE  /\ worker' \in [Workers -> WorkerType]
           /\ \A v \in Workers : worker'[v].pc # "idle" => worker'[v].task \in Tasks
           /\ \A v \in Workers : worker'[v].pc \in {"row", "bump"} => worker'[v].task.type = "ENCDEC"
           /\ BusyOf(worker') = BusyOf(worker)
<1>1. worker \in [Workers -> WorkerType]
  BY DEF TypesInv
<1>2. worker' \in [Workers -> WorkerType] /\ worker'[w] = x /\ \A v \in Workers \ {w} : worker'[v] = worker[v]
  BY <1>1
<1>3. \A v \in Workers : worker'[v].pc # "idle" => worker'[v].task \in Tasks
  BY <1>2 DEF TypesInv
<1>4. \A v \in Workers : worker'[v].pc \in {"row", "bump"} => worker'[v].task.type = "ENCDEC"
  BY <1>2 DEF TypesInv
<1>5. \A v \in Workers : worker'[v].pc # "idle" <=> worker[v].pc # "idle"
  BY <1>2
<1>6. BusyOf(worker') = BusyOf(worker)
  BY <1>5 DEF BusyOf
<1> QED BY <1>2, <1>3, <1>4, <1>6

\* The invariant is kept when it is kept for the picture of the worker that moves.
LEMMA Kept ==
    ASSUME IInv, NEW w \in Workers, worker[w].pc \notin {"idle", "release"},
           NEW x \in WorkerType, worker' = [worker EXCEPT ![w] = x], x.pc # "idle",
           x.task = worker[w].task, x.pc \in {"row", "bump"} => worker[w].pc \in {"row", "bump"},
           NEW p, p = Pic(w),
           full' = full, grid' = grid, retry' = retry,
           DOMAIN dep' = Pictures, DOMAIN cur' = Pictures, DOMAIN times' = Pictures,
           \A r \in DOMAIN cur'[p] : cur'[p][r] \in Nat,
           count' \in [Pictures -> Nat], stage' \in [Pictures -> {"mdc", "encdec", "results"}],
           rounds' \in [Pictures -> 0 .. MaxRounds],
           free' \in Nat, queue' \in Seq(Tasks), free' + Len(queue') = free + Len(queue),
           \A i, j \in DOMAIN queue' : queue'[i] = queue'[j] => i = j,
           \A r \in Pictures \ {p} :
              /\ AskedOf(queue', r) = AskedOf(queue, r) /\ stage'[r] = stage[r] /\ dep'[r] = dep[r]
              /\ cur'[r] = cur[r] /\ count'[r] = count[r] /\ times'[r] = times[r],
           PictureOK(stage'[p], retry[p], grid[p], dep'[p], cur'[p], count'[p], times'[p],
                     ViewOf(worker', p), AskedOf(queue', p))
    PROVE  IInv'
<1>1. TypesInv /\ PoolInv /\ PicturesInv
  BY DEF IInv
<1>2. p \in Pictures /\ \A r \in Pictures \ {p} : ViewOf(worker', r) = ViewOf(worker, r)
  BY <1>1, Local
<1>3. PicturesInv'
  <2>1. PICK q : q = p
    OBVIOUS
  <2>2. \A r \in Pictures \ {q} :
           /\ ViewOf(worker', r) = ViewOf(worker, r) /\ AskedOf(queue', r) = AskedOf(queue, r)
           /\ stage'[r] = stage[r] /\ retry'[r] = retry[r] /\ grid'[r] = grid[r] /\ dep'[r] = dep[r]
           /\ cur'[r] = cur[r] /\ count'[r] = count[r] /\ times'[r] = times[r]
    BY <1>2, <2>1
  <2>3. PictureOK(stage'[q], retry'[q], grid'[q], dep'[q], cur'[q], count'[q], times'[q],
                  ViewOf(worker', q), AskedOf(queue', q))
    BY <2>1
  <2> QED BY ONLY <1>1, <1>2, <2>1, <2>2, <2>3, PicturesNext
<1>4. /\ worker' \in [Workers -> WorkerType]
      /\ \A v \in Workers : worker'[v].pc # "idle" => worker'[v].task \in Tasks
      /\ \A v \in Workers : worker'[v].pc \in {"row", "bump"} => worker'[v].task.type = "ENCDEC"
      /\ BusyOf(worker') = BusyOf(worker)
  BY <1>1, WorkersNext
<1>5. \A q \in Pictures : \A r \in DOMAIN cur'[q] : cur'[q][r] \in Nat
  <2> TAKE q \in Pictures
  <2>1. CASE q = p
    BY <2>1
  <2>2. CASE q # p
    <3>1. cur'[q] = cur[q] /\ \A r \in DOMAIN cur[q] : cur[q][r] \in Nat
      BY <1>1, <2>2 DEF TypesInv
    <3> QED BY <3>1
  <2> QED BY <2>1, <2>2
<1>6. TypesInv'
  BY <1>1, <1>4, <1>5 DEF TypesInv
<1>7. PoolInv'
  <2>1. TaskCount' = TaskCount
    BY DEF TaskCount
  <2>2. IsFiniteSet(BusyOf(worker')) /\ Cardinality(BusyOf(worker')) \in Nat /\ Len(queue) \in Nat /\ Len(queue') \in Nat
        /\ free \in Nat
    BY <1>1, <1>4, FS_CardinalityType DEF PoolInv, TypesInv
  <2>3. free' + Len(queue') + Cardinality(BusyOf(worker')) = TaskCount'
    BY <1>1, <1>4, <2>1, <2>2 DEF PoolInv
  <2> QED BY <2>2, <2>3 DEF PoolInv
<1> QED BY <1>3, <1>6, <1>7 DEF IInv

\* The same for a worker that posts and takes nothing.
LEMMA KeptAlone ==
    ASSUME IInv, NEW w \in Workers, worker[w].pc \notin {"idle", "release"},
           NEW x \in WorkerType, worker' = [worker EXCEPT ![w] = x], x.pc # "idle",
           x.task = worker[w].task, x.pc \in {"row", "bump"} => worker[w].pc \in {"row", "bump"},
           NEW p, p = Pic(w),
           full' = full, grid' = grid, retry' = retry, stage' = stage, free' = free, queue' = queue,
           rounds' \in [Pictures -> 0 .. MaxRounds],
           DOMAIN dep' = Pictures, DOMAIN cur' = Pictures, DOMAIN times' = Pictures,
           \A r \in DOMAIN cur'[p] : cur'[p][r] \in Nat, count' \in [Pictures -> Nat],
           \A r \in Pictures \ {p} : /\ dep'[r] = dep[r] /\ cur'[r] = cur[r]
                                     /\ count'[r] = count[r] /\ times'[r] = times[r],
           PictureOK(stage[p], retry[p], grid[p], dep'[p], cur'[p], count'[p], times'[p],
                     ViewOf(worker', p), AskedOf(queue, p))
    PROVE  IInv'
<1>1. stage' \in [Pictures -> {"mdc", "encdec", "results"}]
  BY DEF IInv, TypesInv
<1>2. /\ free' \in Nat /\ queue' \in Seq(Tasks) /\ free' + Len(queue') = free + Len(queue)
      /\ \A i, j \in DOMAIN queue' : queue'[i] = queue'[j] => i = j
  BY DEF IInv, TypesInv, PoolInv
<1>3. \A r \in Pictures \ {p} :
         /\ AskedOf(queue', r) = AskedOf(queue, r) /\ stage'[r] = stage[r] /\ dep'[r] = dep[r]
         /\ cur'[r] = cur[r] /\ count'[r] = count[r] /\ times'[r] = times[r]
  OBVIOUS
<1>4. PictureOK(stage'[p], retry[p], grid[p], dep'[p], cur'[p], count'[p], times'[p],
                ViewOf(worker', p), AskedOf(queue', p))
  OBVIOUS
<1> QED BY <1>1, <1>2, <1>3, <1>4, Kept

\* What the step of a worker starts from.
LEMMA Before ==
    ASSUME IInv, NEW w \in Workers, worker[w].pc \notin {"idle", "release"},
           NEW x, worker' = [worker EXCEPT ![w] = x], x.task = worker[w].task
    PROVE  /\ Pic(w) \in Pictures /\ grid[Pic(w)] \in Grids /\ worker[w] \in WorkerType
           /\ Seen(Pic(w))
           /\ ViewOf(worker, Pic(w))[w] = worker[w]
           /\ \A v \in Workers \ {w} : ViewOf(worker', Pic(w))[v] = ViewOf(worker, Pic(w))[v]
           /\ x.pc \notin {"idle", "release"} => ViewOf(worker', Pic(w))[w] = x
           /\ x.pc \in {"idle", "release"} => ViewOf(worker', Pic(w))[w].pc = "idle"
           /\ full \in Grids /\ grid \in [Pictures -> Grids]
           /\ DOMAIN dep = Pictures /\ DOMAIN cur = Pictures /\ DOMAIN times = Pictures
           /\ \A r \in DOMAIN cur[Pic(w)] : cur[Pic(w)][r] \in Nat
           /\ count \in [Pictures -> Nat] /\ rounds \in [Pictures -> 0 .. MaxRounds]
<1>1. TypesInv /\ PicturesInv
  BY DEF IInv
<1>2. /\ Pic(w) \in Pictures /\ grid[Pic(w)] \in Grids /\ worker[w] \in WorkerType
      /\ Seen(Pic(w))
      /\ ViewOf(worker, Pic(w))[w] = worker[w]
      /\ \A v \in Workers \ {w} : ViewOf(worker', Pic(w))[v] = ViewOf(worker, Pic(w))[v]
      /\ x.pc \notin {"idle", "release"} => ViewOf(worker', Pic(w))[w] = x
      /\ x.pc \in {"idle", "release"} => ViewOf(worker', Pic(w))[w].pc = "idle"
  BY <1>1, Local
<1> QED BY <1>1, <1>2 DEF TypesInv

\* The picture is begun.
LEMMA StartPictureKeeps ==
    ASSUME IInv, NEW w \in Workers, StartPicture(w)
    PROVE  IInv'
<1>1. PICK p, g, d, c, n, tm, V, A, V2, c2 :
         /\ p = Pic(w) /\ g = grid[p] /\ d = dep[p] /\ c = cur[p] /\ n = count[p] /\ tm = times[p]
         /\ V = ViewOf(worker, p) /\ A = AskedOf(queue, p) /\ V2 = ViewOf(worker', p)
         /\ c2 = [First[g] EXCEPT ![0] = @ + 1]
  OBVIOUS
<1>2. PICK x : x = [worker[w] EXCEPT !.pc = "code", !.seg = First[g][0]] /\ worker' = [worker EXCEPT ![w] = x]
  BY <1>1 DEF StartPicture, At, Set, GridAt, FreshCur
<1>3. /\ worker[w].pc = "start"
      /\ cur' = [cur EXCEPT ![p] = c2]
      /\ UNCHANGED <<full, grid, dep, count, stage, retry, rounds, times, free, queue>>
  BY <1>1 DEF StartPicture, At, Set, GridAt, FreshCur, pictureVars, segmentVars, taskVars
<1>4. x.task = worker[w].task /\ x.pc = "code" /\ x.coded = worker[w].coded /\ x.seg = First[g][0]
  <2>1. worker[w] \in WorkerType
    BY DEF IInv, TypesInv
  <2> QED BY <1>1, <1>2, <2>1 DEF WorkerType
<1>5. /\ p \in Pictures /\ g \in Grids /\ worker[w] \in WorkerType
      /\ PictureOK(stage[p], retry[p], g, d, c, n, tm, V, A)
      /\ V[w] = worker[w] /\ V2[w] = x /\ \A v \in Workers \ {w} : V2[v] = V[v]
      /\ DOMAIN dep = Pictures /\ DOMAIN cur = Pictures /\ DOMAIN times = Pictures
      /\ \A r \in DOMAIN c : c[r] \in Nat
      /\ count \in [Pictures -> Nat] /\ rounds \in [Pictures -> 0 .. MaxRounds]
  <2>1. /\ Pic(w) \in Pictures /\ grid[Pic(w)] \in Grids /\ worker[w] \in WorkerType /\ Seen(Pic(w))
        /\ ViewOf(worker, Pic(w))[w] = worker[w] /\ ViewOf(worker', Pic(w))[w] = x
        /\ \A v \in Workers \ {w} : ViewOf(worker', Pic(w))[v] = ViewOf(worker, Pic(w))[v]
        /\ DOMAIN dep = Pictures /\ DOMAIN cur = Pictures /\ DOMAIN times = Pictures
        /\ \A r \in DOMAIN cur[Pic(w)] : cur[Pic(w)][r] \in Nat
        /\ count \in [Pictures -> Nat] /\ rounds \in [Pictures -> 0 .. MaxRounds]
    BY <1>2, <1>3, <1>4, Before
  <2> QED BY <1>1, <2>1 DEF Seen
<1>6. PictureOK(stage[p], retry[p], g, d, c2, n, tm, V2, A)
  BY <1>1, <1>3, <1>4, <1>5, StartStep
<1>7. /\ DOMAIN cur' = Pictures /\ cur'[p] = c2 /\ \A r \in Pictures \ {p} : cur'[r] = cur[r]
      /\ dep'[p] = d /\ count'[p] = n /\ times'[p] = tm
  BY <1>1, <1>3, <1>5
<1>8. First[g] \in [Rows(g) -> Nat] /\ 0 \in Rows(g) /\ c2 \in [Rows(g) -> Nat]
  BY <1>1, <1>5, FirstIsReady, FreshDependencies
<1>9. x \in WorkerType
  <2>1. First[g][0] \in Nat
    BY <1>8
  <2> QED BY <1>2, <1>5, <2>1 DEF WorkerType, Steps
<1>10. PictureOK(stage[p], retry[p], grid[p], dep'[p], cur'[p], count'[p], times'[p],
                 ViewOf(worker', p), AskedOf(queue, p))
  BY <1>1, <1>6, <1>7
<1>11. /\ \A r \in DOMAIN cur'[p] : cur'[p][r] \in Nat
       /\ count' \in [Pictures -> Nat] /\ rounds' \in [Pictures -> 0 .. MaxRounds]
       /\ DOMAIN dep' = Pictures /\ DOMAIN cur' = Pictures /\ DOMAIN times' = Pictures
       /\ \A r \in Pictures \ {p} : /\ dep'[r] = dep[r] /\ cur'[r] = cur[r]
                                     /\ count'[r] = count[r] /\ times'[r] = times[r]
  BY <1>3, <1>5, <1>7, <1>8
<1>12. p = Pic(w)
  BY <1>1
<1> QED BY ONLY IInv, w \in Workers, <1>2, <1>3, <1>4, <1>5, <1>9, <1>10, <1>11, <1>12, KeptAlone

\* The current segment of a row is read.
LEMMA StartRowKeeps ==
    ASSUME IInv, NEW w \in Workers, StartRow(w)
    PROVE  IInv'
<1>1. PICK p, g, d, c, n, tm, V, A, V2 :
         /\ p = Pic(w) /\ g = grid[p] /\ d = dep[p] /\ c = cur[p] /\ n = count[p] /\ tm = times[p]
         /\ V = ViewOf(worker, p) /\ A = AskedOf(queue, p) /\ V2 = ViewOf(worker', p)
  OBVIOUS
<1>2. PICK x : x = [worker[w] EXCEPT !.pc = "bump", !.seg = c[worker[w].task.row]] /\ worker' = [worker EXCEPT ![w] = x]
  BY <1>1 DEF StartRow, At, Set
<1>3. /\ worker[w].pc = "row"
      /\ cur' = cur
      /\ UNCHANGED <<full, grid, dep, count, stage, retry, rounds, times, free, queue>>
  BY <1>1 DEF StartRow, At, Set, pictureVars, segmentVars, taskVars
<1>4. x.task = worker[w].task /\ x.pc = "bump" /\ x.coded = worker[w].coded /\ x.again = worker[w].again /\ x.seg = c[worker[w].task.row]
  <2>1. worker[w] \in WorkerType
    BY DEF IInv, TypesInv
  <2> QED BY <1>1, <1>2, <2>1 DEF WorkerType
<1>5. /\ p \in Pictures /\ g \in Grids /\ worker[w] \in WorkerType
      /\ PictureOK(stage[p], retry[p], g, d, c, n, tm, V, A)
      /\ V[w] = worker[w] /\ V2[w] = x /\ \A v \in Workers \ {w} : V2[v] = V[v]
      /\ DOMAIN dep = Pictures /\ DOMAIN cur = Pictures /\ DOMAIN times = Pictures
      /\ \A r \in DOMAIN c : c[r] \in Nat
      /\ count \in [Pictures -> Nat] /\ rounds \in [Pictures -> 0 .. MaxRounds]
  <2>1. /\ Pic(w) \in Pictures /\ grid[Pic(w)] \in Grids /\ worker[w] \in WorkerType /\ Seen(Pic(w))
        /\ ViewOf(worker, Pic(w))[w] = worker[w] /\ ViewOf(worker', Pic(w))[w] = x
        /\ \A v \in Workers \ {w} : ViewOf(worker', Pic(w))[v] = ViewOf(worker, Pic(w))[v]
        /\ DOMAIN dep = Pictures /\ DOMAIN cur = Pictures /\ DOMAIN times = Pictures
        /\ \A r \in DOMAIN cur[Pic(w)] : cur[Pic(w)][r] \in Nat
        /\ count \in [Pictures -> Nat] /\ rounds \in [Pictures -> 0 .. MaxRounds]
    BY <1>2, <1>3, <1>4, Before
  <2> QED BY <1>1, <2>1 DEF Seen
<1>6. PictureOK(stage[p], retry[p], g, d, c, n, tm, V2, A) /\ c[worker[w].task.row] \in Nat
  <2>1. worker[w].task.row \in Nat
    BY <1>3 DEF IInv, TypesInv, Tasks
  <2>2. /\ PictureOK(stage[p], retry[p], g, d, c, n, tm, V2, A)
        /\ V[w].task.row \in Rows(g) /\ c \in [Rows(g) -> Nat]
    BY <1>3, <1>4, <1>5, <2>1, RowStep
  <2> QED BY <1>5, <2>2
<1>7. /\ DOMAIN cur' = Pictures /\ cur'[p] = c /\ \A r \in Pictures \ {p} : cur'[r] = cur[r]
      /\ dep'[p] = d /\ count'[p] = n /\ times'[p] = tm
  BY <1>1, <1>3, <1>5
<1>8. \A r \in DOMAIN cur'[p] : cur'[p][r] \in Nat
  BY <1>5, <1>7
<1>9. x \in WorkerType
  BY <1>2, <1>5, <1>6 DEF WorkerType, Steps
<1>10. PictureOK(stage[p], retry[p], grid[p], dep'[p], cur'[p], count'[p], times'[p],
                 ViewOf(worker', p), AskedOf(queue, p))
  BY <1>1, <1>6, <1>7
<1>11. /\ \A r \in DOMAIN cur'[p] : cur'[p][r] \in Nat
       /\ count' \in [Pictures -> Nat] /\ rounds' \in [Pictures -> 0 .. MaxRounds]
       /\ DOMAIN dep' = Pictures /\ DOMAIN cur' = Pictures /\ DOMAIN times' = Pictures
       /\ \A r \in Pictures \ {p} : /\ dep'[r] = dep[r] /\ cur'[r] = cur[r]
                                     /\ count'[r] = count[r] /\ times'[r] = times[r]
  BY <1>3, <1>5, <1>7, <1>8
<1>12. p = Pic(w)
  BY <1>1
<1> QED BY ONLY IInv, w \in Workers, <1>2, <1>3, <1>4, <1>5, <1>9, <1>10, <1>11, <1>12, KeptAlone

\* The current segment of a row is incremented.
LEMMA BumpRowKeeps ==
    ASSUME IInv, NEW w \in Workers, BumpRow(w)
    PROVE  IInv'
<1>1. PICK p, g, d, c, n, tm, V, A, V2, c2 :
         /\ p = Pic(w) /\ g = grid[p] /\ d = dep[p] /\ c = cur[p] /\ n = count[p] /\ tm = times[p]
         /\ V = ViewOf(worker, p) /\ A = AskedOf(queue, p) /\ V2 = ViewOf(worker', p)
         /\ c2 = [c EXCEPT ![worker[w].task.row] = @ + 1]
  OBVIOUS
<1>2. PICK x : x = [worker[w] EXCEPT !.pc = "code"] /\ worker' = [worker EXCEPT ![w] = x]
  BY <1>1 DEF BumpRow, At, Move
<1>3. /\ worker[w].pc = "bump"
      /\ cur' = [cur EXCEPT ![p][worker[w].task.row] = @ + 1]
      /\ UNCHANGED <<full, grid, dep, count, stage, retry, rounds, times, free, queue>>
  BY <1>1 DEF BumpRow, At, Move, pictureVars, segmentVars, taskVars
<1>4. x.task = worker[w].task /\ x.pc = "code" /\ x.coded = worker[w].coded /\ x.seg = worker[w].seg
  <2>1. worker[w] \in WorkerType
    BY DEF IInv, TypesInv
  <2> QED BY <1>1, <1>2, <2>1 DEF WorkerType
<1>5. /\ p \in Pictures /\ g \in Grids /\ worker[w] \in WorkerType
      /\ PictureOK(stage[p], retry[p], g, d, c, n, tm, V, A)
      /\ V[w] = worker[w] /\ V2[w] = x /\ \A v \in Workers \ {w} : V2[v] = V[v]
      /\ DOMAIN dep = Pictures /\ DOMAIN cur = Pictures /\ DOMAIN times = Pictures
      /\ \A r \in DOMAIN c : c[r] \in Nat
      /\ count \in [Pictures -> Nat] /\ rounds \in [Pictures -> 0 .. MaxRounds]
  <2>1. /\ Pic(w) \in Pictures /\ grid[Pic(w)] \in Grids /\ worker[w] \in WorkerType /\ Seen(Pic(w))
        /\ ViewOf(worker, Pic(w))[w] = worker[w] /\ ViewOf(worker', Pic(w))[w] = x
        /\ \A v \in Workers \ {w} : ViewOf(worker', Pic(w))[v] = ViewOf(worker, Pic(w))[v]
        /\ DOMAIN dep = Pictures /\ DOMAIN cur = Pictures /\ DOMAIN times = Pictures
        /\ \A r \in DOMAIN cur[Pic(w)] : cur[Pic(w)][r] \in Nat
        /\ count \in [Pictures -> Nat] /\ rounds \in [Pictures -> 0 .. MaxRounds]
    BY <1>2, <1>3, <1>4, Before
  <2> QED BY <1>1, <2>1 DEF Seen
<1>6. PictureOK(stage[p], retry[p], g, d, c2, n, tm, V2, A) /\ \A r \in DOMAIN c2 : c2[r] \in Nat
  <2>1. worker[w].task.row \in Nat
    BY <1>3 DEF IInv, TypesInv, Tasks
  <2>2. /\ PictureOK(stage[p], retry[p], g, d, c2, n, tm, V2, A)
        /\ V[w].task.row \in Rows(g) /\ c \in [Rows(g) -> Nat]
    <3>1. PICK k : V[w].task.row \in Nat => k = [c EXCEPT ![V[w].task.row] = @ + 1]
      OBVIOUS
    <3>2. V[w].pc = "bump" /\ V[w].task.row \in Nat /\ V2[w].pc = "code" /\ V2[w].seg = V[w].seg /\ V2[w].coded = V[w].coded
      BY <1>3, <1>4, <1>5, <2>1
    <3>3. PictureOK(stage[p], retry[p], g, d, k, n, tm, V2, A) /\ V[w].task.row \in Rows(g) /\ c \in [Rows(g) -> Nat]
      BY ONLY w \in Workers, <1>5, <3>1, <3>2, BumpStep
    <3>4. k = c2
      BY <1>1, <1>5, <3>1, <3>2
    <3> QED BY <3>3, <3>4
  <2>3. c2 \in [Rows(g) -> Nat]
    BY <1>1, <1>5, <2>2
  <2> QED BY <2>2, <2>3
<1>7. /\ DOMAIN cur' = Pictures /\ cur'[p] = c2 /\ \A r \in Pictures \ {p} : cur'[r] = cur[r]
      /\ dep'[p] = d /\ count'[p] = n /\ times'[p] = tm
  BY <1>1, <1>3, <1>5
<1>8. \A r \in DOMAIN cur'[p] : cur'[p][r] \in Nat
  BY <1>6, <1>7
<1>9. x \in WorkerType
  BY <1>2, <1>5 DEF WorkerType, Steps
<1>10. PictureOK(stage[p], retry[p], grid[p], dep'[p], cur'[p], count'[p], times'[p],
                 ViewOf(worker', p), AskedOf(queue, p))
  BY <1>1, <1>6, <1>7
<1>11. /\ \A r \in DOMAIN cur'[p] : cur'[p][r] \in Nat
       /\ count' \in [Pictures -> Nat] /\ rounds' \in [Pictures -> 0 .. MaxRounds]
       /\ DOMAIN dep' = Pictures /\ DOMAIN cur' = Pictures /\ DOMAIN times' = Pictures
       /\ \A r \in Pictures \ {p} : /\ dep'[r] = dep[r] /\ cur'[r] = cur[r]
                                     /\ count'[r] = count[r] /\ times'[r] = times[r]
  BY <1>3, <1>5, <1>7, <1>8
<1>12. p = Pic(w)
  BY <1>1
<1> QED BY ONLY IInv, w \in Workers, <1>2, <1>3, <1>4, <1>5, <1>9, <1>10, <1>11, <1>12, KeptAlone

\* A segment is coded.
LEMMA CodeKeeps ==
    ASSUME IInv, NEW w \in Workers, Code(w)
    PROVE  IInv' /\ \E p \in Pictures : /\ stage[p] = "encdec" /\ CodedAfter(grid[p], times[p], times'[p])
                                    /\ \A r \in Pictures \ {p} : times'[r] = times[r]
<1>1. PICK p, g, d, c, n, tm, V, A, V2, tm2 :
         /\ p = Pic(w) /\ g = grid[p] /\ d = dep[p] /\ c = cur[p] /\ n = count[p] /\ tm = times[p]
         /\ V = ViewOf(worker, p) /\ A = AskedOf(queue, p) /\ V2 = ViewOf(worker', p)
         /\ tm2 = SweptOnce(g, worker[w].seg, tm)
  OBVIOUS
<1>2. PICK x : x = [worker[w] EXCEPT !.pc = "right", !.from = worker[w].seg, !.self = FALSE, !.again = FALSE,
                                 !.coded = @ + Valid[g][worker[w].seg]] /\ worker' = [worker EXCEPT ![w] = x]
  BY <1>1 DEF Code, At, Set, GridAt, SweptOnce
<1>3. /\ worker[w].pc = "code"
      /\ times' = [times EXCEPT ![p] = tm2]
      /\ UNCHANGED <<full, grid, dep, cur, count, stage, retry, rounds, free, queue>>
  BY <1>1 DEF Code, At, Set, GridAt, SweptOnce, pictureVars, segmentVars, taskVars
<1>4. x.task = worker[w].task /\ x.pc = "right" /\ x.from = worker[w].seg /\ ~x.self /\ ~x.again
      /\ x.coded = worker[w].coded + Valid[g][worker[w].seg]
  <2>1. worker[w] \in WorkerType
    BY DEF IInv, TypesInv
  <2> QED BY <1>1, <1>2, <2>1 DEF WorkerType
<1>5. /\ p \in Pictures /\ g \in Grids /\ worker[w] \in WorkerType
      /\ PictureOK(stage[p], retry[p], g, d, c, n, tm, V, A)
      /\ V[w] = worker[w] /\ V2[w] = x /\ \A v \in Workers \ {w} : V2[v] = V[v]
      /\ DOMAIN dep = Pictures /\ DOMAIN cur = Pictures /\ DOMAIN times = Pictures
      /\ \A r \in DOMAIN c : c[r] \in Nat
      /\ count \in [Pictures -> Nat] /\ rounds \in [Pictures -> 0 .. MaxRounds]
  <2>1. /\ Pic(w) \in Pictures /\ grid[Pic(w)] \in Grids /\ worker[w] \in WorkerType /\ Seen(Pic(w))
        /\ ViewOf(worker, Pic(w))[w] = worker[w] /\ ViewOf(worker', Pic(w))[w] = x
        /\ \A v \in Workers \ {w} : ViewOf(worker', Pic(w))[v] = ViewOf(worker, Pic(w))[v]
        /\ DOMAIN dep = Pictures /\ DOMAIN cur = Pictures /\ DOMAIN times = Pictures
        /\ \A r \in DOMAIN cur[Pic(w)] : cur[Pic(w)][r] \in Nat
        /\ count \in [Pictures -> Nat] /\ rounds \in [Pictures -> 0 .. MaxRounds]
    BY <1>2, <1>3, <1>4, Before
  <2> QED BY <1>1, <2>1 DEF Seen
<1>6. PictureOK(stage[p], retry[p], g, d, c, n, tm2, V2, A) /\ Valid[g][worker[w].seg] \in Nat
      /\ stage[p] = "encdec" /\ CodedAfter(g, tm, tm2)
  <2>1. V[w].pc = "code" /\ V[w].coded \in Nat
    BY <1>3, <1>5 DEF WorkerType
  <2>2. PICK m, k : m = Valid[g][V[w].seg] /\ k = SweptOnce(g, V[w].seg, tm)
    OBVIOUS
  <2>3. g \in Grids /\ PictureOK(stage[p], retry[p], g, d, c, n, tm, V, A) /\ \A v \in Workers \ {w} : V2[v] = V[v]
    BY <1>5
  <2>4. V[w].seg \in Scan(g) /\ Valid[g][V[w].seg] \in Nat /\ stage[p] = "encdec"
    BY ONLY w \in Workers, <2>1, <2>3, HeldSegment
  <2>5. m \in Nat
    BY <2>2, <2>4
  <2>6. /\ V2[w].pc = "right" /\ V2[w].from = V[w].seg /\ ~V2[w].self /\ ~V2[w].again
        /\ V2[w].coded = V[w].coded + m
    BY <1>4, <1>5, <2>2
  <2>7. PictureOK(stage[p], retry[p], g, d, c, n, k, V2, A)
    BY ONLY w \in Workers, <2>1, <2>2, <2>3, <2>5, <2>6, CodeStep
  <2>8. CodedAfter(g, tm, SweptOnce(g, V[w].seg, tm))
    BY ONLY w \in Workers, <2>1, <2>3, CodedStep
  <2>9. k = tm2
    BY <1>1, <1>5, <2>2
  <2> QED BY <1>5, <2>2, <2>4, <2>7, <2>8, <2>9
<1>7. /\ DOMAIN dep' = Pictures /\ DOMAIN cur' = Pictures /\ DOMAIN times' = Pictures
      /\ dep'[p] = d /\ cur'[p] = c /\ count'[p] = n /\ times'[p] = tm2
      /\ count' \in [Pictures -> Nat]
      /\ \A r \in Pictures \ {p} : /\ dep'[r] = dep[r] /\ cur'[r] = cur[r]
                                    /\ count'[r] = count[r] /\ times'[r] = times[r]
  BY <1>1, <1>3, <1>5
<1>8. \A r \in DOMAIN cur'[p] : cur'[p][r] \in Nat
  BY <1>5, <1>7
<1>9. x \in WorkerType
  <2>1. worker[w].coded + Valid[g][worker[w].seg] \in Nat /\ worker[w].seg \in Nat
    BY <1>5, <1>6 DEF WorkerType
  <2> QED BY <1>2, <1>5, <2>1 DEF WorkerType, Steps
<1>10. PictureOK(stage[p], retry[p], grid[p], dep'[p], cur'[p], count'[p], times'[p],
                 ViewOf(worker', p), AskedOf(queue, p))
  BY <1>1, <1>6, <1>7
<1>11. /\ \A r \in DOMAIN cur'[p] : cur'[p][r] \in Nat
       /\ count' \in [Pictures -> Nat] /\ rounds' \in [Pictures -> 0 .. MaxRounds]
       /\ DOMAIN dep' = Pictures /\ DOMAIN cur' = Pictures /\ DOMAIN times' = Pictures
       /\ \A r \in Pictures \ {p} : /\ dep'[r] = dep[r] /\ cur'[r] = cur[r]
                                     /\ count'[r] = count[r] /\ times'[r] = times[r]
  BY <1>3, <1>5, <1>7, <1>8
<1>12. p = Pic(w)
  BY <1>1
<1>13. IInv'
   BY ONLY IInv, w \in Workers, <1>2, <1>3, <1>4, <1>5, <1>9, <1>10, <1>11, <1>12, KeptAlone
<1>14. CodedAfter(grid[p], times[p], times'[p])
  BY <1>1, <1>6, <1>7
<1> QED BY <1>5, <1>6, <1>7, <1>13, <1>14

\* The segment on the right is released, and waits for another one, or there is none.
LEMMA RightMovesKeeps ==
    ASSUME IInv, NEW w \in Workers, Right(w), HasRightSeg(w) => ~IsLastRelease(w, worker[w].from + 1)
    PROVE  IInv'
<1>1. PICK p, g, d, c, n, tm, V, A, V2, s, d2 :
         /\ p = Pic(w) /\ g = grid[p] /\ d = dep[p] /\ c = cur[p] /\ n = count[p] /\ tm = times[p]
         /\ V = ViewOf(worker, p) /\ A = AskedOf(queue, p) /\ V2 = ViewOf(worker', p)
         /\ s = worker[w].from /\ d2 = dep'[p]
  OBVIOUS
<1>2. PICK x : x = [worker[w] EXCEPT !.pc = "below"] /\ worker' = [worker EXCEPT ![w] = x]
  BY <1>1 DEF Right, At, Move, ReleaseSeg
<1>3. /\ worker[w].pc = "right"
      /\ /\ HasRightSeg(w) => dep' = [dep EXCEPT ![p][s + 1] = @ - 1]
         /\ ~HasRightSeg(w) => dep' = dep
      /\ UNCHANGED <<full, grid, cur, count, stage, retry, rounds, times, free, queue>>
  BY <1>1 DEF Right, At, Move, ReleaseSeg, pictureVars, segmentVars, taskVars
<1>4. x.task = worker[w].task /\ x.pc = "below" /\ x.from = worker[w].from /\ x.coded = worker[w].coded
      /\ x.self = worker[w].self /\ x.again = worker[w].again
  <2>1. worker[w] \in WorkerType
    BY DEF IInv, TypesInv
  <2> QED BY <1>1, <1>2, <2>1 DEF WorkerType
<1>5. /\ p \in Pictures /\ g \in Grids /\ worker[w] \in WorkerType
      /\ PictureOK(stage[p], retry[p], g, d, c, n, tm, V, A)
      /\ V[w] = worker[w] /\ V2[w] = x /\ \A v \in Workers \ {w} : V2[v] = V[v]
      /\ DOMAIN dep = Pictures /\ DOMAIN cur = Pictures /\ DOMAIN times = Pictures
      /\ \A r \in DOMAIN c : c[r] \in Nat
      /\ count \in [Pictures -> Nat] /\ rounds \in [Pictures -> 0 .. MaxRounds]
  <2>1. /\ Pic(w) \in Pictures /\ grid[Pic(w)] \in Grids /\ worker[w] \in WorkerType /\ Seen(Pic(w))
        /\ ViewOf(worker, Pic(w))[w] = worker[w] /\ ViewOf(worker', Pic(w))[w] = x
        /\ \A v \in Workers \ {w} : ViewOf(worker', Pic(w))[v] = ViewOf(worker, Pic(w))[v]
        /\ DOMAIN dep = Pictures /\ DOMAIN cur = Pictures /\ DOMAIN times = Pictures
        /\ \A r \in DOMAIN cur[Pic(w)] : cur[Pic(w)][r] \in Nat
        /\ count \in [Pictures -> Nat] /\ rounds \in [Pictures -> 0 .. MaxRounds]
    BY <1>2, <1>3, <1>4, Before
  <2> QED BY <1>1, <2>1 DEF Seen
<1>6. PictureOK(stage[p], retry[p], g, d2, c, n, tm, V2, A)
  <2>1. V[w].pc = "right" /\ V[w].pc \in {"right", "below", "feedback"} /\ V[w].from = s
    BY <1>1, <1>3, <1>5
  <2>2. g \in Grids /\ PictureOK(stage[p], retry[p], g, d, c, n, tm, V, A) /\ \A v \in Workers \ {w} : V2[v] = V[v]
    BY <1>5
  <2>3. s \in Scan(g)
    BY ONLY w \in Workers, <2>1, <2>2, FromSegment
  <2>4. HasRightSeg(w) <=> s < RowLast(g, RowOfSeg(g, s))
    <3>1. Last[g][RowOfSeg(g, s)] = RowLast(g, RowOfSeg(g, s))
      BY <1>5, <2>3, LastOfRow
    <3> QED BY <1>1, <3>1 DEF HasRightSeg, Row, GridAt, RowOfSeg
  <2>5. /\ s < RowLast(g, RowOfSeg(g, s)) => d2 = [d EXCEPT ![s + 1] = @ - 1]
        /\ ~(s < RowLast(g, RowOfSeg(g, s))) => d2 = d
    BY <1>1, <1>3, <1>5, <2>4
  <2>6. /\ V2[w].pc = "below" /\ V2[w].from = s /\ V2[w].coded = V[w].coded
        /\ V2[w].self = V[w].self /\ V2[w].again = V[w].again
    BY <1>1, <1>4, <1>5
  <2> QED BY ONLY w \in Workers, <2>1, <2>2, <2>5, <2>6, RightMoves
<1>7. /\ DOMAIN dep' = Pictures /\ DOMAIN cur' = Pictures /\ DOMAIN times' = Pictures
      /\ dep'[p] = d2 /\ cur'[p] = c /\ count'[p] = n /\ times'[p] = tm
      /\ count' \in [Pictures -> Nat]
      /\ \A r \in Pictures \ {p} : /\ dep'[r] = dep[r] /\ cur'[r] = cur[r]
                                    /\ count'[r] = count[r] /\ times'[r] = times[r]
  BY <1>1, <1>3, <1>5, <1>6
<1>8. \A r \in DOMAIN cur'[p] : cur'[p][r] \in Nat
  BY <1>5, <1>7
<1>9. x \in WorkerType
  BY <1>2, <1>5 DEF WorkerType, Steps
<1>10. PictureOK(stage[p], retry[p], grid[p], dep'[p], cur'[p], count'[p], times'[p],
                 ViewOf(worker', p), AskedOf(queue, p))
  BY <1>1, <1>6, <1>7
<1>11. /\ \A r \in DOMAIN cur'[p] : cur'[p][r] \in Nat
       /\ count' \in [Pictures -> Nat] /\ rounds' \in [Pictures -> 0 .. MaxRounds]
       /\ DOMAIN dep' = Pictures /\ DOMAIN cur' = Pictures /\ DOMAIN times' = Pictures
       /\ \A r \in Pictures \ {p} : /\ dep'[r] = dep[r] /\ cur'[r] = cur[r]
                                     /\ count'[r] = count[r] /\ times'[r] = times[r]
  BY <1>3, <1>5, <1>7, <1>8
<1>12. p = Pic(w)
  BY <1>1
<1> QED BY ONLY IInv, w \in Workers, <1>2, <1>3, <1>4, <1>5, <1>9, <1>10, <1>11, <1>12, KeptAlone

\* The segment on the right is released, and the worker takes it.
LEMMA RightTakesKeeps ==
    ASSUME IInv, NEW w \in Workers, Right(w), HasRightSeg(w), IsLastRelease(w, worker[w].from + 1)
    PROVE  IInv'
<1>1. PICK p, g, d, c, n, tm, V, A, V2, s, r, d2, c2 :
         /\ p = Pic(w) /\ g = grid[p] /\ d = dep[p] /\ c = cur[p] /\ n = count[p] /\ tm = times[p]
         /\ V = ViewOf(worker, p) /\ A = AskedOf(queue, p) /\ V2 = ViewOf(worker', p)
         /\ s = worker[w].from /\ r = Row(w) /\ d2 = dep'[p] /\ c2 = cur'[p]
  OBVIOUS
<1>2. PICK x : x = [worker[w] EXCEPT !.pc = "below", !.seg = c[r], !.self = TRUE, !.again = TRUE] /\ worker' = [worker EXCEPT ![w] = x]
  BY <1>1 DEF Right, At, Set, ReleaseSeg, TakeCurrent, IsLastRelease
<1>3. /\ worker[w].pc = "right"
      /\ dep' = [dep EXCEPT ![p][s + 1] = @ - 1] /\ cur' = [cur EXCEPT ![p][r] = @ + 1]
      /\ s < Last[g][r] /\ d[s + 1] = 1
      /\ UNCHANGED <<full, grid, count, stage, retry, rounds, times, free, queue>>
  BY <1>1 DEF Right, At, Set, ReleaseSeg, TakeCurrent, IsLastRelease, HasRightSeg, GridAt, pictureVars, segmentVars, taskVars
<1>4. x.task = worker[w].task /\ x.pc = "below" /\ x.from = worker[w].from /\ x.coded = worker[w].coded
      /\ x.self /\ x.again /\ x.seg = c[r]
  <2>1. worker[w] \in WorkerType
    BY DEF IInv, TypesInv
  <2> QED BY <1>1, <1>2, <2>1 DEF WorkerType
<1>5. /\ p \in Pictures /\ g \in Grids /\ worker[w] \in WorkerType
      /\ PictureOK(stage[p], retry[p], g, d, c, n, tm, V, A)
      /\ V[w] = worker[w] /\ V2[w] = x /\ \A v \in Workers \ {w} : V2[v] = V[v]
      /\ DOMAIN dep = Pictures /\ DOMAIN cur = Pictures /\ DOMAIN times = Pictures
      /\ \A j \in DOMAIN c : c[j] \in Nat
      /\ count \in [Pictures -> Nat] /\ rounds \in [Pictures -> 0 .. MaxRounds]
  <2>1. /\ Pic(w) \in Pictures /\ grid[Pic(w)] \in Grids /\ worker[w] \in WorkerType /\ Seen(Pic(w))
        /\ ViewOf(worker, Pic(w))[w] = worker[w] /\ ViewOf(worker', Pic(w))[w] = x
        /\ \A v \in Workers \ {w} : ViewOf(worker', Pic(w))[v] = ViewOf(worker, Pic(w))[v]
        /\ DOMAIN dep = Pictures /\ DOMAIN cur = Pictures /\ DOMAIN times = Pictures
        /\ \A j \in DOMAIN cur[Pic(w)] : cur[Pic(w)][j] \in Nat
        /\ count \in [Pictures -> Nat] /\ rounds \in [Pictures -> 0 .. MaxRounds]
    BY <1>2, <1>3, <1>4, Before
  <2> QED BY <1>1, <2>1 DEF Seen
<1>6. PictureOK(stage[p], retry[p], g, d2, c2, n, tm, V2, A) /\ c \in [Rows(g) -> Nat] /\ r \in Rows(g)
  <2>1. V[w].pc = "right" /\ V[w].pc \in {"right", "below", "feedback"} /\ V[w].from = s
    BY <1>1, <1>3, <1>5
  <2>2. g \in Grids /\ PictureOK(stage[p], retry[p], g, d, c, n, tm, V, A) /\ \A v \in Workers \ {w} : V2[v] = V[v]
    BY <1>5
  <2>3. s \in Scan(g)
    BY ONLY w \in Workers, <2>1, <2>2, FromSegment
  <2>4. c \in [Rows(g) -> Nat]
    BY ONLY w \in Workers, <2>1, <2>2, CurrentSegments
  <2>5. r = RowOfSeg(g, s)
    BY <1>1 DEF Row, GridAt, RowOfSeg
  <2>6. r \in Rows(g) /\ s < RowLast(g, r) /\ d[s + 1] = 1
    BY <1>3, <1>5, <2>3, <2>5, LastOfRow
  <2>7. /\ s < RowLast(g, r) => d2 = [d EXCEPT ![s + 1] = @ - 1]
        /\ r \in Rows(g) => c2 = [c EXCEPT ![r] = @ + 1]
    BY <1>1, <1>3, <1>5
  <2>8. /\ V2[w].pc = "below" /\ V2[w].from = s /\ V2[w].coded = V[w].coded
        /\ V2[w].self /\ V2[w].again /\ V2[w].seg = c[r]
    BY <1>1, <1>4, <1>5
  <2>9. PictureOK(stage[p], retry[p], g, d2, c2, n, tm, V2, A)
    BY ONLY w \in Workers, <2>1, <2>2, <2>5, <2>6, <2>7, <2>8, RightTakes
  <2> QED BY <2>4, <2>6, <2>9
<1>7. /\ DOMAIN dep' = Pictures /\ DOMAIN cur' = Pictures /\ DOMAIN times' = Pictures
      /\ dep'[p] = d2 /\ cur'[p] = c2 /\ count'[p] = n /\ times'[p] = tm
      /\ count' \in [Pictures -> Nat]
      /\ \A j \in Pictures \ {p} : /\ dep'[j] = dep[j] /\ cur'[j] = cur[j]
                                    /\ count'[j] = count[j] /\ times'[j] = times[j]
  BY <1>1, <1>3, <1>5, <1>6
<1>8. \A q \in DOMAIN cur'[p] : cur'[p][q] \in Nat
  <2>1. cur'[p] = [c EXCEPT ![r] = @ + 1]
    BY <1>1, <1>3, <1>5
  <2> QED BY <1>6, <2>1
<1>9. x \in WorkerType
  <2>1. c[r] \in Nat
    BY <1>6
  <2> QED BY <1>2, <1>5, <2>1 DEF WorkerType, Steps
<1>10. PictureOK(stage[p], retry[p], grid[p], dep'[p], cur'[p], count'[p], times'[p],
                 ViewOf(worker', p), AskedOf(queue, p))
  BY <1>1, <1>6, <1>7
<1>11. /\ \A j \in DOMAIN cur'[p] : cur'[p][j] \in Nat
       /\ count' \in [Pictures -> Nat] /\ rounds' \in [Pictures -> 0 .. MaxRounds]
       /\ DOMAIN dep' = Pictures /\ DOMAIN cur' = Pictures /\ DOMAIN times' = Pictures
       /\ \A j \in Pictures \ {p} : /\ dep'[j] = dep[j] /\ cur'[j] = cur[j]
                                     /\ count'[j] = count[j] /\ times'[j] = times[j]
  BY <1>3, <1>5, <1>7, <1>8
<1>12. p = Pic(w)
  BY <1>1
<1> QED BY ONLY IInv, w \in Workers, <1>2, <1>3, <1>4, <1>5, <1>9, <1>10, <1>11, <1>12, KeptAlone

\* The segment below is released, and waits for another one, or there is none.
LEMMA BelowMovesKeeps ==
    ASSUME IInv, NEW w \in Workers, Below(w),
           HasBottomSeg(w) => ~IsLastRelease(w, worker[w].from + GridAt(w).bands)
    PROVE  IInv'
<1>1. PICK p, g, d, c, n, tm, V, A, V2, s, d2 :
         /\ p = Pic(w) /\ g = grid[p] /\ d = dep[p] /\ c = cur[p] /\ n = count[p] /\ tm = times[p]
         /\ V = ViewOf(worker, p) /\ A = AskedOf(queue, p) /\ V2 = ViewOf(worker', p)
         /\ s = worker[w].from /\ d2 = dep'[p]
  OBVIOUS
<1>2. PICK x : x = [worker[w] EXCEPT !.pc = IF worker[w].again THEN "code" ELSE "tally"] /\ worker' = [worker EXCEPT ![w] = x]
  BY <1>1 DEF Below, At, Move, AfterBelow, ReleaseSeg, GridAt
<1>3. /\ worker[w].pc = "below"
      /\ HasBottomSeg(w) => dep' = [dep EXCEPT ![p][s + g.bands] = @ - 1]
      /\ ~HasBottomSeg(w) => dep' = dep
      /\ UNCHANGED <<full, grid, cur, count, stage, retry, rounds, times, free, queue>>
  BY <1>1 DEF Below, At, Move, AfterBelow, ReleaseSeg, GridAt, pictureVars, segmentVars, taskVars
<1>4. x.task = worker[w].task /\ x.pc = (IF worker[w].again THEN "code" ELSE "tally")
      /\ x.seg = worker[w].seg /\ x.coded = worker[w].coded /\ x.pc \in {"code", "tally"}
      /\ x.pc \notin {"idle", "release"} /\ x.pc \notin {"row", "bump"}
  <2>1. worker[w] \in WorkerType
    BY DEF IInv, TypesInv
  <2> QED BY <1>1, <1>2, <2>1 DEF WorkerType
<1>5. /\ p \in Pictures /\ g \in Grids /\ worker[w] \in WorkerType
      /\ PictureOK(stage[p], retry[p], g, d, c, n, tm, V, A)
      /\ V[w] = worker[w] /\ V2[w] = x /\ \A v \in Workers \ {w} : V2[v] = V[v]
      /\ DOMAIN dep = Pictures /\ DOMAIN cur = Pictures /\ DOMAIN times = Pictures
      /\ \A r \in DOMAIN c : c[r] \in Nat
      /\ count \in [Pictures -> Nat] /\ rounds \in [Pictures -> 0 .. MaxRounds]
  <2>1. /\ Pic(w) \in Pictures /\ grid[Pic(w)] \in Grids /\ worker[w] \in WorkerType /\ Seen(Pic(w))
        /\ ViewOf(worker, Pic(w))[w] = worker[w] /\ ViewOf(worker', Pic(w))[w] = x
        /\ \A v \in Workers \ {w} : ViewOf(worker', Pic(w))[v] = ViewOf(worker, Pic(w))[v]
        /\ DOMAIN dep = Pictures /\ DOMAIN cur = Pictures /\ DOMAIN times = Pictures
        /\ \A r \in DOMAIN cur[Pic(w)] : cur[Pic(w)][r] \in Nat
        /\ count \in [Pictures -> Nat] /\ rounds \in [Pictures -> 0 .. MaxRounds]
    BY <1>2, <1>3, <1>4, Before
  <2> QED BY <1>1, <2>1 DEF Seen
<1>6. PictureOK(stage[p], retry[p], g, d2, c, n, tm, V2, A)
  <2>1. V[w].pc = "below" /\ V[w].pc \in {"right", "below", "feedback"} /\ V[w].from = s
    BY <1>1, <1>3, <1>5
  <2>2. g \in Grids /\ PictureOK(stage[p], retry[p], g, d, c, n, tm, V, A) /\ \A v \in Workers \ {w} : V2[v] = V[v]
    BY <1>5
  <2>3. s \in Scan(g)
    BY ONLY w \in Workers, <2>1, <2>2, FromSegment
  <2>4. HasBottomSeg(w) <=> Bottom(g, s)
    <3>1. RowOfSeg(g, s) < g.rows - 1 => First[g][RowOfSeg(g, s) + 1] = RowFirst(g, RowOfSeg(g, s) + 1)
      BY <1>5, <2>3, FirstOfRowUnder
    <3>2. Row(w) = RowOfSeg(g, s) /\ GridAt(w) = g
      BY <1>1 DEF Row, GridAt, RowOfSeg
    <3> QED BY <1>1, <3>1, <3>2 DEF HasBottomSeg, Bottom
  <2>5. /\ Bottom(g, s) => d2 = [d EXCEPT ![s + g.bands] = @ - 1]
        /\ ~Bottom(g, s) => d2 = d
    BY <1>1, <1>3, <1>5, <2>4
  <2>6. /\ V2[w].pc = IF V[w].again THEN "code" ELSE "tally"
        /\ V2[w].seg = V[w].seg /\ V2[w].coded = V[w].coded
    BY <1>4, <1>5
  <2> QED BY ONLY w \in Workers, <2>1, <2>2, <2>5, <2>6, BelowMoves
<1>7. /\ DOMAIN dep' = Pictures /\ DOMAIN cur' = Pictures /\ DOMAIN times' = Pictures
      /\ dep'[p] = d2 /\ cur'[p] = c /\ count'[p] = n /\ times'[p] = tm
      /\ count' \in [Pictures -> Nat]
      /\ \A r \in Pictures \ {p} : /\ dep'[r] = dep[r] /\ cur'[r] = cur[r]
                                    /\ count'[r] = count[r] /\ times'[r] = times[r]
  BY <1>1, <1>3, <1>5, <1>6
<1>8. \A r \in DOMAIN cur'[p] : cur'[p][r] \in Nat
  BY <1>5, <1>7
<1>9. x \in WorkerType
  BY <1>2, <1>5 DEF WorkerType, Steps
<1>10. PictureOK(stage[p], retry[p], grid[p], dep'[p], cur'[p], count'[p], times'[p],
                 ViewOf(worker', p), AskedOf(queue, p))
  BY <1>1, <1>6, <1>7
<1>11. /\ \A r \in DOMAIN cur'[p] : cur'[p][r] \in Nat
       /\ count' \in [Pictures -> Nat] /\ rounds' \in [Pictures -> 0 .. MaxRounds]
       /\ DOMAIN dep' = Pictures /\ DOMAIN cur' = Pictures /\ DOMAIN times' = Pictures
       /\ \A r \in Pictures \ {p} : /\ dep'[r] = dep[r] /\ cur'[r] = cur[r]
                                     /\ count'[r] = count[r] /\ times'[r] = times[r]
  BY <1>3, <1>5, <1>7, <1>8
<1>12. p = Pic(w)
  BY <1>1
<1> QED BY ONLY IInv, w \in Workers, <1>2, <1>3, <1>4, <1>5, <1>9, <1>10, <1>11, <1>12, KeptAlone

\* The segment below is released, and the worker takes it.
LEMMA BelowTakesKeeps ==
    ASSUME IInv, NEW w \in Workers, Below(w), HasBottomSeg(w), ~worker[w].self,
           IsLastRelease(w, worker[w].from + GridAt(w).bands)
    PROVE  IInv'
<1>1. PICK p, g, d, c, n, tm, V, A, V2, s, q, r, d2, c2 :
         /\ p = Pic(w) /\ g = grid[p] /\ d = dep[p] /\ c = cur[p] /\ n = count[p] /\ tm = times[p]
         /\ V = ViewOf(worker, p) /\ A = AskedOf(queue, p) /\ V2 = ViewOf(worker', p)
         /\ s = worker[w].from /\ q = Row(w) /\ r = Row(w) + 1 /\ d2 = dep'[p] /\ c2 = cur'[p]
  OBVIOUS
<1>2. PICK x : x = [worker[w] EXCEPT !.pc = IF r = q THEN "below" ELSE "code", !.seg = c[r], !.self = (r = q), !.again = TRUE] /\ worker' = [worker EXCEPT ![w] = x]
  BY <1>1 DEF Below, At, Set, ReleaseSeg, TakeCurrent, IsLastRelease, GridAt
<1>3. /\ worker[w].pc = "below"
      /\ dep' = [dep EXCEPT ![p][s + g.bands] = @ - 1] /\ cur' = [cur EXCEPT ![p][r] = @ + 1]
      /\ d[s + g.bands] = 1
      /\ UNCHANGED <<full, grid, count, stage, retry, rounds, times, free, queue>>
  BY <1>1 DEF Below, At, Set, ReleaseSeg, TakeCurrent, IsLastRelease, GridAt, pictureVars, segmentVars, taskVars
<1>4. x.task = worker[w].task /\ x.pc = "code" /\ x.coded = worker[w].coded /\ x.seg = c[r]
  <2>1. worker[w] \in WorkerType
    BY DEF IInv, TypesInv
  <2>2. q \in Int /\ r = q + 1
    <3>1. TypesInv /\ worker[w].pc = "below"
      BY <1>3 DEF IInv
    <3>2. worker[w].task \in Tasks /\ grid \in [Pictures -> Grids]
      BY <3>1 DEF TypesInv
    <3>3. g \in Grids
      BY <1>1, <3>2 DEF Pic, Tasks
    <3>4. g.bands \in Nat \ {0}
      BY <3>3, FreshDependencies, GridNumbers
    <3>5. worker[w].from \in Nat
      BY <2>1 DEF WorkerType
    <3>6. worker[w].from \div g.bands \in Int
      BY <3>4, <3>5
    <3> QED BY <1>1, <3>6 DEF Row, GridAt
  <2>3. r # q
    BY <2>2
  <2> QED BY <1>1, <1>2, <2>1, <2>3 DEF WorkerType
<1>5. /\ p \in Pictures /\ g \in Grids /\ worker[w] \in WorkerType
      /\ PictureOK(stage[p], retry[p], g, d, c, n, tm, V, A)
      /\ V[w] = worker[w] /\ V2[w] = x /\ \A v \in Workers \ {w} : V2[v] = V[v]
      /\ DOMAIN dep = Pictures /\ DOMAIN cur = Pictures /\ DOMAIN times = Pictures
      /\ \A j \in DOMAIN c : c[j] \in Nat
      /\ count \in [Pictures -> Nat] /\ rounds \in [Pictures -> 0 .. MaxRounds]
  <2>1. /\ Pic(w) \in Pictures /\ grid[Pic(w)] \in Grids /\ worker[w] \in WorkerType /\ Seen(Pic(w))
        /\ ViewOf(worker, Pic(w))[w] = worker[w] /\ ViewOf(worker', Pic(w))[w] = x
        /\ \A v \in Workers \ {w} : ViewOf(worker', Pic(w))[v] = ViewOf(worker, Pic(w))[v]
        /\ DOMAIN dep = Pictures /\ DOMAIN cur = Pictures /\ DOMAIN times = Pictures
        /\ \A j \in DOMAIN cur[Pic(w)] : cur[Pic(w)][j] \in Nat
        /\ count \in [Pictures -> Nat] /\ rounds \in [Pictures -> 0 .. MaxRounds]
    BY <1>2, <1>3, <1>4, Before
  <2> QED BY <1>1, <2>1 DEF Seen
<1>6. PictureOK(stage[p], retry[p], g, d2, c2, n, tm, V2, A) /\ c \in [Rows(g) -> Nat] /\ r \in Rows(g)
  <2>1. V[w].pc = "below" /\ V[w].pc \in {"right", "below", "feedback"} /\ V[w].from = s
    BY <1>1, <1>3, <1>5
  <2>2. g \in Grids /\ PictureOK(stage[p], retry[p], g, d, c, n, tm, V, A) /\ \A v \in Workers \ {w} : V2[v] = V[v]
    BY <1>5
  <2>3. s \in Scan(g)
    BY ONLY w \in Workers, <2>1, <2>2, FromSegment
  <2>4. HasBottomSeg(w) <=> Bottom(g, s)
    <3>1. RowOfSeg(g, s) < g.rows - 1 => First[g][RowOfSeg(g, s) + 1] = RowFirst(g, RowOfSeg(g, s) + 1)
      BY <1>5, <2>3, FirstOfRowUnder
    <3>2. Row(w) = RowOfSeg(g, s) /\ GridAt(w) = g
      BY <1>1 DEF Row, GridAt, RowOfSeg
    <3> QED BY <1>1, <3>1, <3>2 DEF HasBottomSeg, Bottom
  <2>5. c \in [Rows(g) -> Nat]
    BY ONLY w \in Workers, <2>1, <2>2, CurrentSegments
  <2>6. Bottom(g, s) /\ d[s + g.bands] = 1
    BY <1>3, <2>4
  <2>7. r = RowUnder(g, s)
    BY <1>1 DEF Row, GridAt, RowOfSeg, RowUnder
  <2>8. r \in Rows(g)
    <3>1. RowOfSeg(g, s) < g.rows - 1
      BY <2>6 DEF Bottom
    <3>2. RowOfSeg(g, s) + 1 \in Rows(g)
      BY <1>5, <2>3, <3>1, FirstOfRowUnder
    <3> QED BY <2>7, <3>2 DEF RowUnder
  <2>9. /\ Bottom(g, s) => d2 = [d EXCEPT ![s + g.bands] = @ - 1]
        /\ r \in Rows(g) => c2 = [c EXCEPT ![r] = @ + 1]
    BY <1>1, <1>3, <1>5
  <2>10. V2[w].pc = "code" /\ V2[w].coded = V[w].coded /\ V2[w].seg = c[r] /\ ~V[w].self
    BY <1>4, <1>5
  <2>11. PICK st, rt : st = stage[p] /\ rt = retry[p]
    OBVIOUS
  <2>12. PictureOK(st, rt, g, d2, c2, n, tm, V2, A)
    <3>1. PictureOK(st, rt, g, d, c, n, tm, V, A) /\ V[w].pc = "below" /\ s = V[w].from
      BY <1>5, <2>1, <2>11
    <3>2. g \in Grids /\ \A v \in Workers \ {w} : V2[v] = V[v]
      BY <2>2
    <3> QED BY ONLY w \in Workers, <2>6, <2>7, <2>9, <2>10, <3>1, <3>2, BelowTakes
  <2> QED BY <2>5, <2>8, <2>11, <2>12
<1>7. /\ DOMAIN dep' = Pictures /\ DOMAIN cur' = Pictures /\ DOMAIN times' = Pictures
      /\ dep'[p] = d2 /\ cur'[p] = c2 /\ count'[p] = n /\ times'[p] = tm
      /\ count' \in [Pictures -> Nat]
      /\ \A j \in Pictures \ {p} : /\ dep'[j] = dep[j] /\ cur'[j] = cur[j]
                                    /\ count'[j] = count[j] /\ times'[j] = times[j]
  BY <1>1, <1>3, <1>5, <1>6
<1>8. \A k \in DOMAIN cur'[p] : cur'[p][k] \in Nat
  <2>1. cur'[p] = [c EXCEPT ![r] = @ + 1]
    BY <1>1, <1>3, <1>5
  <2> QED BY <1>6, <2>1
<1>9. x \in WorkerType
  <2>1. c[r] \in Nat
    BY <1>6
  <2>2. (r = q) \in BOOLEAN
    OBVIOUS
  <2> QED BY <1>2, <1>5, <2>1, <2>2 DEF WorkerType, Steps
<1>10. PictureOK(stage[p], retry[p], grid[p], dep'[p], cur'[p], count'[p], times'[p],
                 ViewOf(worker', p), AskedOf(queue, p))
  BY <1>1, <1>6, <1>7
<1>11. /\ \A j \in DOMAIN cur'[p] : cur'[p][j] \in Nat
       /\ count' \in [Pictures -> Nat] /\ rounds' \in [Pictures -> 0 .. MaxRounds]
       /\ DOMAIN dep' = Pictures /\ DOMAIN cur' = Pictures /\ DOMAIN times' = Pictures
       /\ \A j \in Pictures \ {p} : /\ dep'[j] = dep[j] /\ cur'[j] = cur[j]
                                     /\ count'[j] = count[j] /\ times'[j] = times[j]
  BY <1>3, <1>5, <1>7, <1>8
<1>12. p = Pic(w)
  BY <1>1
<1> QED BY ONLY IInv, w \in Workers, <1>2, <1>3, <1>4, <1>5, <1>9, <1>10, <1>11, <1>12, KeptAlone

\* The segment below is released, and the worker has one already.
LEMMA BelowAsksKeeps ==
    ASSUME IInv, NEW w \in Workers, Below(w), HasBottomSeg(w), worker[w].self,
           IsLastRelease(w, worker[w].from + GridAt(w).bands)
    PROVE  IInv'
<1>1. PICK p, g, d, c, n, tm, V, A, V2, s, d2 :
         /\ p = Pic(w) /\ g = grid[p] /\ d = dep[p] /\ c = cur[p] /\ n = count[p] /\ tm = times[p]
         /\ V = ViewOf(worker, p) /\ A = AskedOf(queue, p) /\ V2 = ViewOf(worker', p)
         /\ s = worker[w].from /\ d2 = dep'[p]
  OBVIOUS
<1>2. PICK x : x = [worker[w] EXCEPT !.pc = "feedback"] /\ worker' = [worker EXCEPT ![w] = x]
  BY <1>1 DEF Below, At, Move, ReleaseSeg, IsLastRelease, GridAt
<1>3. /\ worker[w].pc = "below"
      /\ dep' = [dep EXCEPT ![p][s + g.bands] = @ - 1]
      /\ d[s + g.bands] = 1
      /\ UNCHANGED <<full, grid, cur, count, stage, retry, rounds, times, free, queue>>
  BY <1>1 DEF Below, At, Move, ReleaseSeg, IsLastRelease, GridAt, pictureVars, segmentVars, taskVars
<1>4. x.task = worker[w].task /\ x.pc = "feedback" /\ x.coded = worker[w].coded /\ x.seg = worker[w].seg
      /\ x.from = worker[w].from /\ x.again = worker[w].again
  <2>1. worker[w] \in WorkerType
    BY DEF IInv, TypesInv
  <2> QED BY <1>1, <1>2, <2>1 DEF WorkerType
<1>5. /\ p \in Pictures /\ g \in Grids /\ worker[w] \in WorkerType
      /\ PictureOK(stage[p], retry[p], g, d, c, n, tm, V, A)
      /\ V[w] = worker[w] /\ V2[w] = x /\ \A v \in Workers \ {w} : V2[v] = V[v]
      /\ DOMAIN dep = Pictures /\ DOMAIN cur = Pictures /\ DOMAIN times = Pictures
      /\ \A r \in DOMAIN c : c[r] \in Nat
      /\ count \in [Pictures -> Nat] /\ rounds \in [Pictures -> 0 .. MaxRounds]
  <2>1. /\ Pic(w) \in Pictures /\ grid[Pic(w)] \in Grids /\ worker[w] \in WorkerType /\ Seen(Pic(w))
        /\ ViewOf(worker, Pic(w))[w] = worker[w] /\ ViewOf(worker', Pic(w))[w] = x
        /\ \A v \in Workers \ {w} : ViewOf(worker', Pic(w))[v] = ViewOf(worker, Pic(w))[v]
        /\ DOMAIN dep = Pictures /\ DOMAIN cur = Pictures /\ DOMAIN times = Pictures
        /\ \A r \in DOMAIN cur[Pic(w)] : cur[Pic(w)][r] \in Nat
        /\ count \in [Pictures -> Nat] /\ rounds \in [Pictures -> 0 .. MaxRounds]
    BY <1>2, <1>3, <1>4, Before
  <2> QED BY <1>1, <2>1 DEF Seen
<1>6. PictureOK(stage[p], retry[p], g, d2, c, n, tm, V2, A)
  <2>1. V[w].pc = "below" /\ V[w].pc \in {"right", "below", "feedback"} /\ V[w].from = s
    BY <1>1, <1>3, <1>5
  <2>2. g \in Grids /\ PictureOK(stage[p], retry[p], g, d, c, n, tm, V, A) /\ \A v \in Workers \ {w} : V2[v] = V[v]
    BY <1>5
  <2>3. s \in Scan(g)
    BY ONLY w \in Workers, <2>1, <2>2, FromSegment
  <2>4. HasBottomSeg(w) <=> Bottom(g, s)
    <3>1. RowOfSeg(g, s) < g.rows - 1 => First[g][RowOfSeg(g, s) + 1] = RowFirst(g, RowOfSeg(g, s) + 1)
      BY <1>5, <2>3, FirstOfRowUnder
    <3>2. Row(w) = RowOfSeg(g, s) /\ GridAt(w) = g
      BY <1>1 DEF Row, GridAt, RowOfSeg
    <3> QED BY <1>1, <3>1, <3>2 DEF HasBottomSeg, Bottom
  <2>5. Bottom(g, s) /\ d[s + g.bands] = 1
    BY <1>3, <2>4
  <2>6. Bottom(g, s) => d2 = [d EXCEPT ![s + g.bands] = @ - 1]
    BY <1>1, <1>3, <1>5
  <2>7. /\ V2[w].pc = "feedback" /\ V2[w].coded = V[w].coded /\ V2[w].seg = V[w].seg /\ V2[w].from = s
        /\ V2[w].again = V[w].again
    BY <1>1, <1>4, <1>5
  <2>8. V[w].self
    BY <1>5
  <2> QED BY ONLY w \in Workers, <2>1, <2>2, <2>5, <2>6, <2>7, <2>8, BelowAsks
<1>7. /\ DOMAIN dep' = Pictures /\ DOMAIN cur' = Pictures /\ DOMAIN times' = Pictures
      /\ dep'[p] = d2 /\ cur'[p] = c /\ count'[p] = n /\ times'[p] = tm
      /\ count' \in [Pictures -> Nat]
      /\ \A r \in Pictures \ {p} : /\ dep'[r] = dep[r] /\ cur'[r] = cur[r]
                                    /\ count'[r] = count[r] /\ times'[r] = times[r]
  BY <1>1, <1>3, <1>5, <1>6
<1>8. \A r \in DOMAIN cur'[p] : cur'[p][r] \in Nat
  BY <1>5, <1>7
<1>9. x \in WorkerType
  BY <1>2, <1>5 DEF WorkerType, Steps
<1>10. PictureOK(stage[p], retry[p], grid[p], dep'[p], cur'[p], count'[p], times'[p],
                 ViewOf(worker', p), AskedOf(queue, p))
  BY <1>1, <1>6, <1>7
<1>11. /\ \A r \in DOMAIN cur'[p] : cur'[p][r] \in Nat
       /\ count' \in [Pictures -> Nat] /\ rounds' \in [Pictures -> 0 .. MaxRounds]
       /\ DOMAIN dep' = Pictures /\ DOMAIN cur' = Pictures /\ DOMAIN times' = Pictures
       /\ \A r \in Pictures \ {p} : /\ dep'[r] = dep[r] /\ cur'[r] = cur[r]
                                     /\ count'[r] = count[r] /\ times'[r] = times[r]
  BY <1>3, <1>5, <1>7, <1>8
<1>12. p = Pic(w)
  BY <1>1
<1> QED BY ONLY IInv, w \in Workers, <1>2, <1>3, <1>4, <1>5, <1>9, <1>10, <1>11, <1>12, KeptAlone

\* A task is posted, of which there was none.
LEMMA Posted ==
    ASSUME TypesInv, PoolInv, NEW t \in Tasks, t \notin AskedOf(queue, t.pic), PostTask(t)
    PROVE  /\ free' \in Nat /\ queue' \in Seq(Tasks) /\ free' + Len(queue') = free + Len(queue)
           /\ \A i, j \in DOMAIN queue' : queue'[i] = queue'[j] => i = j
           /\ AskedOf(queue', t.pic) = AskedOf(queue, t.pic) \cup {t}
           /\ \A r : r # t.pic => AskedOf(queue', r) = AskedOf(queue, r)
<1>1. /\ free \in Nat /\ queue \in Seq(Tasks) /\ free > 0 /\ free' = free - 1 /\ queue' = Append(queue, t)
      /\ \A i, j \in DOMAIN queue : queue[i] = queue[j] => i = j
  BY DEF TypesInv, PoolInv, PostTask
<1>2. PICK q, a : q = queue /\ a = queue'
  OBVIOUS
<1>3. /\ q \in Seq(Tasks) /\ a = Append(q, t) /\ Len(q) \in Nat
      /\ \A i, j \in DOMAIN q : q[i] = q[j] => i = j
  BY <1>1, <1>2
<1>4. \A r : /\ a \in Seq(Tasks) /\ Len(a) = Len(q) + 1
             /\ t.pic = r => AskedOf(a, r) = AskedOf(q, r) \cup {t}
             /\ t.pic # r => AskedOf(a, r) = AskedOf(q, r)
  BY <1>3, AskedPost
<1>5. \A i, j \in DOMAIN a : a[i] = a[j] => i = j
  <2>1. /\ DOMAIN q = 1 .. Len(q) /\ DOMAIN a = 1 .. Len(q) + 1 /\ a[Len(q) + 1] = t
        /\ \A i \in 1 .. Len(q) : a[i] = q[i]
    BY <1>3
  <2>2. \A i \in 1 .. Len(q) : a[i] # t
    <3>1. \A i \in 1 .. Len(q) : q[i] # t
      BY <1>2, <1>3, AskedIs
    <3> QED BY <2>1, <3>1
  <2>3. \A i \in DOMAIN a : i \in 1 .. Len(q) \/ i = Len(q) + 1
    BY <1>3, <2>1
  <2> QED BY <1>3, <2>1, <2>2, <2>3
<1>6. free' \in Nat /\ free' + Len(a) = free + Len(q)
  <2>1. Len(a) = Len(q) + 1
    BY <1>4
  <2> QED BY <1>1, <1>3, <2>1
<1>7. /\ a \in Seq(Tasks) /\ AskedOf(a, t.pic) = AskedOf(q, t.pic) \cup {t}
      /\ \A r : r # t.pic => AskedOf(a, r) = AskedOf(q, r)
  BY <1>4
<1> QED BY <1>2, <1>5, <1>6, <1>7

\* A worker posts a task of its picture.
LEMMA KeptPosting ==
    ASSUME IInv, NEW w \in Workers, worker[w].pc \notin {"idle", "release"},
           NEW x \in WorkerType, worker' = [worker EXCEPT ![w] = x], x.pc \notin {"idle", "row", "bump"},
           x.task = worker[w].task,
           NEW t \in Tasks, t.pic = Pic(w), t \notin AskedOf(queue, Pic(w)), PostTask(t),
           UNCHANGED <<full, grid, dep, cur, count, stage, retry, rounds, times>>,
           PictureOK(stage[Pic(w)], retry[Pic(w)], grid[Pic(w)], dep[Pic(w)], cur[Pic(w)], count[Pic(w)],
                     times[Pic(w)], ViewOf(worker', Pic(w)), AskedOf(queue, Pic(w)) \cup {t})
    PROVE  IInv'
<1>1. TypesInv /\ PoolInv
  BY DEF IInv
<1>2. PICK p : p = Pic(w)
  OBVIOUS
<1>3. /\ free' \in Nat /\ queue' \in Seq(Tasks) /\ free' + Len(queue') = free + Len(queue)
      /\ \A i, j \in DOMAIN queue' : queue'[i] = queue'[j] => i = j
      /\ AskedOf(queue', p) = AskedOf(queue, p) \cup {t}
      /\ \A r : r # p => AskedOf(queue', r) = AskedOf(queue, r)
  <2>1. t \notin AskedOf(queue, t.pic)
    OBVIOUS
  <2>2. /\ free' \in Nat /\ queue' \in Seq(Tasks) /\ free' + Len(queue') = free + Len(queue)
        /\ \A i, j \in DOMAIN queue' : queue'[i] = queue'[j] => i = j
        /\ AskedOf(queue', t.pic) = AskedOf(queue, t.pic) \cup {t}
        /\ \A r : r # t.pic => AskedOf(queue', r) = AskedOf(queue, r)
    BY <1>1, <2>1, Posted
  <2>3. t.pic = p
    BY <1>2
  <2> QED BY <2>2, <2>3
<1>4. p \in Pictures
  BY <1>1, <1>2 DEF TypesInv, Pic, Tasks
<1>5. /\ DOMAIN dep' = Pictures /\ DOMAIN cur' = Pictures /\ DOMAIN times' = Pictures
      /\ \A r \in DOMAIN cur'[p] : cur'[p][r] \in Nat
      /\ count' \in [Pictures -> Nat] /\ stage' \in [Pictures -> {"mdc", "encdec", "results"}]
      /\ rounds' \in [Pictures -> 0 .. MaxRounds]
  BY <1>1, <1>4 DEF TypesInv
<1>6. \A r \in Pictures \ {p} :
         /\ AskedOf(queue', r) = AskedOf(queue, r) /\ stage'[r] = stage[r] /\ dep'[r] = dep[r]
         /\ cur'[r] = cur[r] /\ count'[r] = count[r] /\ times'[r] = times[r]
  BY <1>3
<1>7. PictureOK(stage'[p], retry[p], grid[p], dep'[p], cur'[p], count'[p], times'[p],
                ViewOf(worker', p), AskedOf(queue', p))
  BY <1>2, <1>3
<1>8. x.pc # "idle" /\ (x.pc \in {"row", "bump"} => worker[w].pc \in {"row", "bump"})
  OBVIOUS
<1> QED BY <1>2, <1>3, <1>5, <1>6, <1>7, <1>8, Kept

\* The row below is asked for.
LEMMA FeedbackKeeps ==
    ASSUME IInv, NEW w \in Workers, Feedback(w)
    PROVE  IInv'
<1>1. PICK p, g, d, c, n, tm, V, A, V2, t, A2 :
         /\ p = Pic(w) /\ g = grid[p] /\ d = dep[p] /\ c = cur[p] /\ n = count[p] /\ tm = times[p]
         /\ V = ViewOf(worker, p) /\ A = AskedOf(queue, p) /\ V2 = ViewOf(worker', p)
         /\ t = Task("ENCDEC", Pic(w), Row(w) + 1) /\ A2 = A \cup {t}
  OBVIOUS
<1>2. PICK x : x = [worker[w] EXCEPT !.pc = "code"] /\ worker' = [worker EXCEPT ![w] = x]
  BY DEF Feedback, Move
<1>3. /\ worker[w].pc = "feedback" /\ PostTask(t)
      /\ UNCHANGED <<full, grid, dep, cur, count, stage, retry, rounds, times>>
  BY <1>1 DEF Feedback, At, pictureVars, segmentVars
<1>4. x.task = worker[w].task /\ x.pc = "code" /\ x.coded = worker[w].coded /\ x.seg = worker[w].seg
  <2>1. worker[w] \in WorkerType
    BY DEF IInv, TypesInv
  <2> QED BY <1>2, <2>1 DEF WorkerType
<1>5. /\ p \in Pictures /\ g \in Grids /\ worker[w] \in WorkerType
      /\ PictureOK(stage[p], retry[p], g, d, c, n, tm, V, A)
      /\ V[w] = worker[w] /\ V2[w] = x /\ \A v \in Workers \ {w} : V2[v] = V[v]
  <2>1. /\ Pic(w) \in Pictures /\ grid[Pic(w)] \in Grids /\ worker[w] \in WorkerType /\ Seen(Pic(w))
        /\ ViewOf(worker, Pic(w))[w] = worker[w] /\ ViewOf(worker', Pic(w))[w] = x
        /\ \A v \in Workers \ {w} : ViewOf(worker', Pic(w))[v] = ViewOf(worker, Pic(w))[v]
    BY <1>2, <1>3, <1>4, Before
  <2> QED BY <1>1, <2>1 DEF Seen
<1>6. t.type = "ENCDEC" /\ t.pic = p /\ t.row = Row(w) + 1
  BY <1>1 DEF Task
<1>7. PictureOK(stage[p], retry[p], g, d, c, n, tm, V2, A2) /\ t \notin A /\ t.row \in Nat
  <2>1. t.row = RowUnder(g, V[w].from)
    <3>1. V[w].from = worker[w].from /\ GridAt(w) = g
      BY <1>1, <1>5 DEF GridAt
    <3> QED BY <1>6, <3>1 DEF Row, RowUnder, RowOfSeg
  <2>2. g \in Grids /\ PictureOK(stage[p], retry[p], g, d, c, n, tm, V, A) /\ \A v \in Workers \ {w} : V2[v] = V[v]
    BY <1>5
  <2>3. V[w].pc = "feedback" /\ t.type = "ENCDEC"
    BY <1>3, <1>5, <1>6
  <2>4. V2[w].pc = "code" /\ V2[w].coded = V[w].coded /\ V2[w].seg = V[w].seg
    BY <1>4, <1>5
  <2>5. A2 = A \cup {t}
    BY <1>1
  <2> QED BY ONLY w \in Workers, <2>1, <2>2, <2>3, <2>4, <2>5, FeedbackStep
<1>8. t \in Tasks
  BY <1>1, <1>5, <1>6, <1>7 DEF Task, Tasks
<1>9. x \in WorkerType
  BY <1>2, <1>5 DEF WorkerType, Steps
<1>10. /\ t.pic = Pic(w) /\ t \notin AskedOf(queue, Pic(w))
       /\ PictureOK(stage[Pic(w)], retry[Pic(w)], grid[Pic(w)], dep[Pic(w)], cur[Pic(w)], count[Pic(w)],
                    times[Pic(w)], ViewOf(worker', Pic(w)), AskedOf(queue, Pic(w)) \cup {t})
  BY <1>1, <1>6, <1>7
<1>11. worker[w].pc \notin {"idle", "release"} /\ x.pc \notin {"idle", "row", "bump"} /\ x.task = worker[w].task
  BY <1>3, <1>4
<1> QED BY ONLY IInv, w \in Workers, <1>2, <1>3, <1>8, <1>9, <1>10, <1>11, KeptPosting

\* The picture is posted to EncDec again.
LEMMA RepostKeeps ==
    ASSUME IInv, NEW w \in Workers, Repost(w)
    PROVE  IInv'
<1>1. PICK p, g, d, c, n, tm, V, A, V2, t, A2 :
         /\ p = Pic(w) /\ g = grid[p] /\ d = dep[p] /\ c = cur[p] /\ n = count[p] /\ tm = times[p]
         /\ V = ViewOf(worker, p) /\ A = AskedOf(queue, p) /\ V2 = ViewOf(worker', p)
         /\ t = Task("MDC", Pic(w), 0) /\ A2 = A \cup {t}
  OBVIOUS
<1>2. PICK x : x = [worker[w] EXCEPT !.pc = "release"] /\ worker' = [worker EXCEPT ![w] = x]
  BY DEF Repost, Move
<1>3. /\ worker[w].pc = "repost" /\ PostTask(t)
      /\ UNCHANGED <<full, grid, dep, cur, count, stage, retry, rounds, times>>
  BY <1>1 DEF Repost, At, pictureVars, segmentVars
<1>4. x.task = worker[w].task /\ x.pc = "release"
  <2>1. worker[w] \in WorkerType
    BY DEF IInv, TypesInv
  <2> QED BY <1>2, <2>1 DEF WorkerType
<1>5. /\ p \in Pictures /\ g \in Grids /\ worker[w] \in WorkerType
      /\ PictureOK(stage[p], retry[p], g, d, c, n, tm, V, A)
      /\ V[w] = worker[w] /\ V2[w].pc = "idle" /\ \A v \in Workers \ {w} : V2[v] = V[v]
  <2>1. /\ Pic(w) \in Pictures /\ grid[Pic(w)] \in Grids /\ worker[w] \in WorkerType /\ Seen(Pic(w))
        /\ ViewOf(worker, Pic(w))[w] = worker[w] /\ ViewOf(worker', Pic(w))[w].pc = "idle"
        /\ \A v \in Workers \ {w} : ViewOf(worker', Pic(w))[v] = ViewOf(worker, Pic(w))[v]
    BY <1>2, <1>3, <1>4, Before
  <2> QED BY <1>1, <2>1 DEF Seen
<1>6. t.type = "MDC" /\ t.pic = p /\ t.row = 0
  BY <1>1 DEF Task
<1>7. PictureOK(stage[p], retry[p], g, d, c, n, tm, V2, A2) /\ t \notin A /\ t.row \in Nat
  <2>1. g \in Grids /\ PictureOK(stage[p], retry[p], g, d, c, n, tm, V, A) /\ \A v \in Workers \ {w} : V2[v] = V[v]
    BY <1>5
  <2>2. V[w].pc = "repost" /\ t.type = "MDC" /\ V2[w].pc = "idle"
    BY <1>3, <1>5, <1>6
  <2>3. A2 = A \cup {t}
    BY <1>1
  <2>4. PictureOK(stage[p], retry[p], g, d, c, n, tm, V2, A2) /\ t \notin A
    BY ONLY w \in Workers, <2>1, <2>2, <2>3, RepostStep
  <2> QED BY <1>6, <2>4
<1>8. t \in Tasks
  BY <1>1, <1>5, <1>6, <1>7 DEF Task, Tasks
<1>9. x \in WorkerType
  BY <1>2, <1>5 DEF WorkerType, Steps
<1>10. /\ t.pic = Pic(w) /\ t \notin AskedOf(queue, Pic(w))
       /\ PictureOK(stage[Pic(w)], retry[Pic(w)], grid[Pic(w)], dep[Pic(w)], cur[Pic(w)], count[Pic(w)],
                    times[Pic(w)], ViewOf(worker', Pic(w)), AskedOf(queue, Pic(w)) \cup {t})
  BY <1>1, <1>6, <1>7
<1>11. worker[w].pc \notin {"idle", "release"} /\ x.pc \notin {"idle", "row", "bump"} /\ x.task = worker[w].task
  BY <1>3, <1>4
<1> QED BY ONLY IInv, w \in Workers, <1>2, <1>3, <1>8, <1>9, <1>10, <1>11, KeptPosting

\* A worker counts what it has coded, and the picture is not done.
LEMMA TallyKeeps ==
    ASSUME IInv, NEW w \in Workers, Tally(w), ~IsTotal(w, count[Pic(w)] + worker[w].coded)
    PROVE  IInv'
<1>1. PICK p, g, d, c, n, tm, V, A, V2, n2 :
         /\ p = Pic(w) /\ g = grid[p] /\ d = dep[p] /\ c = cur[p] /\ n = count[p] /\ tm = times[p]
         /\ V = ViewOf(worker, p) /\ A = AskedOf(queue, p) /\ V2 = ViewOf(worker', p)
         /\ n2 = count[Pic(w)] + worker[w].coded
  OBVIOUS
<1>2. PICK x : x = [worker[w] EXCEPT !.pc = "release"] /\ worker' = [worker EXCEPT ![w] = x]
  BY <1>1 DEF Tally, At, Move
<1>3. /\ worker[w].pc = "tally"
      /\ count' = [count EXCEPT ![p] = n2] /\ n2 = n + worker[w].coded
      /\ UNCHANGED <<full, grid, dep, cur, stage, retry, rounds, times, free, queue>>
  BY <1>1 DEF Tally, At, Move, pictureVars, segmentVars, taskVars
<1>4. x.task = worker[w].task /\ x.pc = "release"
  <2>1. worker[w] \in WorkerType
    BY DEF IInv, TypesInv
  <2> QED BY <1>1, <1>2, <2>1 DEF WorkerType
<1>5. /\ p \in Pictures /\ g \in Grids /\ worker[w] \in WorkerType
      /\ PictureOK(stage[p], retry[p], g, d, c, n, tm, V, A)
      /\ V[w] = worker[w] /\ V2[w].pc = "idle" /\ \A v \in Workers \ {w} : V2[v] = V[v]
      /\ DOMAIN dep = Pictures /\ DOMAIN cur = Pictures /\ DOMAIN times = Pictures
      /\ \A r \in DOMAIN c : c[r] \in Nat
      /\ count \in [Pictures -> Nat] /\ rounds \in [Pictures -> 0 .. MaxRounds]
  <2>1. /\ Pic(w) \in Pictures /\ grid[Pic(w)] \in Grids /\ worker[w] \in WorkerType /\ Seen(Pic(w))
        /\ ViewOf(worker, Pic(w))[w] = worker[w] /\ ViewOf(worker', Pic(w))[w].pc = "idle"
        /\ \A v \in Workers \ {w} : ViewOf(worker', Pic(w))[v] = ViewOf(worker, Pic(w))[v]
        /\ DOMAIN dep = Pictures /\ DOMAIN cur = Pictures /\ DOMAIN times = Pictures
        /\ \A r \in DOMAIN cur[Pic(w)] : cur[Pic(w)][r] \in Nat
        /\ count \in [Pictures -> Nat] /\ rounds \in [Pictures -> 0 .. MaxRounds]
    BY <1>2, <1>3, <1>4, Before
  <2> QED BY <1>1, <2>1 DEF Seen
<1>6. PictureOK(stage[p], retry[p], g, d, c, n2, tm, V2, A) /\ n2 \in Nat
  <2>1. V[w].pc = "tally" /\ V[w].coded \in Nat /\ n \in Nat /\ n2 = n + V[w].coded
    BY <1>1, <1>3, <1>5 DEF WorkerType
  <2>2. g \in Grids /\ PictureOK(stage[p], retry[p], g, d, c, n, tm, V, A) /\ \A v \in Workers \ {w} : V2[v] = V[v]
    BY <1>5
  <2>3. V2[w].pc = "idle"
    BY <1>5
  <2>4. PictureOK(stage[p], retry[p], g, d, c, n2, tm, V2, A)
    BY ONLY w \in Workers, <2>1, <2>2, <2>3, TallyStep
  <2> QED BY <2>1, <2>4
<1>7. /\ DOMAIN dep' = Pictures /\ DOMAIN cur' = Pictures /\ DOMAIN times' = Pictures
      /\ dep'[p] = d /\ cur'[p] = c /\ count'[p] = n2 /\ times'[p] = tm
      /\ \A r \in Pictures \ {p} : /\ dep'[r] = dep[r] /\ cur'[r] = cur[r]
                                    /\ count'[r] = count[r] /\ times'[r] = times[r]
      /\ count' \in [Pictures -> Nat]
  BY <1>1, <1>3, <1>5, <1>6
<1>8. \A r \in DOMAIN cur'[p] : cur'[p][r] \in Nat
  BY <1>5, <1>7
<1>9. x \in WorkerType
  BY <1>2, <1>5 DEF WorkerType, Steps
<1>10. PictureOK(stage[p], retry[p], grid[p], dep'[p], cur'[p], count'[p], times'[p],
                 ViewOf(worker', p), AskedOf(queue, p))
  BY <1>1, <1>6, <1>7
<1>11. /\ \A r \in DOMAIN cur'[p] : cur'[p][r] \in Nat
       /\ count' \in [Pictures -> Nat] /\ rounds' \in [Pictures -> 0 .. MaxRounds]
       /\ DOMAIN dep' = Pictures /\ DOMAIN cur' = Pictures /\ DOMAIN times' = Pictures
       /\ \A r \in Pictures \ {p} : /\ dep'[r] = dep[r] /\ cur'[r] = cur[r]
                                     /\ count'[r] = count[r] /\ times'[r] = times[r]
  BY <1>3, <1>5, <1>7, <1>8
<1>12. p = Pic(w)
  BY <1>1
<1> QED BY ONLY IInv, w \in Workers, <1>2, <1>3, <1>4, <1>5, <1>9, <1>10, <1>11, <1>12, KeptAlone

\* A worker counts what it has coded, and the picture is done.
LEMMA TallyEndsKeeps ==
    ASSUME IInv, NEW w \in Workers, Tally(w), IsTotal(w, count[Pic(w)] + worker[w].coded)
    PROVE  IInv'
<1>1. PICK p, g, d, c, n, tm, V, A, V2, n2 :
         /\ p = Pic(w) /\ g = grid[p] /\ d = dep[p] /\ c = cur[p] /\ n = count[p] /\ tm = times[p]
         /\ V = ViewOf(worker, p) /\ A = AskedOf(queue, p) /\ V2 = ViewOf(worker', p)
         /\ n2 = count[Pic(w)] + worker[w].coded
  OBVIOUS
<1>2. PICK x : x = [worker[w] EXCEPT !.pc = "last"] /\ worker' = [worker EXCEPT ![w] = x]
  BY <1>1 DEF Tally, At, Move
<1>3. /\ worker[w].pc = "tally"
      /\ count' = [count EXCEPT ![p] = n2] /\ n2 = n + worker[w].coded /\ n2 = g.w * g.h
      /\ UNCHANGED <<full, grid, dep, cur, stage, retry, rounds, times, free, queue>>
  BY <1>1 DEF Tally, At, Move, IsTotal, GridAt, pictureVars, segmentVars, taskVars
<1>4. x.task = worker[w].task /\ x.pc = "last"
  <2>1. worker[w] \in WorkerType
    BY DEF IInv, TypesInv
  <2> QED BY <1>1, <1>2, <2>1 DEF WorkerType
<1>5. /\ p \in Pictures /\ g \in Grids /\ worker[w] \in WorkerType
      /\ PictureOK(stage[p], retry[p], g, d, c, n, tm, V, A)
      /\ V[w] = worker[w] /\ V2[w] = x /\ \A v \in Workers \ {w} : V2[v] = V[v]
      /\ DOMAIN dep = Pictures /\ DOMAIN cur = Pictures /\ DOMAIN times = Pictures
      /\ \A r \in DOMAIN c : c[r] \in Nat
      /\ count \in [Pictures -> Nat] /\ rounds \in [Pictures -> 0 .. MaxRounds]
  <2>1. /\ Pic(w) \in Pictures /\ grid[Pic(w)] \in Grids /\ worker[w] \in WorkerType /\ Seen(Pic(w))
        /\ ViewOf(worker, Pic(w))[w] = worker[w] /\ ViewOf(worker', Pic(w))[w] = x
        /\ \A v \in Workers \ {w} : ViewOf(worker', Pic(w))[v] = ViewOf(worker, Pic(w))[v]
        /\ DOMAIN dep = Pictures /\ DOMAIN cur = Pictures /\ DOMAIN times = Pictures
        /\ \A r \in DOMAIN cur[Pic(w)] : cur[Pic(w)][r] \in Nat
        /\ count \in [Pictures -> Nat] /\ rounds \in [Pictures -> 0 .. MaxRounds]
    BY <1>2, <1>3, <1>4, Before
  <2> QED BY <1>1, <2>1 DEF Seen
<1>6. PictureOK(stage[p], retry[p], g, d, c, n2, tm, V2, A) /\ n2 \in Nat
  <2>1. V[w].pc = "tally" /\ V[w].coded \in Nat /\ n \in Nat /\ n2 = n + V[w].coded
    BY <1>1, <1>3, <1>5 DEF WorkerType
  <2>2. g \in Grids /\ PictureOK(stage[p], retry[p], g, d, c, n, tm, V, A) /\ \A v \in Workers \ {w} : V2[v] = V[v]
    BY <1>5
  <2>3. V2[w].pc = "last" /\ n + V[w].coded = g.w * g.h
    BY <1>3, <1>4, <1>5
  <2>4. \A t \in A : t.row \in Nat
    <3>1. queue \in Seq(Tasks)
      BY DEF IInv, TypesInv
    <3>2. \A t \in A : t \in Tasks
      BY <1>1, <3>1, AskedIs
    <3> QED BY <3>2 DEF Tasks
  <2>5. /\ \A v \in Workers : V[v].coded \in Nat
        /\ \A v \in Workers : V[v].pc \in {"row", "bump"} => V[v].task.row \in Nat
    <3>1. /\ worker \in [Workers -> WorkerType]
          /\ \A v \in Workers : worker[v].pc # "idle" => worker[v].task \in Tasks
      BY DEF IInv, TypesInv
    <3>2. \A v \in Workers : V[v] = worker[v] \/ V[v] = Idle
      BY <1>1 DEF ViewOf
    <3>3. \A v \in Workers : worker[v].coded \in Nat /\ (worker[v].pc \in {"row", "bump"} => worker[v].task.row \in Nat)
      BY <3>1 DEF WorkerType, Tasks
    <3> QED BY <3>2, <3>3 DEF Idle
  <2>6. PictureOK(stage[p], retry[p], g, d, c, n2, tm, V2, A)
    BY ONLY w \in Workers, <2>1, <2>2, <2>3, <2>4, <2>5, LastStep
  <2> QED BY <2>1, <2>6
<1>7. /\ DOMAIN dep' = Pictures /\ DOMAIN cur' = Pictures /\ DOMAIN times' = Pictures
      /\ dep'[p] = d /\ cur'[p] = c /\ count'[p] = n2 /\ times'[p] = tm
      /\ \A r \in Pictures \ {p} : /\ dep'[r] = dep[r] /\ cur'[r] = cur[r]
                                    /\ count'[r] = count[r] /\ times'[r] = times[r]
      /\ count' \in [Pictures -> Nat]
  BY <1>1, <1>3, <1>5, <1>6
<1>8. \A r \in DOMAIN cur'[p] : cur'[p][r] \in Nat
  BY <1>5, <1>7
<1>9. x \in WorkerType
  BY <1>2, <1>5 DEF WorkerType, Steps
<1>10. PictureOK(stage[p], retry[p], grid[p], dep'[p], cur'[p], count'[p], times'[p],
                 ViewOf(worker', p), AskedOf(queue, p))
  BY <1>1, <1>6, <1>7
<1>11. /\ \A r \in DOMAIN cur'[p] : cur'[p][r] \in Nat
       /\ count' \in [Pictures -> Nat] /\ rounds' \in [Pictures -> 0 .. MaxRounds]
       /\ DOMAIN dep' = Pictures /\ DOMAIN cur' = Pictures /\ DOMAIN times' = Pictures
       /\ \A r \in Pictures \ {p} : /\ dep'[r] = dep[r] /\ cur'[r] = cur[r]
                                     /\ count'[r] = count[r] /\ times'[r] = times[r]
  BY <1>3, <1>5, <1>7, <1>8
<1>12. p = Pic(w)
  BY <1>1
<1> QED BY ONLY IInv, w \in Workers, <1>2, <1>3, <1>4, <1>5, <1>9, <1>10, <1>11, <1>12, KeptAlone

\* The segments of a picture of another size are set up.
LEMMA RenewKeeps ==
    ASSUME IInv, NEW w \in Workers, Renew(w)
    PROVE  IInv'
           /\ \A p \in Pictures : times'[p] = times[p]
<1>1. PICK p, g, d, c, n, tm, V, A, V2 :
         /\ p = Pic(w) /\ g = grid[p] /\ d = dep[p] /\ c = cur[p] /\ n = count[p] /\ tm = times[p]
         /\ V = ViewOf(worker, p) /\ A = AskedOf(queue, p) /\ V2 = ViewOf(worker', p)
  OBVIOUS
<1>2. PICK x : x = [worker[w] EXCEPT !.pc = "repost"] /\ worker' = [worker EXCEPT ![w] = x]
  BY <1>1 DEF Renew, At, Move, RenewSegments, GridAt, FreshDep, FreshCur
<1>3. /\ worker[w].pc = "renew"
      /\ count' = [count EXCEPT ![p] = 0] /\ dep' = [dep EXCEPT ![p] = InitialDep[g]]
      /\ cur' = [cur EXCEPT ![p] = First[g]] /\ times' = [times EXCEPT ![p] = NoneCoded(g)]
      /\ UNCHANGED <<full, grid, stage, retry, free, queue, rounds>>
  BY <1>1 DEF Renew, At, Move, RenewSegments, GridAt, FreshDep, FreshCur, pictureVars, segmentVars, taskVars
<1>4. x.task = worker[w].task /\ x.pc = "repost"
  <2>1. worker[w] \in WorkerType
    BY DEF IInv, TypesInv
  <2> QED BY <1>1, <1>2, <2>1 DEF WorkerType
<1>5. /\ p \in Pictures /\ g \in Grids /\ worker[w] \in WorkerType
      /\ PictureOK(stage[p], retry[p], g, d, c, n, tm, V, A)
      /\ V[w] = worker[w] /\ V2[w] = x /\ \A v \in Workers \ {w} : V2[v] = V[v]
      /\ DOMAIN dep = Pictures /\ DOMAIN cur = Pictures /\ DOMAIN times = Pictures
      /\ \A r \in DOMAIN c : c[r] \in Nat
      /\ count \in [Pictures -> Nat] /\ rounds \in [Pictures -> 0 .. MaxRounds]
  <2>1. /\ Pic(w) \in Pictures /\ grid[Pic(w)] \in Grids /\ worker[w] \in WorkerType /\ Seen(Pic(w))
        /\ ViewOf(worker, Pic(w))[w] = worker[w] /\ ViewOf(worker', Pic(w))[w] = x
        /\ \A v \in Workers \ {w} : ViewOf(worker', Pic(w))[v] = ViewOf(worker, Pic(w))[v]
        /\ DOMAIN dep = Pictures /\ DOMAIN cur = Pictures /\ DOMAIN times = Pictures
        /\ \A r \in DOMAIN cur[Pic(w)] : cur[Pic(w)][r] \in Nat
        /\ count \in [Pictures -> Nat] /\ rounds \in [Pictures -> 0 .. MaxRounds]
    BY <1>2, <1>3, <1>4, Before
  <2> QED BY <1>1, <2>1 DEF Seen
<1>6. PictureOK(stage[p], retry[p], g, InitialDep[g], First[g], 0, NoneCoded(g), V2, A)
      /\ tm = NoneCoded(g) /\ stage[p] # "results"
  <2>1. g \in Grids /\ PictureOK(stage[p], retry[p], g, d, c, n, tm, V, A) /\ \A v \in Workers \ {w} : V2[v] = V[v]
    BY <1>5
  <2>2. V[w].pc = "renew" /\ V[w].pc \in {"renew", "last"} /\ V2[w].pc = "repost"
    BY <1>3, <1>4, <1>5
  <2>3. /\ PictureOK(stage[p], retry[p], g, InitialDep[g], First[g], 0, NoneCoded(g), V2, A)
        /\ V[w].pc = "renew" => tm = NoneCoded(g)
        /\ V[w].pc = "last" => tm = [sb \in Sbs(g) |-> 1]
        /\ stage[p] # "results"
    BY ONLY w \in Workers, <2>1, <2>2, RenewStep
  <2> QED BY <2>2, <2>3
<1>7. /\ DOMAIN dep' = Pictures /\ DOMAIN cur' = Pictures /\ DOMAIN times' = Pictures
      /\ dep'[p] = InitialDep[g] /\ cur'[p] = First[g] /\ count'[p] = 0 /\ times'[p] = NoneCoded(g)
      /\ \A r \in Pictures \ {p} : /\ dep'[r] = dep[r] /\ cur'[r] = cur[r]
                                    /\ count'[r] = count[r] /\ times'[r] = times[r]
      /\ count' \in [Pictures -> Nat] /\ rounds' \in [Pictures -> 0 .. MaxRounds]
  BY <1>1, <1>3, <1>5, <1>6
<1>8. \A r \in DOMAIN cur'[p] : cur'[p][r] \in Nat
  <2>1. First[g] \in [Rows(g) -> Nat]
    BY <1>5, FreshDependencies
  <2> QED BY <1>7, <2>1
<1>9. x \in WorkerType
  BY <1>2, <1>5 DEF WorkerType, Steps
<1>10. PictureOK(stage[p], retry[p], grid[p], dep'[p], cur'[p], count'[p], times'[p],
                 ViewOf(worker', p), AskedOf(queue, p))
  BY <1>1, <1>6, <1>7
<1>11. /\ \A r \in DOMAIN cur'[p] : cur'[p][r] \in Nat
       /\ count' \in [Pictures -> Nat] /\ rounds' \in [Pictures -> 0 .. MaxRounds]
       /\ DOMAIN dep' = Pictures /\ DOMAIN cur' = Pictures /\ DOMAIN times' = Pictures
       /\ \A r \in Pictures \ {p} : /\ dep'[r] = dep[r] /\ cur'[r] = cur[r]
                                     /\ count'[r] = count[r] /\ times'[r] = times[r]
  BY <1>3, <1>5, <1>7, <1>8
<1>12. p = Pic(w)
  BY <1>1
<1>13. IInv'
   BY ONLY IInv, w \in Workers, <1>2, <1>3, <1>4, <1>5, <1>9, <1>10, <1>11, <1>12, KeptAlone
<1>14. \A r \in Pictures : times'[r] = times[r]
  BY <1>1, <1>3, <1>5, <1>6
<1> QED BY <1>13, <1>14

\* The segments are set up for another pass.
LEMMA RecodeKeeps ==
    ASSUME IInv, NEW w \in Workers, Recode(w)
    PROVE  IInv'
           /\ \E p \in Pictures : /\ stage[p] # "results" /\ times[p] = [sb \in Sbs(grid[p]) |-> 1]
                                    /\ times' = [times EXCEPT ![p] = NoneCoded(grid[p])]
<1>1. PICK p, g, d, c, n, tm, V, A, V2 :
         /\ p = Pic(w) /\ g = grid[p] /\ d = dep[p] /\ c = cur[p] /\ n = count[p] /\ tm = times[p]
         /\ V = ViewOf(worker, p) /\ A = AskedOf(queue, p) /\ V2 = ViewOf(worker', p)
  OBVIOUS
<1>2. PICK x : x = [worker[w] EXCEPT !.pc = "repost"] /\ worker' = [worker EXCEPT ![w] = x]
  BY <1>1 DEF Recode, At, Move, RenewSegments, GridAt, FreshDep, FreshCur
<1>3. /\ worker[w].pc = "last"
      /\ count' = [count EXCEPT ![p] = 0] /\ dep' = [dep EXCEPT ![p] = InitialDep[g]]
      /\ cur' = [cur EXCEPT ![p] = First[g]] /\ times' = [times EXCEPT ![p] = NoneCoded(g)]
      /\ rounds' = [rounds EXCEPT ![p] = @ + 1] /\ rounds[p] < MaxRounds
      /\ UNCHANGED <<full, grid, stage, retry, free, queue>>
  BY <1>1 DEF Recode, At, Move, RenewSegments, GridAt, FreshDep, FreshCur, pictureVars, segmentVars, taskVars
<1>4. x.task = worker[w].task /\ x.pc = "repost"
  <2>1. worker[w] \in WorkerType
    BY DEF IInv, TypesInv
  <2> QED BY <1>1, <1>2, <2>1 DEF WorkerType
<1>5. /\ p \in Pictures /\ g \in Grids /\ worker[w] \in WorkerType
      /\ PictureOK(stage[p], retry[p], g, d, c, n, tm, V, A)
      /\ V[w] = worker[w] /\ V2[w] = x /\ \A v \in Workers \ {w} : V2[v] = V[v]
      /\ DOMAIN dep = Pictures /\ DOMAIN cur = Pictures /\ DOMAIN times = Pictures
      /\ \A r \in DOMAIN c : c[r] \in Nat
      /\ count \in [Pictures -> Nat] /\ rounds \in [Pictures -> 0 .. MaxRounds]
  <2>1. /\ Pic(w) \in Pictures /\ grid[Pic(w)] \in Grids /\ worker[w] \in WorkerType /\ Seen(Pic(w))
        /\ ViewOf(worker, Pic(w))[w] = worker[w] /\ ViewOf(worker', Pic(w))[w] = x
        /\ \A v \in Workers \ {w} : ViewOf(worker', Pic(w))[v] = ViewOf(worker, Pic(w))[v]
        /\ DOMAIN dep = Pictures /\ DOMAIN cur = Pictures /\ DOMAIN times = Pictures
        /\ \A r \in DOMAIN cur[Pic(w)] : cur[Pic(w)][r] \in Nat
        /\ count \in [Pictures -> Nat] /\ rounds \in [Pictures -> 0 .. MaxRounds]
    BY <1>2, <1>3, <1>4, Before
  <2> QED BY <1>1, <2>1 DEF Seen
<1>6. PictureOK(stage[p], retry[p], g, InitialDep[g], First[g], 0, NoneCoded(g), V2, A)
      /\ tm = [sb \in Sbs(g) |-> 1] /\ stage[p] # "results"
  <2>1. g \in Grids /\ PictureOK(stage[p], retry[p], g, d, c, n, tm, V, A) /\ \A v \in Workers \ {w} : V2[v] = V[v]
    BY <1>5
  <2>2. V[w].pc = "last" /\ V[w].pc \in {"renew", "last"} /\ V2[w].pc = "repost"
    BY <1>3, <1>4, <1>5
  <2>3. /\ PictureOK(stage[p], retry[p], g, InitialDep[g], First[g], 0, NoneCoded(g), V2, A)
        /\ V[w].pc = "renew" => tm = NoneCoded(g)
        /\ V[w].pc = "last" => tm = [sb \in Sbs(g) |-> 1]
        /\ stage[p] # "results"
    BY ONLY w \in Workers, <2>1, <2>2, RenewStep
  <2> QED BY <2>2, <2>3
<1>7. /\ DOMAIN dep' = Pictures /\ DOMAIN cur' = Pictures /\ DOMAIN times' = Pictures
      /\ dep'[p] = InitialDep[g] /\ cur'[p] = First[g] /\ count'[p] = 0 /\ times'[p] = NoneCoded(g)
      /\ \A r \in Pictures \ {p} : /\ dep'[r] = dep[r] /\ cur'[r] = cur[r]
                                    /\ count'[r] = count[r] /\ times'[r] = times[r]
      /\ count' \in [Pictures -> Nat] /\ rounds' \in [Pictures -> 0 .. MaxRounds]
  <2>1. rounds' \in [Pictures -> 0 .. MaxRounds]
    <3>1. rounds[p] \in 0 .. MaxRounds /\ MaxRounds \in Nat
      BY <1>5, SizesAssumption
    <3>2. rounds[p] + 1 \in 0 .. MaxRounds
      BY <1>3, <3>1
    <3> QED BY <1>3, <1>5, <3>2
  <2> QED BY <1>1, <1>3, <1>5, <1>6, <2>1
<1>8. \A r \in DOMAIN cur'[p] : cur'[p][r] \in Nat
  <2>1. First[g] \in [Rows(g) -> Nat]
    BY <1>5, FreshDependencies
  <2> QED BY <1>7, <2>1
<1>9. x \in WorkerType
  BY <1>2, <1>5 DEF WorkerType, Steps
<1>10. PictureOK(stage[p], retry[p], grid[p], dep'[p], cur'[p], count'[p], times'[p],
                 ViewOf(worker', p), AskedOf(queue, p))
  BY <1>1, <1>6, <1>7
<1>11. /\ \A r \in DOMAIN cur'[p] : cur'[p][r] \in Nat
       /\ count' \in [Pictures -> Nat] /\ rounds' \in [Pictures -> 0 .. MaxRounds]
       /\ DOMAIN dep' = Pictures /\ DOMAIN cur' = Pictures /\ DOMAIN times' = Pictures
       /\ \A r \in Pictures \ {p} : /\ dep'[r] = dep[r] /\ cur'[r] = cur[r]
                                     /\ count'[r] = count[r] /\ times'[r] = times[r]
  BY <1>3, <1>5, <1>7, <1>8
<1>12. p = Pic(w)
  BY <1>1
<1>13. IInv'
   BY ONLY IInv, w \in Workers, <1>2, <1>3, <1>4, <1>5, <1>9, <1>10, <1>11, <1>12, KeptAlone
<1> QED BY <1>1, <1>3, <1>5, <1>6, <1>13

\* The result of the picture is posted.
LEMMA PostResultKeeps ==
    ASSUME IInv, NEW w \in Workers, PostResult(w)
    PROVE  /\ IInv'
           /\ \E p \in Pictures : /\ stage[p] # "results" /\ times[p] = [sb \in Sbs(grid[p]) |-> 1]
                                  /\ stage' = [stage EXCEPT ![p] = "results"]
<1>1. PICK p, g, d, c, n, tm, V, A, V2 :
         /\ p = Pic(w) /\ g = grid[p] /\ d = dep[p] /\ c = cur[p] /\ n = count[p] /\ tm = times[p]
         /\ V = ViewOf(worker, p) /\ A = AskedOf(queue, p) /\ V2 = ViewOf(worker', p)
  OBVIOUS
<1>2. PICK x : x = [worker[w] EXCEPT !.pc = "release"] /\ worker' = [worker EXCEPT ![w] = x]
  BY DEF PostResult, Move
<1>3. /\ worker[w].pc = "last" /\ stage' = [stage EXCEPT ![p] = "results"]
      /\ UNCHANGED <<full, grid, dep, cur, count, retry, rounds, times, free, queue>>
  BY <1>1 DEF PostResult, At, segmentVars, taskVars
<1>4. x.task = worker[w].task /\ x.pc = "release"
  <2>1. worker[w] \in WorkerType
    BY DEF IInv, TypesInv
  <2> QED BY <1>2, <2>1 DEF WorkerType
<1>5. /\ p \in Pictures /\ g \in Grids /\ worker[w] \in WorkerType
      /\ PictureOK(stage[p], retry[p], g, d, c, n, tm, V, A)
      /\ V[w] = worker[w] /\ V2[w].pc = "idle" /\ \A v \in Workers \ {w} : V2[v] = V[v]
      /\ DOMAIN dep = Pictures /\ DOMAIN cur = Pictures /\ DOMAIN times = Pictures
      /\ \A r \in DOMAIN c : c[r] \in Nat
      /\ count \in [Pictures -> Nat] /\ rounds \in [Pictures -> 0 .. MaxRounds]
  <2>1. /\ Pic(w) \in Pictures /\ grid[Pic(w)] \in Grids /\ worker[w] \in WorkerType /\ Seen(Pic(w))
        /\ ViewOf(worker, Pic(w))[w] = worker[w] /\ ViewOf(worker', Pic(w))[w].pc = "idle"
        /\ \A v \in Workers \ {w} : ViewOf(worker', Pic(w))[v] = ViewOf(worker, Pic(w))[v]
        /\ DOMAIN dep = Pictures /\ DOMAIN cur = Pictures /\ DOMAIN times = Pictures
        /\ \A r \in DOMAIN cur[Pic(w)] : cur[Pic(w)][r] \in Nat
        /\ count \in [Pictures -> Nat] /\ rounds \in [Pictures -> 0 .. MaxRounds]
    BY <1>2, <1>3, <1>4, Before
  <2> QED BY <1>1, <2>1 DEF Seen
<1>6. /\ PictureOK("results", retry[p], g, d, c, n, tm, V2, A)
      /\ stage[p] = "encdec" /\ tm = [sb \in Sbs(g) |-> 1]
  <2>1. g \in Grids /\ PictureOK(stage[p], retry[p], g, d, c, n, tm, V, A) /\ \A v \in Workers \ {w} : V2[v] = V[v]
    BY <1>5
  <2>2. V[w].pc = "last" /\ V2[w].pc = "idle"
    BY <1>3, <1>5
  <2>3. PictureOK("results", retry[p], g, d, c, n, tm, V2, A)
    BY ONLY w \in Workers, <2>1, <2>2, ResultStep
  <2>4. stage[p] = "encdec" /\ Alone(w, {"last"}, V, A) /\ Whole(g, d, tm)
    BY ONLY w \in Workers, <2>1, <2>2, LastWorker
  <2> QED BY <2>3, <2>4 DEF Whole
<1>7. /\ free' \in Nat /\ queue' \in Seq(Tasks) /\ free' + Len(queue') = free + Len(queue)
      /\ \A i, j \in DOMAIN queue' : queue'[i] = queue'[j] => i = j
      /\ stage \in [Pictures -> {"mdc", "encdec", "results"}]
  BY <1>3 DEF IInv, TypesInv, PoolInv
<1>8. stage'[p] = "results" /\ stage' \in [Pictures -> {"mdc", "encdec", "results"}]
  BY <1>3, <1>5, <1>7
<1>9. x \in WorkerType
  BY <1>2, <1>5 DEF WorkerType, Steps
<1>10. /\ DOMAIN dep' = Pictures /\ DOMAIN cur' = Pictures /\ DOMAIN times' = Pictures
       /\ \A r \in DOMAIN cur'[p] : cur'[p][r] \in Nat
       /\ count' \in [Pictures -> Nat] /\ rounds' \in [Pictures -> 0 .. MaxRounds]
       /\ \A r \in Pictures \ {p} :
             /\ AskedOf(queue', r) = AskedOf(queue, r) /\ stage'[r] = stage[r] /\ dep'[r] = dep[r]
             /\ cur'[r] = cur[r] /\ count'[r] = count[r] /\ times'[r] = times[r]
  BY <1>1, <1>3, <1>5, <1>7
<1>11. PictureOK(stage'[p], retry[p], grid[p], dep'[p], cur'[p], count'[p], times'[p],
                 ViewOf(worker', p), AskedOf(queue', p))
  BY <1>1, <1>3, <1>6, <1>8
<1>12. /\ worker[w].pc \notin {"idle", "release"} /\ x.pc # "idle" /\ x.task = worker[w].task
       /\ x.pc \in {"row", "bump"} => worker[w].pc \in {"row", "bump"}
  BY <1>3, <1>4
<1>13. p = Pic(w)
  BY <1>1
<1>14. full' = full /\ grid' = grid /\ retry' = retry
  BY <1>3
<1>15. IInv'
  BY ONLY IInv, w \in Workers, <1>2, <1>7, <1>8, <1>9, <1>10, <1>11, <1>12, <1>13, <1>14, Kept
<1> QED BY <1>1, <1>3, <1>5, <1>6, <1>15

\* A task is given back: no picture sees it.
LEMMA ReleaseTaskKeeps ==
    ASSUME IInv, NEW w \in Workers, ReleaseTask(w)
    PROVE  IInv'
<1>1. TypesInv /\ PoolInv /\ PicturesInv
  BY DEF IInv
<1>2. /\ worker[w].pc = "release" /\ free' = free + 1 /\ worker' = [worker EXCEPT ![w] = Idle]
      /\ UNCHANGED <<full, grid, dep, cur, count, stage, retry, rounds, times, queue>>
  BY DEF ReleaseTask, At, Set, pictureVars, segmentVars
<1>3. Idle \in WorkerType /\ Idle.pc = "idle"
  BY DEF Idle, WorkerType, Steps
<1>4. worker' \in [Workers -> WorkerType] /\ worker'[w] = Idle /\ \A v \in Workers \ {w} : worker'[v] = worker[v]
  BY <1>1, <1>2, <1>3 DEF TypesInv
<1>5. PicturesInv'
  <2>1. \A p : ViewOf(worker', p) = ViewOf(worker, p)
    <3> TAKE p
    <3>1. PICK W, W2 : W = worker /\ W2 = worker'
      OBVIOUS
    <3>2. ~Serves(W[w], p) /\ ~Serves(W2[w], p) /\ \A v \in Workers \ {w} : W2[v] = W[v]
      BY <1>2, <1>3, <1>4, <3>1 DEF Serves
    <3>3. ViewOf(W2, p) = ViewOf(W, p)
      BY ONLY <3>2, w \in Workers, SameView
    <3> QED BY <3>1, <3>3
  <2>2. ASSUME NEW p \in Pictures
        PROVE  PictureOK(stage'[p], retry'[p], grid'[p], dep'[p], cur'[p], count'[p], times'[p],
                         ViewOf(worker', p), AskedOf(queue', p))
    <3>1. PictureOK(stage[p], retry[p], grid[p], dep[p], cur[p], count[p], times[p],
                    ViewOf(worker, p), AskedOf(queue, p))
      BY <1>1 DEF PicturesInv, Seen
    <3> QED BY <1>2, <2>1, <3>1
  <2> QED BY <2>2 DEF PicturesInv, Seen
<1>6. TypesInv'
  <2>1. \A v \in Workers : worker'[v].pc # "idle" => worker'[v].task \in Tasks
    BY <1>1, <1>3, <1>4 DEF TypesInv
  <2>2. \A v \in Workers : worker'[v].pc \in {"row", "bump"} => worker'[v].task.type = "ENCDEC"
    BY <1>1, <1>3, <1>4 DEF TypesInv
  <2>3. free' \in Nat
    BY <1>1, <1>2 DEF TypesInv
  <2> QED BY <1>1, <1>2, <1>4, <2>1, <2>2, <2>3 DEF TypesInv
<1>7. PoolInv'
  <2>1. PICK B, C : B = BusyOf(worker) /\ C = BusyOf(worker')
    OBVIOUS
  <2>2. w \in B /\ C = B \ {w}
    BY <1>2, <1>3, <1>4, <2>1 DEF BusyOf
  <2>3. IsFiniteSet(B) /\ free + Len(queue) + Cardinality(B) = TaskCount
    BY <1>1, <2>1 DEF PoolInv
  <2>4. IsFiniteSet(C) /\ Cardinality(C) = Cardinality(B) - 1
    BY <2>2, <2>3, FS_RemoveElement
  <2>5. Cardinality(B) \in Nat
    BY <2>3, FS_CardinalityType
  <2>6. free \in Nat /\ Len(queue) \in Nat /\ queue' = queue /\ free' = free + 1
    BY <1>1, <1>2 DEF TypesInv
  <2>7. TaskCount' = TaskCount
    BY <1>2 DEF TaskCount
  <2>8. free' + Len(queue') + Cardinality(C) = TaskCount'
    BY <2>3, <2>4, <2>5, <2>6, <2>7
  <2>9. \A i, j \in DOMAIN queue' : queue'[i] = queue'[j] => i = j
    BY <1>1, <2>6 DEF PoolInv
  <2> QED BY <2>1, <2>4, <2>8, <2>9 DEF PoolInv
<1> QED BY <1>5, <1>6, <1>7 DEF IInv

\* A task is taken from the queue.
LEMMA TakeKeeps ==
    ASSUME IInv, NEW w \in Workers, Take(w)
    PROVE  IInv'
<1>1. TypesInv /\ PoolInv /\ PicturesInv
  BY DEF IInv
<1>2. PICK q, t, a : q = queue /\ t = Head(q) /\ a = Tail(q)
  OBVIOUS
<1>3. PICK x : /\ x = [Idle EXCEPT !.task = t, !.pc = CASE t.type = "MDC" -> "start"
                                                         [] t.type = "ENCDEC" -> "row"
                                                         [] t.type = "SUPERRES" -> "renew"]
               /\ worker' = [worker EXCEPT ![w] = x]
  BY <1>2 DEF Take, Set
<1>4. /\ worker[w].pc = "idle" /\ q # << >> /\ queue' = a
      /\ UNCHANGED <<full, grid, dep, cur, count, stage, retry, rounds, times, free>>
  BY <1>2 DEF Take, At, pictureVars, segmentVars
<1>5. PICK p : p = t.pic
  OBVIOUS
<1>6. /\ q \in Seq(Tasks) /\ Len(q) \in Nat /\ Len(a) \in Nat
      /\ a \in Seq(Tasks) /\ t \in Tasks /\ Len(q) = Len(a) + 1
      /\ \A i, j \in DOMAIN a : a[i] = a[j] => i = j
      /\ AskedOf(a, p) = AskedOf(q, p) \ {t} /\ t \in AskedOf(q, p)
      /\ \A r \in Pictures \ {p} : AskedOf(a, r) = AskedOf(q, r)
  <2>1. q \in Seq(Tasks) /\ q # << >> /\ \A i, j \in DOMAIN q : q[i] = q[j] => i = j
    BY <1>1, <1>2, <1>4 DEF TypesInv, PoolInv
  <2>2. \A r : /\ Tail(q) \in Seq(Tasks) /\ Head(q) \in Tasks /\ Len(q) = Len(Tail(q)) + 1
               /\ \A i, j \in DOMAIN Tail(q) : Tail(q)[i] = Tail(q)[j] => i = j
               /\ Head(q).pic = r => AskedOf(Tail(q), r) = AskedOf(q, r) \ {Head(q)} /\ Head(q) \in AskedOf(q, r)
               /\ Head(q).pic # r => AskedOf(Tail(q), r) = AskedOf(q, r)
    BY ONLY <2>1, AskedTake
  <2>3. \A r : /\ a \in Seq(Tasks) /\ t \in Tasks /\ Len(q) = Len(a) + 1
               /\ \A i, j \in DOMAIN a : a[i] = a[j] => i = j
               /\ t.pic = r => AskedOf(a, r) = AskedOf(q, r) \ {t} /\ t \in AskedOf(q, r)
               /\ t.pic # r => AskedOf(a, r) = AskedOf(q, r)
    BY <1>2, <2>2
  <2>4. Len(q) \in Nat /\ Len(a) \in Nat
    BY <2>1, <2>3
  <2> QED BY <1>5, <2>1, <2>3, <2>4
<1>7. /\ t.type \in {"MDC", "ENCDEC", "SUPERRES"} /\ p \in Pictures /\ t.row \in Nat
      /\ x.task = t /\ x.coded = 0 /\ ~x.again /\ x \in WorkerType
      /\ t.type = "MDC" => x.pc = "start"
      /\ t.type = "ENCDEC" => x.pc = "row"
      /\ t.type = "SUPERRES" => x.pc = "renew"
  <2>1. t.type \in {"MDC", "ENCDEC", "SUPERRES"} /\ p \in Pictures /\ t.row \in Nat
    BY <1>5, <1>6 DEF Tasks
  <2>2. CASE t.type = "MDC"
    <3>1. x = [Idle EXCEPT !.task = t, !.pc = "start"]
      BY <1>3, <2>2
    <3> QED BY <1>6, <2>1, <2>2, <3>1 DEF Idle, WorkerType, Steps
  <2>3. CASE t.type = "ENCDEC"
    <3>1. x = [Idle EXCEPT !.task = t, !.pc = "row"]
      BY <1>3, <2>3
    <3> QED BY <1>6, <2>1, <2>3, <3>1 DEF Idle, WorkerType, Steps
  <2>4. CASE t.type = "SUPERRES"
    <3>1. x = [Idle EXCEPT !.task = t, !.pc = "renew"]
      BY <1>3, <2>4
    <3> QED BY <1>6, <2>1, <2>4, <3>1 DEF Idle, WorkerType, Steps
  <2> QED BY <2>1, <2>2, <2>3, <2>4
<1>8. worker' \in [Workers -> WorkerType] /\ worker'[w] = x /\ \A v \in Workers \ {w} : worker'[v] = worker[v]
  BY <1>1, <1>3, <1>7 DEF TypesInv
<1>9. x.pc \in {"start", "row", "renew"} /\ x.pc # "idle" /\ x.pc # "release"
  BY <1>7
<1>10. PicturesInv'
  <2>1. PICK W, W2 : W = worker /\ W2 = worker'
    OBVIOUS
  <2>2. \A v \in Workers \ {w} : W2[v] = W[v]
    BY <1>8, <2>1
  <2>3. /\ \A r : ~Serves(W[w], r)
        /\ \A r : Serves(W2[w], r) <=> r = p
    BY <1>4, <1>5, <1>7, <1>8, <1>9, <2>1 DEF Serves
  <2>4. \A r \in Pictures \ {p} : ViewOf(W2, r) = ViewOf(W, r)
    BY ONLY <2>2, <2>3, w \in Workers, SameView
  <2>5. PICK V, V2, A, A2, g : V = ViewOf(W, p) /\ V2 = ViewOf(W2, p) /\ A = AskedOf(q, p) /\ A2 = A \ {t} /\ g = grid[p]
    OBVIOUS
  <2>6. V[w].pc = "idle" /\ V2[w] = x /\ \A v \in Workers \ {w} : V2[v] = V[v]
    <3>1. /\ \A v \in Workers : V2[v] = IF Serves(W2[v], p) THEN W2[v] ELSE Idle
          /\ \A v \in Workers : V[v] = IF Serves(W[v], p) THEN W[v] ELSE Idle
      BY <2>5 DEF ViewOf
    <3>2. W2[w] = x /\ Idle.pc = "idle"
      BY <1>8, <2>1 DEF Idle
    <3> QED BY <2>2, <2>3, <3>1, <3>2
  <2>7. PICK st, rt, d, c, n, tm : /\ st = stage[p] /\ rt = retry[p] /\ d = dep[p] /\ c = cur[p]
                                   /\ n = count[p] /\ tm = times[p]
    OBVIOUS
  <2>8. PictureOK(st, rt, g, d, c, n, tm, V2, A2)
    <3>1. PictureOK(st, rt, g, d, c, n, tm, V, A) /\ g \in Grids
      BY <1>1, <1>2, <1>7, <2>1, <2>5, <2>7 DEF PicturesInv, Seen, TypesInv
    <3>2. t \in A /\ t.row \in Nat /\ A2 = A \ {t}
      BY <1>6, <1>7, <2>5
    <3>3. \A u \in A : u.type = t.type /\ u.row = t.row => u = t
      <4>1. \A u \in A : u \in Tasks /\ u.pic = p
        BY <1>6, <2>5, AskedIs
      <4> QED BY <1>5, <1>6, <4>1 DEF Tasks
    <3>4. /\ t.type = "MDC" => V2[w].pc = "start"
          /\ t.type = "ENCDEC" => V2[w].pc = "row"
          /\ t.type = "SUPERRES" => V2[w].pc = "renew"
          /\ V2[w].task = t /\ V2[w].coded = 0 /\ ~V2[w].again
      BY <1>7, <2>6
    <3> QED BY ONLY w \in Workers, <2>6, <3>1, <3>2, <3>3, <3>4, TakeStep
  <2>9. PictureOK(stage'[p], retry'[p], grid'[p], dep'[p], cur'[p], count'[p], times'[p],
                  ViewOf(worker', p), AskedOf(queue', p))
    BY <1>4, <1>6, <2>1, <2>5, <2>7, <2>8
  <2>10. \A r \in Pictures \ {p} :
           /\ ViewOf(worker', r) = ViewOf(worker, r) /\ AskedOf(queue', r) = AskedOf(queue, r)
           /\ stage'[r] = stage[r] /\ retry'[r] = retry[r] /\ grid'[r] = grid[r] /\ dep'[r] = dep[r]
           /\ cur'[r] = cur[r] /\ count'[r] = count[r] /\ times'[r] = times[r]
    BY <1>2, <1>4, <1>6, <2>1, <2>4
  <2> QED BY ONLY <1>1, <1>7, <2>9, <2>10, PicturesNext
<1>11. TypesInv'
  <2>1. \A v \in Workers : worker'[v].pc # "idle" => worker'[v].task \in Tasks
    BY <1>1, <1>6, <1>7, <1>8 DEF TypesInv
  <2>2. \A v \in Workers : worker'[v].pc \in {"row", "bump"} => worker'[v].task.type = "ENCDEC"
    <3>1. x.pc \in {"row", "bump"} => x.task.type = "ENCDEC"
      BY <1>7
    <3> QED BY <1>1, <1>8, <3>1 DEF TypesInv
  <2>3. queue' \in Seq(Tasks) /\ free' \in Nat
    BY <1>1, <1>4, <1>6 DEF TypesInv
  <2> QED BY <1>1, <1>4, <1>8, <2>1, <2>2, <2>3 DEF TypesInv
<1>12. PoolInv'
  <2>1. PICK B, C : B = BusyOf(worker) /\ C = BusyOf(worker')
    OBVIOUS
  <2>2. w \notin B /\ C = B \cup {w}
    BY <1>4, <1>8, <1>9, <2>1 DEF BusyOf
  <2>3. IsFiniteSet(B) /\ free + Len(q) + Cardinality(B) = TaskCount
    BY <1>1, <1>2, <2>1 DEF PoolInv
  <2>4. IsFiniteSet(C) /\ Cardinality(C) = Cardinality(B) + 1
    BY <2>2, <2>3, FS_AddElement
  <2>5. Cardinality(B) \in Nat
    BY <2>3, FS_CardinalityType
  <2>6. free \in Nat /\ queue' = a /\ free' = free
    BY <1>1, <1>4 DEF TypesInv
  <2>7. TaskCount' = TaskCount
    BY <1>4 DEF TaskCount
  <2>8. free' + Len(queue') + Cardinality(C) = TaskCount'
    <3>1. free + Len(a) + Cardinality(C) = TaskCount
      BY <1>6, <2>3, <2>4, <2>5, <2>6
    <3> QED BY <2>6, <2>7, <3>1
  <2>9. \A i, j \in DOMAIN queue' : queue'[i] = queue'[j] => i = j
    BY <1>6, <2>6
  <2> QED BY <2>1, <2>4, <2>8, <2>9 DEF PoolInv
<1> QED BY <1>10, <1>11, <1>12 DEF IInv

-----------------------------------------------------------------------------
(* The stages around EncDec, and the beginning.                             *)

\* A picture is posted to EncDec.
LEMMA ConfigureKeeps ==
    ASSUME IInv, NEW p \in Pictures, Configure(p)
    PROVE  IInv'
<1>1. TypesInv /\ PoolInv /\ PicturesInv
  BY DEF IInv
<1>2. PICK t : t = Task(IF retry[p] THEN "SUPERRES" ELSE "MDC", p, 0)
  OBVIOUS
<1>3. /\ stage[p] = "mdc" /\ PostTask(t) /\ stage' = [stage EXCEPT ![p] = "encdec"]
      /\ UNCHANGED <<full, grid, dep, cur, count, retry, rounds, times, worker>>
  BY <1>2 DEF Configure, segmentVars
<1>4. /\ t.type = (IF retry[p] THEN "SUPERRES" ELSE "MDC") /\ t.pic = p /\ t \in Tasks
  BY <1>2 DEF Task, Tasks
<1>5. PictureOK("encdec", retry[p], grid[p], dep[p], cur[p], count[p], times[p], ViewOf(worker, p),
                AskedOf(queue, p) \cup {t}) /\ t \notin AskedOf(queue, p)
  <2>1. PICK rt, g, d, c, n, tm, V, A, A2 :
           /\ rt = retry[p] /\ g = grid[p] /\ d = dep[p] /\ c = cur[p] /\ n = count[p] /\ tm = times[p]
           /\ V = ViewOf(worker, p) /\ A = AskedOf(queue, p) /\ A2 = A \cup {t}
    OBVIOUS
  <2>2. PictureOK("mdc", rt, g, d, c, n, tm, V, A) /\ rt \in BOOLEAN /\ g \in Grids
    BY <1>1, <1>3, <2>1 DEF PicturesInv, Seen, TypesInv
  <2>3. t.type = (IF rt THEN "SUPERRES" ELSE "MDC") /\ A2 = A \cup {t}
    BY <1>4, <2>1
  <2>4. PictureOK("encdec", rt, g, d, c, n, tm, V, A2) /\ t \notin A
    BY ONLY <2>2, <2>3, ConfigureStep
  <2> QED BY <2>1, <2>4
<1>6. /\ free' \in Nat /\ queue' \in Seq(Tasks) /\ free' + Len(queue') = free + Len(queue)
      /\ \A i, j \in DOMAIN queue' : queue'[i] = queue'[j] => i = j
      /\ AskedOf(queue', p) = AskedOf(queue, p) \cup {t}
      /\ \A r : r # p => AskedOf(queue', r) = AskedOf(queue, r)
  <2>1. t \notin AskedOf(queue, t.pic)
    BY <1>4, <1>5
  <2>2. /\ free' \in Nat /\ queue' \in Seq(Tasks) /\ free' + Len(queue') = free + Len(queue)
        /\ \A i, j \in DOMAIN queue' : queue'[i] = queue'[j] => i = j
        /\ AskedOf(queue', t.pic) = AskedOf(queue, t.pic) \cup {t}
        /\ \A r : r # t.pic => AskedOf(queue', r) = AskedOf(queue, r)
    BY <1>1, <1>3, <1>4, <2>1, Posted
  <2> QED BY <1>4, <2>2
<1>7. stage \in [Pictures -> {"mdc", "encdec", "results"}]
  BY <1>1 DEF TypesInv
<1>8. PicturesInv'
  <2>1. stage'[p] = "encdec" /\ \A r \in Pictures \ {p} : stage'[r] = stage[r]
    BY <1>3, <1>7
  <2>2. PictureOK(stage'[p], retry'[p], grid'[p], dep'[p], cur'[p], count'[p], times'[p],
                  ViewOf(worker', p), AskedOf(queue', p))
    BY <1>3, <1>5, <1>6, <2>1
  <2>3. \A r \in Pictures \ {p} :
           /\ ViewOf(worker', r) = ViewOf(worker, r) /\ AskedOf(queue', r) = AskedOf(queue, r)
           /\ stage'[r] = stage[r] /\ retry'[r] = retry[r] /\ grid'[r] = grid[r] /\ dep'[r] = dep[r]
           /\ cur'[r] = cur[r] /\ count'[r] = count[r] /\ times'[r] = times[r]
    BY <1>3, <1>6, <2>1
  <2> QED BY ONLY <1>1, p \in Pictures, <2>2, <2>3, PicturesNext
<1>9. TypesInv'
  <2>1. stage' \in [Pictures -> {"mdc", "encdec", "results"}]
    BY <1>3, <1>7
  <2> QED BY <1>1, <1>3, <1>6, <2>1 DEF TypesInv
<1>10. PoolInv'
  <2>1. BusyOf(worker') = BusyOf(worker) /\ TaskCount' = TaskCount
    BY <1>3 DEF TaskCount
  <2>2. /\ IsFiniteSet(BusyOf(worker)) /\ free + Len(queue) + Cardinality(BusyOf(worker)) = TaskCount
        /\ free \in Nat /\ Len(queue) \in Nat /\ Len(queue') \in Nat
    BY <1>1, <1>6 DEF PoolInv, TypesInv
  <2>3. free' + Len(queue') + Cardinality(BusyOf(worker)) = TaskCount
    BY <1>6, <2>2
  <2> QED BY <1>6, <2>1, <2>2, <2>3 DEF PoolInv
<1> QED BY <1>8, <1>9, <1>10 DEF IInv

\* A picture comes back in another size.
LEMMA RetryKeeps ==
    ASSUME IInv, NEW p \in Pictures, NEW g2 \in Grids, Retry(p, g2)
    PROVE  IInv'
<1>1. TypesInv /\ PoolInv /\ PicturesInv
  BY DEF IInv
<1>2. /\ stage[p] = "results" /\ rounds[p] < MaxRounds /\ grid' = [grid EXCEPT ![p] = g2]
      /\ stage' = [stage EXCEPT ![p] = "mdc"] /\ retry' = [retry EXCEPT ![p] = TRUE]
      /\ rounds' = [rounds EXCEPT ![p] = @ + 1] /\ times' = [times EXCEPT ![p] = NoneCoded(g2)]
      /\ UNCHANGED <<full, dep, cur, count, free, queue, worker>>
  BY DEF Retry, segmentVars, taskVars
<1>3. /\ full \in Grids /\ grid \in [Pictures -> Grids]
      /\ DOMAIN dep = Pictures /\ DOMAIN cur = Pictures /\ DOMAIN times = Pictures
      /\ \A r \in Pictures : \A i \in DOMAIN cur[r] : cur[r][i] \in Nat
      /\ count \in [Pictures -> Nat]
      /\ stage \in [Pictures -> {"mdc", "encdec", "results"}]
      /\ retry \in [Pictures -> BOOLEAN] /\ rounds \in [Pictures -> 0 .. MaxRounds]
  BY <1>1 DEF TypesInv
<1>4. /\ grid'[p] = g2 /\ stage'[p] = "mdc" /\ retry'[p] = TRUE /\ times'[p] = NoneCoded(g2)
      /\ \A r \in Pictures \ {p} : /\ grid'[r] = grid[r] /\ stage'[r] = stage[r] /\ retry'[r] = retry[r]
                                   /\ times'[r] = times[r]
  BY <1>2, <1>3
<1>5. PicturesInv'
  <2>1. PICK rt, g, d, c, n, tm, V, A :
           /\ rt = retry[p] /\ g = grid[p] /\ d = dep[p] /\ c = cur[p] /\ n = count[p] /\ tm = times[p]
           /\ V = ViewOf(worker, p) /\ A = AskedOf(queue, p)
    OBVIOUS
  <2>2. PictureOK("results", rt, g, d, c, n, tm, V, A)
    BY <1>1, <1>2, <2>1 DEF PicturesInv, Seen
  <2>3. PictureOK("mdc", TRUE, g2, d, c, n, NoneCoded(g2), V, A)
    BY ONLY <2>2, RetryStep
  <2>4. PictureOK(stage'[p], retry'[p], grid'[p], dep'[p], cur'[p], count'[p], times'[p],
                  ViewOf(worker', p), AskedOf(queue', p))
    BY <1>2, <1>4, <2>1, <2>3
  <2>5. \A r \in Pictures \ {p} :
           /\ ViewOf(worker', r) = ViewOf(worker, r) /\ AskedOf(queue', r) = AskedOf(queue, r)
           /\ stage'[r] = stage[r] /\ retry'[r] = retry[r] /\ grid'[r] = grid[r] /\ dep'[r] = dep[r]
           /\ cur'[r] = cur[r] /\ count'[r] = count[r] /\ times'[r] = times[r]
    BY <1>2, <1>4
  <2> QED BY ONLY <1>1, p \in Pictures, <2>4, <2>5, PicturesNext
<1>6. TypesInv'
  <2>1. /\ grid' \in [Pictures -> Grids] /\ stage' \in [Pictures -> {"mdc", "encdec", "results"}]
        /\ DOMAIN times' = Pictures
    BY <1>2, <1>3
  <2>2. retry' \in [Pictures -> BOOLEAN]
    BY <1>2, <1>3
  <2>3. rounds' \in [Pictures -> 0 .. MaxRounds]
    <3>1. rounds[p] + 1 \in 0 .. MaxRounds
      BY <1>2, <1>3, SizesAssumption
    <3> QED BY <1>2, <1>3, <3>1
  <2> QED BY <1>1, <1>2, <2>1, <2>2, <2>3 DEF TypesInv
<1>7. PoolInv'
  BY <1>1, <1>2 DEF PoolInv, TaskCount
<1> QED BY <1>5, <1>6, <1>7 DEF IInv

\* There are tasks, a whole number of them.
LEMMA TaskNumber ==
    ASSUME full \in Grids
    PROVE  TaskCount \in Nat
<1>1. IsGrid(full) /\ full.rows \in Nat /\ full.bands - full.rows + 1 \in Nat
  BY FreshDependencies, GridNumbers, GridsAssumption
<1>2. Cardinality(Pictures) \in Nat
  BY SizesAssumption, FS_CardinalityType
<1>3. PICK a, b, c : a = Cardinality(Pictures) /\ b = full.rows /\ c = full.bands - full.rows + 1
  OBVIOUS
<1>4. a \in Nat /\ b \in Nat /\ c \in Nat /\ b * c \in Nat
  BY <1>1, <1>2, <1>3
<1>5. PICK k, f : k = b * c /\ f = 1 + Flag(AllowRecode) + Flag(IsSuperres)
  OBVIOUS
<1>6. k \in Nat /\ f \in Nat
  BY <1>4, <1>5 DEF Flag
<1>7. a * k * f \in Nat
  BY <1>4, <1>6
<1>8. TaskCount = a * k * f
  BY <1>3, <1>5 DEF TaskCount, SegmentCount
<1> QED BY <1>7, <1>8

\* The invariant holds in the beginning.
LEMMA Begun ==
    ASSUME Init
    PROVE  IInv
<1>1. /\ full \in Grids /\ grid = [p \in Pictures |-> full]
      /\ dep = [p \in Pictures |-> InitialDep[grid[p]]] /\ cur = [p \in Pictures |-> First[grid[p]]]
      /\ count = [p \in Pictures |-> 0] /\ stage = [p \in Pictures |-> "mdc"]
      /\ retry = [p \in Pictures |-> FALSE] /\ rounds = [p \in Pictures |-> 0]
      /\ times = [p \in Pictures |-> NoneCoded(grid[p])]
      /\ free = TaskCount /\ queue = << >> /\ worker = [w \in Workers |-> Idle]
  BY DEF Init, FreshDep, FreshCur
<1>2. Idle \in WorkerType /\ Idle.pc = "idle"
  BY DEF Idle, WorkerType, Steps
<1>3. \A w \in Workers : worker[w] = Idle
  BY <1>1
<1>4. TypesInv
  <2>1. First[full] \in [Rows(full) -> Nat]
    BY <1>1, FreshDependencies
  <2>2. \A p \in Pictures : \A r \in DOMAIN cur[p] : cur[p][r] \in Nat
    BY <1>1, <2>1
  <2>3. free \in Nat /\ queue \in Seq(Tasks)
    BY <1>1, TaskNumber
  <2>4. worker \in [Workers -> WorkerType] /\ \A w \in Workers : worker[w].pc = "idle"
    BY <1>1, <1>2
  <2>5. grid \in [Pictures -> Grids] /\ DOMAIN dep = Pictures /\ DOMAIN cur = Pictures /\ DOMAIN times = Pictures
    BY <1>1
  <2>6. /\ count \in [Pictures -> Nat] /\ stage \in [Pictures -> {"mdc", "encdec", "results"}]
        /\ retry \in [Pictures -> BOOLEAN]
    BY <1>1
  <2>7. rounds \in [Pictures -> 0 .. MaxRounds]
    BY <1>1, SizesAssumption
  <2> QED BY <1>1, <2>2, <2>3, <2>4, <2>5, <2>6, <2>7 DEF TypesInv
<1>5. PoolInv
  <2>1. BusyOf(worker) = {}
    BY <1>2, <1>3 DEF BusyOf
  <2>2. IsFiniteSet(BusyOf(worker)) /\ Cardinality(BusyOf(worker)) = 0
    BY <2>1, FS_EmptySet
  <2>3. Len(queue) = 0 /\ DOMAIN queue = {}
    BY <1>1
  <2>4. free + Len(queue) + Cardinality(BusyOf(worker)) = TaskCount
    BY <1>1, <2>2, <2>3, TaskNumber
  <2> QED BY <2>2, <2>3, <2>4 DEF PoolInv
<1>6. PicturesInv
  <2> SUFFICES ASSUME NEW p \in Pictures
               PROVE  Seen(p)
    BY DEF PicturesInv
  <2>1. Quiet(ViewOf(worker, p), AskedOf(queue, p))
    <3>1. AskedOf(queue, p) = {}
      BY <1>1 DEF AskedOf
    <3>2. \A v \in Workers : ViewOf(worker, p)[v].pc = "idle"
      BY <1>2, <1>3 DEF ViewOf
    <3> QED BY <3>1, <3>2 DEF Quiet
  <2>2. Fresh(grid[p], dep[p], cur[p], count[p], times[p])
    BY <1>1 DEF Fresh
  <2>3. stage[p] = "mdc" /\ retry[p] = FALSE
    BY <1>1
  <2> QED BY <2>1, <2>2, <2>3 DEF Seen, PictureOK
<1> QED BY <1>4, <1>5, <1>6 DEF IInv

\* Every step keeps the invariant.
LEMMA Stays ==
    ASSUME IInv, [Next]_vars
    PROVE  IInv'
<1>1. ASSUME NEW p \in Pictures, Configure(p) \/ \E g \in Grids : Retry(p, g)
      PROVE  IInv'
  BY <1>1, ConfigureKeeps, RetryKeeps
<1>2. ASSUME NEW w \in Workers, Begin(w)
      PROVE  IInv'
  BY <1>2, StartPictureKeeps, StartRowKeeps, BumpRowKeeps, RenewKeeps DEF Begin
<1>3. ASSUME NEW w \in Workers, Segment(w)
      PROVE  IInv'
  <2>1. CASE Code(w) \/ Feedback(w)
    BY <2>1, CodeKeeps, FeedbackKeeps
  <2>2. CASE Right(w)
    BY <2>2, RightMovesKeeps, RightTakesKeeps
  <2>3. CASE Below(w)
    BY <2>3, BelowMovesKeeps, BelowTakesKeeps, BelowAsksKeeps
  <2> QED BY <1>3, <2>1, <2>2, <2>3 DEF Segment
<1>4. ASSUME NEW w \in Workers, End(w)
      PROVE  IInv'
  BY <1>4, TallyKeeps, TallyEndsKeeps, RecodeKeeps, RepostKeeps, PostResultKeeps, ReleaseTaskKeeps DEF End
<1>5. ASSUME UNCHANGED vars
      PROVE  IInv'
  <2>1. /\ UNCHANGED <<full, grid, dep, cur, count, stage, retry, rounds, times, free, queue, worker>>
    BY <1>5 DEF vars
  <2>2. TypesInv' /\ PoolInv'
    BY <2>1 DEF IInv, TypesInv, PoolInv, TaskCount
  <2>3. PicturesInv'
    BY <2>1 DEF IInv, PicturesInv, Seen
  <2> QED BY <2>2, <2>3 DEF IInv
<1> QED BY <1>1, <1>2, <1>3, <1>4, <1>5, TakeKeeps DEF Next, Work

-----------------------------------------------------------------------------
(* The theorems.                                                            *)

(* The invariant: every picture is in one of its passes, and in a pass the  *)
(* dependency counts are the segments that wait, every segment has at most  *)
(* one worker, and every SB coded is counted or is still to be.             *)
THEOREM Invariance == Spec => []IInv
<1>1. Init => IInv
  BY Begun
<1>2. IInv /\ [Next]_vars => IInv'
  BY Stays
<1> QED BY <1>1, <1>2, PTL DEF Spec

\* The dependency counts and the coded SBs of a picture have their types in every pass.
LEMMA PictureTypes ==
    ASSUME NEW st, NEW rt, NEW g \in Grids, NEW d, NEW c, NEW n, NEW tm, NEW V, NEW A,
           PictureOK(st, rt, g, d, c, n, tm, V, A)
    PROVE  (\A s \in DOMAIN d : d[s] \in 0 .. 2) /\ tm \in [Sbs(g) -> Nat]
<1>1. Fresh(g, d, c, n, tm) => (\A s \in DOMAIN d : d[s] \in 0 .. 2) /\ tm \in [Sbs(g) -> Nat]
  BY FreshDependencies DEF Fresh, NoneCoded
<1>2. Stale(g, d, tm) => (\A s \in DOMAIN d : d[s] \in 0 .. 2) /\ tm \in [Sbs(g) -> Nat]
  BY DEF Stale, NoneCoded
<1>3. Whole(g, d, tm) => (\A s \in DOMAIN d : d[s] \in 0 .. 2) /\ tm \in [Sbs(g) -> Nat]
  BY DEF Whole
<1>4. Wave(g, d, c, n, tm, V, A) => (\A s \in DOMAIN d : d[s] \in 0 .. 2) /\ tm \in [Sbs(g) -> Nat]
  BY DEF Wave, Dependent, Counted
<1>5. Fresh(g, d, c, n, tm) \/ Stale(g, d, tm) \/ Whole(g, d, tm) \/ Wave(g, d, c, n, tm, V, A)
  BY DEF PictureOK
<1> QED BY <1>1, <1>2, <1>3, <1>4, <1>5

(* Types: no dependency count goes below zero, where the code's bytes would *)
(* wrap, and no more tasks are given back than there are.                   *)
THEOREM Types == Spec => []TypeOK
<1>1. IInv => TypeOK
  <2> SUFFICES ASSUME IInv
               PROVE  TypeOK
    OBVIOUS
  <2>1. TypesInv /\ PoolInv /\ PicturesInv
    BY DEF IInv
  <2>2. ASSUME NEW p \in Pictures
        PROVE  (\A s \in DOMAIN dep[p] : dep[p][s] \in 0 .. 2) /\ times[p] \in [Sbs(grid[p]) -> Nat]
    <3>1. PictureOK(stage[p], retry[p], grid[p], dep[p], cur[p], count[p], times[p],
                    ViewOf(worker, p), AskedOf(queue, p)) /\ grid[p] \in Grids
      BY <2>1 DEF PicturesInv, Seen, TypesInv
    <3>2. PICK st, rt, g, d, c, n, tm, V, A :
             /\ st = stage[p] /\ rt = retry[p] /\ g = grid[p] /\ d = dep[p] /\ c = cur[p] /\ n = count[p]
             /\ tm = times[p] /\ V = ViewOf(worker, p) /\ A = AskedOf(queue, p)
      OBVIOUS
    <3>3. (\A s \in DOMAIN d : d[s] \in 0 .. 2) /\ tm \in [Sbs(g) -> Nat]
      BY <3>1, <3>2, PictureTypes
    <3> QED BY <3>2, <3>3
  <2>3. free \in 0 .. TaskCount
    <3>1. Cardinality(BusyOf(worker)) \in Nat /\ Len(queue) \in Nat /\ free \in Nat
      BY <2>1, FS_CardinalityType DEF PoolInv, TypesInv
    <3> QED BY <2>1, <3>1 DEF PoolInv
  <2> QED BY <2>1, <2>2, <2>3 DEF TypesInv, TypeOK, WorkerType
<1> QED BY <1>1, Invariance, PTL

(* Whoever resets a picture without a lock is alone in it.                  *)
THEOREM Resets == Spec => []ResetsAlone
<1>1. IInv => ResetsAlone
  <2> SUFFICES ASSUME IInv, NEW w \in Workers, worker[w].pc \in {"start", "renew", "last", "repost"}
               PROVE  /\ \A v \in Workers \ {w} : Busy(v) /\ Pic(v) = Pic(w) => At(v, "release")
                      /\ \A i \in DOMAIN queue : queue[i].pic # Pic(w)
    BY DEF ResetsAlone
  <2>1. TypesInv /\ PicturesInv
    BY DEF IInv
  <2>2. PICK st, rt, g, d, c, n, tm, V, A, p :
           /\ p = Pic(w)
           /\ st = stage[p] /\ rt = retry[p] /\ g = grid[p] /\ d = dep[p] /\ c = cur[p] /\ n = count[p]
           /\ tm = times[p] /\ V = ViewOf(worker, p) /\ A = AskedOf(queue, p)
    OBVIOUS
  <2>3. p \in Pictures /\ g \in Grids /\ PictureOK(st, rt, g, d, c, n, tm, V, A)
    <3>1. worker[w].task \in Tasks
      BY <2>1 DEF TypesInv
    <3>2. p \in Pictures
      BY <2>2, <3>1 DEF Tasks, Pic
    <3> QED BY <2>1, <2>2, <3>2 DEF PicturesInv, Seen, TypesInv
  <2>4. V[w] = worker[w]
    <3>1. Serves(worker[w], p)
      BY <2>2 DEF Serves, Pic
    <3> QED BY <2>2, <3>1 DEF ViewOf
  <2>5. \E S : Alone(w, S, V, A)
    <3>1. V[w].pc \in {"start", "repost"} => Alone(w, {"start", "repost"}, V, A)
      BY <2>3, ModeOfWorker
    <3>2. V[w].pc = "renew" => Alone(w, {"renew"}, V, A)
      BY <2>3, RenewWorker
    <3>3. V[w].pc = "last" => Alone(w, {"last"}, V, A)
      BY <2>3, LastWorker
    <3>4. V[w].pc \in {"start", "repost"} \/ V[w].pc = "renew" \/ V[w].pc = "last"
      BY <2>4
    <3> QED BY <3>1, <3>2, <3>3, <3>4
  <2>6. A = {} /\ \A v \in Workers \ {w} : V[v].pc = "idle"
    BY <2>5 DEF Alone
  <2>7. ASSUME NEW v \in Workers \ {w}, Busy(v), Pic(v) = Pic(w)
        PROVE  At(v, "release")
    <3>1. Serves(worker[v], p) => V[v] = worker[v]
      BY <2>2 DEF ViewOf
    <3>2. ~Serves(worker[v], p)
      BY <2>6, <2>7, <3>1 DEF Serves
    <3> QED BY <2>2, <2>7, <3>2 DEF Serves, Busy, At, Pic
  <2>8. \A i \in DOMAIN queue : queue[i].pic # Pic(w)
    BY <2>2, <2>6 DEF AskedOf
  <2> QED BY <2>7, <2>8
<1> QED BY <1>1, Invariance, PTL

\* In a running picture whoever owns a row begins it, or is in its last segment that was taken.
InRowLast(g, V, w, r) == \E s : (Holds(V, w, s) \/ Leaves(V, w, s)) /\ RowOfSeg(g, s) = r
Owns(g, V, w, r) == Begins(g, V, w, r) \/ InRowLast(g, V, w, r)

\* A row has one of these only.
LEMMA OneOwns ==
    ASSUME NEW g, IsGrid(g), NEW d, NEW c, NEW n, NEW tm, NEW V, NEW A, Wave(g, d, c, n, tm, V, A),
           NEW r \in Nat
    PROVE  /\ \A v, w \in Workers : Owns(g, V, v, r) /\ Owns(g, V, w, r) => v = w
           /\ \A w \in Workers : ~(Owns(g, V, w, r) /\ IsAsked(A, r))
<1>1. Dependent(g, d, c, V) /\ Placed(g, c, V) /\ Ready(g, d, c, V, A) /\ Apart(g, V, A)
  BY DEF Wave
<1>2. \A w \in Workers : InRowLast(g, V, w, r) =>
         /\ ~IsAsked(A, r) /\ \A v \in Workers : ~Begins(g, V, v, r)
  <2> SUFFICES ASSUME NEW w \in Workers, InRowLast(g, V, w, r)
               PROVE  ~IsAsked(A, r) /\ \A v \in Workers : ~Begins(g, V, v, r)
    OBVIOUS
  <2>1. PICK s : (Holds(V, w, s) \/ Leaves(V, w, s)) /\ RowOfSeg(g, s) = r
    BY DEF InRowLast
  <2>2. ~IsAsked(A, RowOfSeg(g, s)) /\ \A v \in Workers : ~Begins(g, V, v, RowOfSeg(g, s))
    BY <1>1, <2>1, CarriersAreLast
  <2> QED BY <2>1, <2>2
<1>3. ASSUME NEW v \in Workers, NEW w \in Workers, InRowLast(g, V, v, r), InRowLast(g, V, w, r)
      PROVE  v = w
  <2>1. PICK s : (Holds(V, v, s) \/ Leaves(V, v, s)) /\ RowOfSeg(g, s) = r
    BY <1>3 DEF InRowLast
  <2>2. PICK u : (Holds(V, w, u) \/ Leaves(V, w, u)) /\ RowOfSeg(g, u) = r
    BY <1>3 DEF InRowLast
  <2>3. s = c[r] - 1 /\ u = c[r] - 1 /\ s \in Scan(g) /\ u \in Scan(g)
    BY <1>1, <2>1, <2>2 DEF Placed, Has
  <2>4. Has(V, v, s) /\ Has(V, w, s)
    BY <2>1, <2>2, <2>3 DEF Has
  <2> QED BY <1>1, <2>3, <2>4 DEF Apart
<1>4. /\ \A v, w \in Workers : Begins(g, V, v, r) /\ Begins(g, V, w, r) => v = w
      /\ \A w \in Workers : ~(Begins(g, V, w, r) /\ IsAsked(A, r))
  BY <1>1 DEF Apart
<1>5. ASSUME NEW v \in Workers, NEW w \in Workers, Owns(g, V, v, r), Owns(g, V, w, r)
      PROVE  v = w
  BY <1>2, <1>3, <1>4, <1>5 DEF Owns
<1> QED BY <1>2, <1>4, <1>5 DEF Owns

\* Two sets of at most one element, of which one is empty.
LEMMA AtMostOne ==
    ASSUME NEW S, NEW T, \A a, b \in S : a = b, \A a, b \in T : a = b, S = {} \/ T = {}
    PROVE  Cardinality(S) + Cardinality(T) <= 1
<1>1. ASSUME NEW Q, \A a, b \in Q : a = b
      PROVE  Cardinality(Q) \in 0 .. 1
  <2>1. CASE Q = {}
    BY <2>1, FS_EmptySet
  <2>2. CASE Q # {}
    <3>1. PICK a : Q = {a}
      BY <1>1, <2>2
    <3>2. Cardinality(Q) = 1
      BY <3>1, FS_Singleton
    <3> QED BY <3>2
  <2> QED BY <2>1, <2>2
<1>2. Cardinality(S) \in 0 .. 1 /\ Cardinality(T) \in 0 .. 1
  BY <1>1
<1>3. Cardinality(S) = 0 \/ Cardinality(T) = 0
  BY FS_EmptySet
<1> QED BY <1>2, <1>3

\* A worker that owns a row serves a running picture.
LEMMA OwnsIsOwns ==
    ASSUME IInv, NEW p \in Pictures, NEW r \in Nat, NEW w \in Workers, OwnsRow(w, p, r)
    PROVE  /\ Owns(grid[p], ViewOf(worker, p), w, r)
           /\ Wave(grid[p], dep[p], cur[p], count[p], times[p], ViewOf(worker, p), AskedOf(queue, p))
<1>1. TypesInv /\ PicturesInv
  BY DEF IInv
<1>2. PICK st, rt, g, d, c, n, tm, V, A :
         /\ st = stage[p] /\ rt = retry[p] /\ g = grid[p] /\ d = dep[p] /\ c = cur[p] /\ n = count[p]
         /\ tm = times[p] /\ V = ViewOf(worker, p) /\ A = AskedOf(queue, p)
  OBVIOUS
<1>3. g \in Grids /\ PictureOK(st, rt, g, d, c, n, tm, V, A)
  BY <1>1, <1>2 DEF PicturesInv, Seen, TypesInv
<1>4. worker[w].pc \in {"row", "bump", "code", "right", "below", "feedback"} /\ Pic(w) = p
  BY DEF OwnsRow, InSegments
<1>5. V[w] = worker[w]
  <2>1. Serves(worker[w], p)
    BY <1>4 DEF Serves, Pic
  <2> QED BY <1>2, <2>1 DEF ViewOf
<1>6. Wave(g, d, c, n, tm, V, A) /\ IsGrid(g)
  <2>1. V[w].pc \in Counting \ {"start"}
    BY <1>4, <1>5 DEF Counting
  <2> QED BY <1>3, <2>1, RunningWorker
<1>7. Placed(g, c, V)
  BY <1>6 DEF Wave
<1>8. GridAt(w) = g /\ Row(w) = RowOfSeg(g, V[w].from)
  <2>1. GridAt(w) = g
    BY <1>2, <1>4 DEF GridAt
  <2> QED BY <1>5, <2>1 DEF Row, RowOfSeg
<1>9. Owns(g, V, w, r)
  <2>1. CASE V[w].pc \in {"row", "bump"} /\ V[w].task.row = r
    BY <2>1 DEF Owns, Begins
  <2>2. CASE V[w].pc = "feedback" /\ RowOfSeg(g, V[w].from) + 1 = r
    BY <2>2 DEF Owns, Begins
  <2>3. CASE (V[w].pc = "code" \/ V[w].again) /\ RowOfSeg(g, V[w].seg) = r
    <3>1. Holds(V, w, V[w].seg)
      BY <1>4, <1>5, <1>7, <2>3 DEF Holds, Placed
    <3> QED BY <2>3, <3>1 DEF Owns, InRowLast
  <2>4. CASE V[w].pc = "right" /\ RowOfSeg(g, V[w].from) = r
    <3>1. Leaves(V, w, V[w].from)
      BY <2>4 DEF Leaves
    <3> QED BY <2>4, <3>1 DEF Owns, InRowLast
  <2>5. \/ V[w].pc \in {"row", "bump"} /\ V[w].task.row = r
        \/ V[w].pc = "feedback" /\ RowOfSeg(g, V[w].from) + 1 = r
        \/ (V[w].pc = "code" \/ V[w].again) /\ RowOfSeg(g, V[w].seg) = r
        \/ V[w].pc = "right" /\ RowOfSeg(g, V[w].from) = r
    <3>1. RowOfSeg(g, V[w].seg) = worker[w].seg \div grid[p].bands
      BY <1>2, <1>5 DEF RowOfSeg
    <3> QED BY <1>5, <1>8, <3>1 DEF OwnsRow
  <2> QED BY <2>1, <2>2, <2>3, <2>4, <2>5
<1> QED BY <1>2, <1>6, <1>9

(* A segment row has one owner, however it passes from worker to worker:    *)
(* the increment of current_seg_index outside the row's mutex is safe.      *)
THEOREM OneOwner == Spec => []OneOwnerPerRow
<1>1. IInv => OneOwnerPerRow
  <2> SUFFICES ASSUME IInv, NEW p \in Pictures, NEW r \in 0 .. grid[p].rows - 1
               PROVE  Cardinality({w \in Workers : OwnsRow(w, p, r)}) + Cardinality(QueuedRow(p, r)) <= 1
    BY DEF OneOwnerPerRow
  <2>1. TypesInv /\ PoolInv /\ PicturesInv
    BY DEF IInv
  <2>2. PICK st, rt, g, d, c, n, tm, V, A :
           /\ st = stage[p] /\ rt = retry[p] /\ g = grid[p] /\ d = dep[p] /\ c = cur[p] /\ n = count[p]
           /\ tm = times[p] /\ V = ViewOf(worker, p) /\ A = AskedOf(queue, p)
    OBVIOUS
  <2>3. g \in Grids /\ PictureOK(st, rt, g, d, c, n, tm, V, A)
    BY <2>1, <2>2 DEF PicturesInv, Seen, TypesInv
  <2>4. IsGrid(g) /\ r \in Nat
    BY <2>2, <2>3, FreshDependencies, GridNumbers
  <2>5. PICK S, T : S = {w \in Workers : OwnsRow(w, p, r)} /\ T = QueuedRow(p, r)
    OBVIOUS
  <2>6. \A w \in S : w \in Workers /\ Owns(g, V, w, r) /\ Wave(g, d, c, n, tm, V, A)
    BY <2>2, <2>4, <2>5, OwnsIsOwns
  <2>7. T # {} => IsAsked(A, r) /\ Wave(g, d, c, n, tm, V, A)
    <3> SUFFICES ASSUME NEW i \in T
                 PROVE  IsAsked(A, r) /\ Wave(g, d, c, n, tm, V, A)
      OBVIOUS
    <3>1. PICK t : t = queue[i]
      OBVIOUS
    <3>2. i \in DOMAIN queue /\ t.type = "ENCDEC" /\ t.pic = p /\ t.row = r
      BY <2>5, <3>1 DEF QueuedRow, Task
    <3>3. t \in A
      BY <2>2, <3>1, <3>2 DEF AskedOf
    <3>4. Wave(g, d, c, n, tm, V, A)
      <4>1. \/ t.type = "ENCDEC" /\ Running(V, A) /\ Wave(g, d, c, n, tm, V, A)
            \/ t.type = "MDC" \/ t.type = "SUPERRES"
        BY <2>3, <3>3, AskedMode
      <4> QED BY <3>2, <4>1
    <3> QED BY <3>2, <3>3, <3>4 DEF IsAsked
  <2>8. \A a, b \in S : a = b
    <3> SUFFICES ASSUME NEW a \in S, NEW b \in S
                 PROVE  a = b
      OBVIOUS
    <3>1. Owns(g, V, a, r) /\ Owns(g, V, b, r) /\ a \in Workers /\ b \in Workers /\ Wave(g, d, c, n, tm, V, A)
      BY <2>6
    <3> QED BY <2>4, <3>1, OneOwns
  <2>9. \A a, b \in T : a = b
    BY <2>1, <2>5 DEF QueuedRow, PoolInv
  <2>10. S = {} \/ T = {}
    <3> SUFFICES ASSUME NEW a \in S, T # {}
                 PROVE  FALSE
      OBVIOUS
    <3>1. Owns(g, V, a, r) /\ IsAsked(A, r) /\ a \in Workers /\ Wave(g, d, c, n, tm, V, A)
      BY <2>6, <2>7
    <3> QED BY <2>4, <3>1, OneOwns
  <2> QED BY <2>5, <2>8, <2>9, <2>10, AtMostOne
<1> QED BY <1>1, Invariance, PTL

-----------------------------------------------------------------------------
(* The wavefront.                                                           *)

\* The pictures that left, as the contract counts them.
Handed == [p \in Pictures |-> stage[p] = "results"]

\* The abstract specification speaks of the same SBs.
LEMMA SameSbs ==
    /\ \A g : Abstract!None(g) = NoneCoded(g) /\ Abstract!Once(g) = [sb \in Sbs(g) |-> 1]
    /\ \A g : Abstract!Sbs(g) = Sbs(g)
    /\ \A g, sb : Abstract!Neighbours(g, sb) = Neighbours(g, sb)
  BY DEF Abstract!None, Abstract!Once, Abstract!Sbs, Abstract!Neighbours, Sbs, Neighbours, NoneCoded

\* The stages do not change, and one picture codes what it may, if anything.
LEMMA CodesOne ==
    ASSUME NEW p \in Pictures, grid' = grid, stage' = stage,
           CodedAfter(grid[p], times[p], times'[p]), \A r \in Pictures \ {p} : times'[r] = times[r]
    PROVE  Abstract!Code(p)
<1>1. UNCHANGED Handed
  BY DEF Handed
<1>2. ASSUME NEW sb \in Abstract!Sbs(grid[p]), times'[p][sb] # times[p][sb]
      PROVE  /\ times[p][sb] = 0 /\ times'[p][sb] = 1
             /\ \A nb \in Abstract!Neighbours(grid[p], sb) : times'[p][nb] = 1
  <2>1. sb \in Sbs(grid[p])
    BY <1>2, SameSbs
  <2>2. /\ times[p][sb] = 0 /\ times'[p][sb] = 1
        /\ \A nb \in Neighbours(grid[p], sb) : times'[p][nb] = 1
    BY <1>2, <2>1 DEF CodedAfter
  <2> QED BY <2>2, SameSbs
<1> QED BY <1>1, <1>2 DEF Abstract!Code, Handed

\* Every step is one of the wavefront, or is not seen there.
LEMMA StepImplements ==
    ASSUME IInv, [Next]_vars
    PROVE  [Abstract!Next]_<<grid, times, Handed>>
<1>1. ASSUME grid' = grid, times' = times, stage' = stage
      PROVE  UNCHANGED <<grid, times, Handed>>
  BY <1>1 DEF Handed
<1>2. ASSUME NEW p \in Pictures, Configure(p)
      PROVE  UNCHANGED <<grid, times, Handed>>
  <2>1. /\ stage[p] = "mdc" /\ stage' = [stage EXCEPT ![p] = "encdec"] /\ grid' = grid /\ times' = times
    BY <1>2 DEF Configure
  <2>2. \A r \in Pictures : (stage'[r] = "results") <=> (stage[r] = "results")
    BY <2>1 DEF IInv, TypesInv
  <2>3. Handed' = Handed
    BY <2>2 DEF Handed
  <2> QED BY <2>1, <2>3
<1>3. ASSUME NEW p \in Pictures, NEW g \in Grids, Retry(p, g)
      PROVE  Abstract!ComeBack(p)
  <2>1. /\ stage[p] = "results" /\ grid' = [grid EXCEPT ![p] = g] /\ stage' = [stage EXCEPT ![p] = "mdc"]
        /\ times' = [times EXCEPT ![p] = NoneCoded(g)]
    BY <1>3 DEF Retry
  <2>2. stage'[p] = "mdc" /\ \A r \in Pictures \ {p} : stage'[r] = stage[r]
    BY <2>1 DEF IInv, TypesInv
  <2>3. Handed' = [Handed EXCEPT ![p] = FALSE] /\ Handed[p]
    BY <2>1, <2>2 DEF Handed
  <2>4. times' = [times EXCEPT ![p] = Abstract!None(g)]
    BY <2>1, SameSbs
  <2> QED BY <2>1, <2>3, <2>4 DEF Abstract!ComeBack, Handed
<1>4. ASSUME NEW w \in Workers, Code(w)
      PROVE  \E p \in Pictures : Abstract!Code(p)
  <2>1. grid' = grid /\ stage' = stage
    BY <1>4 DEF Code, pictureVars
  <2>2. PICK p \in Pictures : /\ CodedAfter(grid[p], times[p], times'[p])
                              /\ \A r \in Pictures \ {p} : times'[r] = times[r]
    BY <1>4, CodeKeeps
  <2> QED BY <2>1, <2>2, CodesOne
<1>5. ASSUME NEW w \in Workers, Renew(w)
      PROVE  \E p \in Pictures : Abstract!Code(p)
  <2>1. grid' = grid /\ stage' = stage
    BY <1>5 DEF Renew
  <2>2. \A r \in Pictures : times'[r] = times[r]
    BY <1>5, RenewKeeps
  <2>3. PICK p \in Pictures : TRUE
    BY SizesAssumption
  <2>4. CodedAfter(grid[p], times[p], times'[p])
    BY <2>2 DEF CodedAfter
  <2> QED BY <2>1, <2>2, <2>4, CodesOne
<1>6. ASSUME NEW w \in Workers, Recode(w)
      PROVE  \E p \in Pictures : Abstract!CodeAgain(p)
  <2>1. grid' = grid /\ stage' = stage
    BY <1>6 DEF Recode
  <2>2. PICK p \in Pictures : /\ stage[p] # "results" /\ times[p] = [sb \in Sbs(grid[p]) |-> 1]
                              /\ times' = [times EXCEPT ![p] = NoneCoded(grid[p])]
    BY <1>6, RecodeKeeps
  <2>3. ~Handed[p] /\ Handed' = Handed
    BY <2>1, <2>2 DEF Handed
  <2>4. times[p] = Abstract!Once(grid[p]) /\ times' = [times EXCEPT ![p] = Abstract!None(grid[p])]
    BY <2>2, SameSbs
  <2> QED BY <2>1, <2>3, <2>4 DEF Abstract!CodeAgain, Abstract!Complete, Handed
<1>7. ASSUME NEW w \in Workers, PostResult(w)
      PROVE  \E p \in Pictures : Abstract!HandOn(p)
  <2>1. grid' = grid /\ times' = times
    BY <1>7 DEF PostResult
  <2>2. PICK p \in Pictures : /\ stage[p] # "results" /\ times[p] = [sb \in Sbs(grid[p]) |-> 1]
                              /\ stage' = [stage EXCEPT ![p] = "results"]
    BY <1>7, PostResultKeeps
  <2>3. stage'[p] = "results" /\ \A r \in Pictures \ {p} : stage'[r] = stage[r]
    BY <2>2 DEF IInv, TypesInv
  <2>4. ~Handed[p] /\ Handed' = [Handed EXCEPT ![p] = TRUE]
    BY <2>2, <2>3 DEF Handed
  <2>5. times[p] = Abstract!Once(grid[p])
    BY <2>2, SameSbs
  <2> QED BY <2>1, <2>4, <2>5 DEF Abstract!HandOn, Abstract!Complete, Handed
<1>8. ASSUME NEW w \in Workers,
             \/ Take(w) \/ StartPicture(w) \/ StartRow(w) \/ BumpRow(w) \/ Right(w) \/ Below(w) \/ Feedback(w)
             \/ Tally(w) \/ Repost(w) \/ ReleaseTask(w)
      PROVE  grid' = grid /\ times' = times /\ stage' = stage
  BY <1>8 DEF Take, StartPicture, StartRow, BumpRow, Right, Below, Feedback, Tally, Repost, ReleaseTask, pictureVars
<1>9. ASSUME UNCHANGED vars
      PROVE  grid' = grid /\ times' = times /\ stage' = stage
  BY <1>9 DEF vars
<1>10. ASSUME NEW w \in Workers, Work(w)
       PROVE  [Abstract!Next]_<<grid, times, Handed>>
  <2>1. CASE Code(w) \/ Renew(w) \/ Recode(w) \/ PostResult(w)
    BY <1>4, <1>5, <1>6, <1>7, <2>1 DEF Abstract!Next
  <2>2. CASE ~(Code(w) \/ Renew(w) \/ Recode(w) \/ PostResult(w))
    BY <1>1, <1>8, <1>10, <2>2 DEF Work, Begin, Segment, End
  <2> QED BY <2>1, <2>2
<1>11. ASSUME NEW p \in Pictures, Configure(p) \/ \E g \in Grids : Retry(p, g)
       PROVE  [Abstract!Next]_<<grid, times, Handed>>
  BY <1>2, <1>3, <1>11 DEF Abstract!Next
<1> QED BY <1>1, <1>9, <1>10, <1>11 DEF Next

\* It begins as the wavefront does.
LEMMA InitImplements ==
    ASSUME Init
    PROVE  Abstract!Init
<1>1. grid = [p \in Pictures |-> full] /\ full \in Grids /\ stage = [p \in Pictures |-> "mdc"]
  BY DEF Init
<1>2. times = [p \in Pictures |-> NoneCoded(grid[p])]
  BY DEF Init
<1>3. times = [p \in Pictures |-> Abstract!None(grid[p])]
  BY <1>2, SameSbs
<1>4. Handed = [p \in Pictures |-> FALSE]
  BY <1>1 DEF Handed
<1> QED BY <1>1, <1>3, <1>4 DEF Abstract!Init, Handed

(* The workers implement the wavefront: SBs are coded once, after the       *)
(* neighbours they read, and only a picture that is wholly coded is handed  *)
(* on or coded again.                                                       *)
THEOREM WavefrontImplemented == Spec => ImplementsWavefront
<1>1. Init => Abstract!Init
  BY InitImplements
<1>2. IInv /\ [Next]_vars => [Abstract!Next]_<<grid, times, Handed>>
  BY StepImplements
<1> QED BY <1>1, <1>2, Invariance, PTL DEF Spec, ImplementsWavefront, Abstract!Spec, Handed

=============================================================================
