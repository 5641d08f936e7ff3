------------------------ MODULE PacketizationProofs ------------------------
(***************************************************************************)
(* Proofs about the last stages of the encoder, for every sequence of      *)
(* pictures that VideosAssumption admits: pictures pass the stages one at  *)
(* a time; and for those whose ring is large enough (RingAssumption), no   *)
(* entry of the reordering ring is lost, the stream is in decode order,    *)
(* every buffer of the output stream is accounted for, and the stream ends *)
(* at most once.                                                           *)
(*                                                                         *)
(* Nothing keeps the ring from being overwritten where it is written.      *)
(* RingAssumption speaks of the pictures and their dependencies, not of    *)
(* the ring.  Two things lead from it to the ring: the packetized pictures *)
(* are always a set that the dependencies allow (OrderInv); and what       *)
(* packetization has sent, it sent as soon as a shown picture completed a  *)
(* unit, so that the entries between the head and the oldest missing       *)
(* picture are those of hidden ones.                                       *)
(*                                                                         *)
(* The second part proves that what is posted is what OutputStream         *)
(* promises the application: every picture in display order, each packet   *)
(* with the time and the metadata of the picture it shows, and one end.    *)
(* Packetization sends units in decode order and never looks at picture    *)
(* numbers.  They come out in display order because each shown picture is  *)
(* the next one to display once those before it in decode order are        *)
(* displayed, and because the earliest buffer kept is then the one of the  *)
(* hidden picture that its header shows.                                   *)
(***************************************************************************)
EXTENDS PacketizationRing, TLAPS, FiniteSetTheorems, SequenceTheorems, WellFoundedInduction

-----------------------------------------------------------------------------
(* The inductive invariant.                                                 *)

\* What the parts of a picture in one queue are.
DoneParts(part) == {s \in DOMAIN part : part[s] = "none"}

\* The tiles that are marked; the one whose worker found all marked is alone.
MarkedParts(part) == {s \in DOMAIN part : part[s] \in {"none", "last"}}
LastAlone(part)   == \A s, t \in DOMAIN part : part[s] = "last" /\ t # s => part[t] = "none"

\* The types of the filters' variables.
FlowTypes ==
    /\ video \in Videos
    /\ deblocking \subseteq Pictures
    /\ cdef \in [Pictures -> [1..video.cdefSegments -> PartStates]]
    /\ restoration \in [Pictures -> [1..video.restSegments -> PartStates]]
    /\ tiles \in [Pictures -> [1..video.tiles -> PartStates]]
    /\ cdefCount \in [Pictures -> Nat] /\ restCount \in [Pictures -> Nat]
    /\ tileDone \in [Pictures -> SUBSET (1..video.tiles)]
    /\ held \in [Pictures -> Nat] /\ recodes \in [Pictures -> Nat]
    /\ results \in Seq(Pictures)
    /\ packetized \subseteq started /\ started \subseteq Pictures

InCdef(d)        == \E s \in 1..video.cdefSegments : cdef[d][s] # "none"
InRestoration(d) == \E s \in 1..video.restSegments : restoration[d][s] # "none"
InTiles(d)       == \E s \in 1..video.tiles : tiles[d][s] # "none"
InResults(d)     == \E i \in DOMAIN results : results[i] = d

\* The picture is in this stage and in no other.
OnlyIn(d, stage) ==
    /\ d \in deblocking <=> stage = "deblocking"
    /\ InCdef(d) <=> stage = "cdef"
    /\ InRestoration(d) <=> stage = "restoration"
    /\ InTiles(d) <=> stage = "tiles"
    /\ InResults(d) <=> stage = "results"

\* The places behind the one where the blocks of a picture are coded.
Stages == {"deblocking", "cdef", "restoration", "tiles", "results"}

\* A picture is in a stage from its start until it is packetized; there, what
\* was counted are the parts that are done, and no tile is marked too early.
FlowOf(d) ==
    /\ d \in started \ packetized => \E stage \in Stages : OnlyIn(d, stage)
    /\ d \notin started \ packetized => OnlyIn(d, "none")
    /\ cdefCount[d] <= video.cdefSegments /\ restCount[d] <= video.restSegments
    /\ InCdef(d) => cdefCount[d] = Cardinality(DoneParts(cdef[d]))
    /\ InRestoration(d) => restCount[d] = Cardinality(DoneParts(restoration[d]))
    /\ InTiles(d) => tileDone[d] = MarkedParts(tiles[d])
    /\ LastAlone(tiles[d])
    /\ d \in deblocking \/ InCdef(d) \/ InRestoration(d) => tileDone[d] = {}
    /\ held[d] = IF d \in started \ packetized /\ (Loops(d) > 0 \/ ~InResults(d)) THEN 1 ELSE 0
    /\ recodes[d] <= Loops(d)

\* A picture is in the queue of packetization at most once.
PostedOnce == \A i, j \in DOMAIN results : results[i] = results[j] => i = j

\* The filters: each picture is in the state one of the stages leaves it in.
FlowInv == FlowTypes /\ PostedOnce /\ \A d \in Pictures : FlowOf(d)

\* A picture starts once those it predicts from are packetized.
NeedsInv == \A d \in started : Pic(d).needs \subseteq packetized

\* And it starts in its turn: with enable_dec_order after all before it, and where
\* one picture is coded at a time, after all that it cannot be started past.
OrderInv ==
    /\ NeedsInv
    /\ \A d \in started, e \in Pictures \ packetized :
          /\ video.inOrder => d <= e
          /\ video.children = 1 => d < e + video.reach

\* The first h pictures are sent.  The others that are packetized have their
\* entries, within one round of the ring; the unit being sent begins with h.
Sent(h) ==
    /\ head = h % Size
    /\ 0..(h - 1) \subseteq packetized
    /\ \A d \in packetized : d >= h => d < h + Size /\ ring[SlotOf(d)].pic = d
    /\ \A i \in Slot : ring[i] # NoEntry => ring[i].pic \in packetized /\ ring[i].pic >= h /\ SlotOf(ring[i].pic) = i
    /\ h..(h + unit - 1) \subseteq packetized
    /\ free + Len(output) + Len(taken) + Len(undisplayed) + (Cardinality(packetized) - h - unit) = Buffers

\* The ring: for some number of pictures whose units left, the entries hold the
\* packets of the pictures behind them, and every buffer is accounted for.
RingInv ==
    /\ DOMAIN ring = Slot
    /\ unit \in 0..Size /\ free \in Nat
    /\ packer \in {"shows", "counts"} <=> unit > 0
    /\ packer = "waits" => FramesInNextUnit = 0
    /\ \E h \in 0..Len(video.pictures) : Sent(h)

\* A step leaves the number of pictures that are sent as it is.
SentSame == \E h \in 0..Len(video.pictures) : Sent(h) /\ Sent(h)'

\* A queue is a sequence: its elements are those it counts.
IsQueue(q) == Len(q) \in Nat /\ q = [i \in 1..Len(q) |-> q[i]]
QueueInv == IsQueue(output) /\ IsQueue(taken) /\ IsQueue(undisplayed) /\ IsQueue(stream)

\* Who is at the end of the sequence has the lock; the end was posted only when
\* all pictures were shown, and not by the one who is about to post it.
Ended == \E i \in DOMAIN stream : stream[i] = Stream!EndOfStream
\* The end: who holds the lock, what each thread found under it, and that the end
\* is in the stream only once every picture was shown.
EndInv ==
    /\ lock \in {Nobody, "packetization", "coordination"}
    /\ packer \in {"waits", "written", "looks", "shows", "counts"}
    /\ coordinator \in {"runs", "terminates", "done"}
    /\ packer \in {"looks", "shows", "counts"} <=> lock = "packetization"
    /\ coordinator = "terminates" <=> lock = "coordination"
    /\ shown \in Nat /\ eos \in BOOLEAN
    /\ terminating = IF coordinator = "runs" THEN NoEnd ELSE video.last
    /\ Ended => coordinator # "runs" /\ shown >= terminating + 1
    /\ coordinator = "terminates" => ~Ended
    /\ packer = "looks" /\ eos => ~Ended /\ coordinator # "runs" /\ shown = terminating + 1
    /\ \A i, j \in DOMAIN stream : stream[i] = Stream!EndOfStream /\ stream[j] = Stream!EndOfStream => i = j

\* The inductive invariant.
IInv == FlowInv /\ OrderInv /\ QueueInv /\ RingInv /\ EndInv

-----------------------------------------------------------------------------
(* The settings.                                                            *)

\* What is assumed of the sequence that is encoded.
LEMMA SettingsOK ==
    ASSUME FlowTypes
    PROVE  /\ video.cdefSegments \in Nat \ {0} /\ video.restSegments \in Nat \ {0} /\ video.tiles \in Nat \ {0}
           /\ Size \in Nat \ {0} /\ {video.reach, video.children} \subseteq Nat \ {0} /\ video.inOrder \in BOOLEAN
           /\ Len(video.pictures) \in Nat /\ video.last \in Nat
           /\ Buffers = Size + 2
<1>1. IsVideo(video)
  BY VideosAssumption DEF FlowTypes
<1> QED BY <1>1 DEF IsVideo, Size, Buffers

\* What is assumed of one of its pictures.
LEMMA PictureOK ==
    ASSUME FlowTypes, NEW d \in Pictures
    PROVE  /\ d \in Nat /\ d + 1 \in DOMAIN video.pictures
           /\ Pic(d) = video.pictures[d + 1] /\ Pic(d).number \in Nat /\ Loops(d) \in Nat
           /\ Pic(d).show \in BOOLEAN /\ Pic(d).existing \in BOOLEAN /\ Pic(d).alt \in BOOLEAN
           /\ Pic(d).alt => ~Pic(d).show
           /\ Pic(d).needs \subseteq 0..(d - 1)
<1>1. IsVideo(video) /\ Len(video.pictures) \in Nat
  BY VideosAssumption, SettingsOK DEF FlowTypes
<1>2. d \in Nat /\ d + 1 \in DOMAIN video.pictures
  BY <1>1 DEF IsVideo, Pictures
<1>3. /\ IsPicture(video.pictures[d + 1])
      /\ video.pictures[d + 1].needs \subseteq 0..((d + 1) - 2)
  BY <1>1, <1>2 DEF IsVideo
<1> QED BY <1>2, <1>3 DEF IsPicture, Pic, Loops, Size

-----------------------------------------------------------------------------
(* Parts and their count.                                                   *)

\* The number of parts that are done is within bounds, and reaches the total
\* when no part is left.
LEMMA CountParts ==
    ASSUME NEW n \in Nat, NEW part \in [1..n -> PartStates]
    PROVE  /\ IsFiniteSet(DoneParts(part)) /\ Cardinality(DoneParts(part)) \in 0..n
           /\ Cardinality(DoneParts(part)) = n <=> \A s \in 1..n : part[s] = "none"
<1>1. IsFiniteSet(1..n) /\ Cardinality(1..n) = n
  BY FS_Interval
<1>2. DoneParts(part) \subseteq 1..n
  BY DEF DoneParts
<1>3. /\ IsFiniteSet(DoneParts(part)) /\ Cardinality(DoneParts(part)) <= Cardinality(1..n)
      /\ Cardinality(1..n) = Cardinality(DoneParts(part)) => 1..n = DoneParts(part)
  BY <1>1, <1>2, FS_Subset
<1>4. Cardinality(DoneParts(part)) \in Nat
  BY <1>3, FS_CardinalityType
<1>5. (\A s \in 1..n : part[s] = "none") <=> DoneParts(part) = 1..n
  BY DEF DoneParts
<1> QED BY <1>1, <1>3, <1>4, <1>5

\* A worker that takes a part changes nothing about what is done.
LEMMA TakePart ==
    ASSUME NEW n \in Nat, NEW part \in [1..n -> PartStates], NEW s \in 1..n, part[s] = "posted"
    PROVE  /\ [part EXCEPT ![s] = "taken"] \in [1..n -> PartStates]
           /\ DoneParts([part EXCEPT ![s] = "taken"]) = DoneParts(part)
  BY DEF DoneParts, PartStates

\* A worker that finishes a part adds one to what is done; the last one is the
\* one that brings the count to the total.
LEMMA FinishPart ==
    ASSUME NEW n \in Nat, NEW part \in [1..n -> PartStates], NEW s \in 1..n, part[s] = "taken"
    PROVE  LET new == [part EXCEPT ![s] = "none"]
           IN  /\ new \in [1..n -> PartStates]
               /\ DoneParts(new) = DoneParts(part) \cup {s}
               /\ Cardinality(DoneParts(new)) = Cardinality(DoneParts(part)) + 1
               /\ Cardinality(DoneParts(new)) <= n
               /\ Cardinality(DoneParts(new)) = n <=> \A t \in 1..n : new[t] = "none"
<1> DEFINE new == [part EXCEPT ![s] = "none"]
<1>1. new \in [1..n -> PartStates]
  BY DEF PartStates
<1>2. DoneParts(new) = DoneParts(part) \cup {s} /\ s \notin DoneParts(part)
  BY DEF DoneParts
<1>3. IsFiniteSet(DoneParts(part)) /\ Cardinality(DoneParts(part)) \in 0..n
  BY CountParts
<1>4. Cardinality(DoneParts(new)) = Cardinality(DoneParts(part)) + 1
  BY <1>2, <1>3, FS_AddElement
<1>5. /\ Cardinality(DoneParts(new)) \in 0..n
      /\ Cardinality(DoneParts(new)) = n <=> \A t \in 1..n : new[t] = "none"
  BY <1>1, CountParts
<1>6. Cardinality(DoneParts(new)) <= n
  BY <1>5
<1> QED BY <1>1, <1>2, <1>4, <1>5, <1>6, Zenon

\* A worker that takes a tile marks nothing, and nobody is about to hand on the
\* picture.
LEMMA TakeTile ==
    ASSUME NEW n \in Nat, NEW part \in [1..n -> PartStates], NEW s \in 1..n, part[s] = "posted", LastAlone(part)
    PROVE  LET new == [part EXCEPT ![s] = "taken"]
           IN  new \in [1..n -> PartStates] /\ MarkedParts(new) = MarkedParts(part) /\ LastAlone(new)
  BY DEF MarkedParts, LastAlone, PartStates

\* A worker that marks its tile is the last one if all are marked then; in either
\* case the picture stays in entropy coding.
LEMMA MarkPart ==
    ASSUME NEW n \in Nat, NEW part \in [1..n -> PartStates], NEW s \in 1..n, part[s] = "taken", LastAlone(part)
    PROVE  LET new == [part EXCEPT ![s] = IF MarkedParts(part) \cup {s} = 1..n THEN "last" ELSE "none"]
           IN  /\ new \in [1..n -> PartStates]
               /\ MarkedParts(new) = MarkedParts(part) \cup {s}
               /\ LastAlone(new) /\ \E u \in 1..n : new[u] # "none"
<1> DEFINE new == [part EXCEPT ![s] = IF MarkedParts(part) \cup {s} = 1..n THEN "last" ELSE "none"]
<1>1. \A u \in 1..n : part[u] # "last"
  BY DEF LastAlone
<1>2. CASE MarkedParts(part) \cup {s} = 1..n
  <2>1. new = [part EXCEPT ![s] = "last"] /\ \A u \in 1..n : u # s => part[u] = "none"
    BY <1>1, <1>2 DEF MarkedParts
  <2>2. /\ new \in [1..n -> PartStates] /\ new[s] # "none"
        /\ LastAlone(new) /\ MarkedParts(new) = MarkedParts(part) \cup {s}
    BY <2>1 DEF MarkedParts, LastAlone, PartStates
  <2> QED BY <2>2
<1>3. CASE MarkedParts(part) \cup {s} # 1..n
  <2>1. new = [part EXCEPT ![s] = "none"]
    BY <1>3
  <2>2. /\ new \in [1..n -> PartStates] /\ LastAlone(new)
        /\ MarkedParts(new) = MarkedParts(part) \cup {s}
    BY <1>1, <2>1 DEF MarkedParts, LastAlone, PartStates
  <2>3. PICK u \in 1..n : u \notin MarkedParts(part) \cup {s}
    BY <1>3 DEF MarkedParts
  <2>4. \E w \in 1..n : new[w] # "none"
    BY <2>1, <2>3 DEF MarkedParts
  <2> QED BY <2>2, <2>4
<1> QED BY <1>2, <1>3

\* Once the last tile's worker is through, no tile is left.
LEMMA LastPart ==
    ASSUME NEW n \in Nat, NEW part \in [1..n -> PartStates], NEW s \in 1..n, part[s] = "last", LastAlone(part)
    PROVE  LET new == [part EXCEPT ![s] = "none"]
           IN  new \in [1..n -> PartStates] /\ LastAlone(new) /\ \A u \in 1..n : new[u] = "none"
  BY DEF LastAlone, PartStates

\* Parts that were just posted: none is done.
LEMMA PostParts ==
    ASSUME NEW n \in Nat \ {0}
    PROVE  /\ Posted(n) \in [1..n -> PartStates] /\ DoneParts(Posted(n)) = {}
           /\ Cardinality(DoneParts(Posted(n))) = 0
           /\ MarkedParts(Posted(n)) = {} /\ LastAlone(Posted(n))
           /\ \E s \in 1..n : Posted(n)[s] # "none"
<1>1. /\ Posted(n) \in [1..n -> PartStates] /\ DoneParts(Posted(n)) = {}
      /\ MarkedParts(Posted(n)) = {} /\ LastAlone(Posted(n))
  BY DEF Posted, PartStates, DoneParts, MarkedParts, LastAlone
<1>2. Posted(n)[1] # "none" /\ 1 \in 1..n
  BY DEF Posted
<1> QED BY <1>1, <1>2, FS_EmptySet

\* No parts: all count as done.
LEMMA NoParts ==
    ASSUME NEW n \in Nat
    PROVE  /\ Nothing(n) \in [1..n -> PartStates]
           /\ \A s \in 1..n : Nothing(n)[s] = "none"
           /\ LastAlone(Nothing(n))
  BY DEF Nothing, PartStates, LastAlone

-----------------------------------------------------------------------------
(* The queue of packetization.                                              *)

\* The oldest result leaves.
LEMMA TakeResult ==
    ASSUME FlowTypes, PostedOnce, results # <<>>
    PROVE  /\ Head(results) \in Pictures /\ InResults(Head(results))
           /\ Tail(results) \in Seq(Pictures)
           /\ \A i, j \in DOMAIN Tail(results) : Tail(results)[i] = Tail(results)[j] => i = j
           /\ \A e \in Pictures : (\E i \in DOMAIN Tail(results) : Tail(results)[i] = e) <=> InResults(e) /\ e # Head(results)
<1>1. results \in Seq(Pictures) /\ Len(results) \in Nat /\ Len(results) > 0 /\ DOMAIN results = 1..Len(results)
  BY DEF FlowTypes
<1>2. /\ Head(results) = results[1] /\ Head(results) \in Pictures
      /\ Tail(results) \in Seq(Pictures) /\ DOMAIN Tail(results) = 1..(Len(results) - 1)
      /\ \A i \in 1..(Len(results) - 1) : Tail(results)[i] = results[i + 1]
  BY <1>1
<1>3. InResults(Head(results))
  BY <1>1, <1>2 DEF InResults
<1>4. \A i, j \in DOMAIN Tail(results) : Tail(results)[i] = Tail(results)[j] => i = j
  BY <1>1, <1>2 DEF PostedOnce
<1>5. \A e \in Pictures : (\E i \in DOMAIN Tail(results) : Tail(results)[i] = e) <=> InResults(e) /\ e # Head(results)
  <2> TAKE e \in Pictures
  <2>1. ASSUME NEW i \in DOMAIN Tail(results), Tail(results)[i] = e
        PROVE  InResults(e) /\ e # Head(results)
    BY <1>1, <1>2, <2>1 DEF InResults, PostedOnce
  <2>2. ASSUME NEW i \in DOMAIN results, results[i] = e, e # Head(results)
        PROVE  \E k \in DOMAIN Tail(results) : Tail(results)[k] = e
    <3>1. i - 1 \in DOMAIN Tail(results) /\ Tail(results)[i - 1] = e
      BY <1>1, <1>2, <2>2
    <3> QED BY <3>1
  <2> QED BY <2>1, <2>2 DEF InResults
<1> QED BY <1>2, <1>3, <1>4, <1>5

\* A result that is not there yet is posted.
LEMMA PostResult ==
    ASSUME FlowTypes, PostedOnce, NEW d \in Pictures, ~InResults(d)
    PROVE  LET new == Append(results, d)
           IN  /\ new \in Seq(Pictures)
               /\ \A i, j \in DOMAIN new : new[i] = new[j] => i = j
               /\ \A e \in Pictures : (\E i \in DOMAIN new : new[i] = e) <=> InResults(e) \/ e = d
<1> DEFINE new == Append(results, d)
<1>1. results \in Seq(Pictures) /\ Len(results) \in Nat /\ DOMAIN results = 1..Len(results)
  BY DEF FlowTypes
<1>2. /\ new \in Seq(Pictures) /\ DOMAIN new = 1..(Len(results) + 1) /\ new[Len(results) + 1] = d
      /\ \A i \in 1..Len(results) : new[i] = results[i]
  BY <1>1
<1>3. \A i, j \in DOMAIN new : new[i] = new[j] => i = j
  BY <1>1, <1>2 DEF PostedOnce, InResults
<1>4. \A e \in Pictures : (\E i \in DOMAIN new : new[i] = e) <=> InResults(e) \/ e = d
  BY <1>1, <1>2 DEF InResults
<1> QED BY <1>2, <1>3, <1>4

-----------------------------------------------------------------------------
(* The stages of a picture.                                                 *)

\* A picture that is in a stage is started, not packetized and in no other.
LEMMA WhereIs ==
    ASSUME NEW d, FlowOf(d)
    PROVE  /\ d \in deblocking => d \in started \ packetized /\ OnlyIn(d, "deblocking")
           /\ InCdef(d) => d \in started \ packetized /\ OnlyIn(d, "cdef")
           /\ InRestoration(d) => d \in started \ packetized /\ OnlyIn(d, "restoration")
           /\ InTiles(d) => d \in started \ packetized /\ OnlyIn(d, "tiles")
           /\ InResults(d) => d \in started \ packetized /\ OnlyIn(d, "results")
<1>1. ASSUME NEW stage, OnlyIn(d, stage)
      PROVE  /\ d \in deblocking => stage = "deblocking"
             /\ InCdef(d) => stage = "cdef"
             /\ InRestoration(d) => stage = "restoration"
             /\ InTiles(d) => stage = "tiles"
             /\ InResults(d) => stage = "results"
  BY <1>1 DEF OnlyIn
<1>2. CASE d \in started \ packetized
  <2>1. PICK stage \in Stages : OnlyIn(d, stage)
    BY <1>2, Zenon DEF FlowOf
  <2> QED BY <1>1, <1>2, <2>1, Zenon
<1>3. CASE d \notin started \ packetized
  <2>1. OnlyIn(d, "none")
    BY <1>3, Zenon DEF FlowOf
  <2> QED BY <2>1 DEF OnlyIn
<1> QED BY <1>2, <1>3, Zenon

\* Taking parts moves a picture nowhere and finishes nothing.
LEMMA FlowSame ==
    ASSUME NEW d, FlowOf(d), video' = video,
           d \in deblocking' <=> d \in deblocking,
           InCdef(d)' <=> InCdef(d), DoneParts(cdef'[d]) = DoneParts(cdef[d]),
           InRestoration(d)' <=> InRestoration(d), DoneParts(restoration'[d]) = DoneParts(restoration[d]),
           InTiles(d)' <=> InTiles(d), MarkedParts(tiles'[d]) = MarkedParts(tiles[d]), LastAlone(tiles'[d]),
           cdefCount'[d] = cdefCount[d], restCount'[d] = restCount[d], tileDone'[d] = tileDone[d],
           held'[d] = held[d], recodes'[d] = recodes[d],
           InResults(d)' <=> InResults(d),
           d \in (started \ packetized)' <=> d \in started \ packetized
    PROVE  FlowOf(d)'
<1>1. \A stage : OnlyIn(d, stage) => OnlyIn(d, stage)'
  BY DEF OnlyIn
<1>2. Loops(d)' = Loops(d)
  BY DEF Loops, Pic
<1> QED BY <1>1, <1>2 DEF FlowOf

\* A step that does not concern a picture leaves it where it is.
LEMMA FlowFrame ==
    ASSUME NEW d, FlowOf(d), video' = video,
           d \in deblocking' <=> d \in deblocking,
           cdef'[d] = cdef[d], restoration'[d] = restoration[d], tiles'[d] = tiles[d],
           cdefCount'[d] = cdefCount[d], restCount'[d] = restCount[d], tileDone'[d] = tileDone[d],
           held'[d] = held[d], recodes'[d] = recodes[d],
           InResults(d)' <=> InResults(d),
           d \in (started \ packetized)' <=> d \in started \ packetized
    PROVE  FlowOf(d)'
<1>1. /\ InCdef(d)' <=> InCdef(d)
      /\ InRestoration(d)' <=> InRestoration(d)
      /\ InTiles(d)' <=> InTiles(d)
  BY DEF InCdef, InRestoration, InTiles
<1>2. LastAlone(tiles'[d])
  BY DEF FlowOf
<1> QED BY <1>1, <1>2, FlowSame

\* Deblocking filters a picture and cuts it in segments, none of which counts.
LEMMA DeblockOK ==
    ASSUME FlowInv, NEW d \in Pictures, Deblock(d), UNCHANGED <<video, started, packetized, recodes>>
    PROVE  FlowInv'
<1>1. FlowTypes /\ PostedOnce /\ FlowOf(d) /\ Pictures' = Pictures
  BY DEF FlowInv, Pictures
<1>2. d \in deblocking /\ d \in started \ packetized /\ OnlyIn(d, "deblocking")
  BY <1>1, WhereIs, Zenon DEF Deblock
<1>3. video.cdefSegments \in Nat \ {0}
  BY <1>1, SettingsOK, Zenon
<1>4. FlowTypes'
  BY <1>1, <1>3, PostParts DEF Deblock, FlowTypes, CountReset
<1>5. PostedOnce'
  BY <1>1 DEF PostedOnce, Deblock
<1>6. ASSUME NEW e \in Pictures, e # d
      PROVE  FlowOf(e)'
  <2>1. FlowOf(e) /\ InResults(e)' = InResults(e)
    BY DEF FlowInv, Deblock, InResults
  <2> QED BY <1>1, <1>6, <2>1, FlowFrame DEF Deblock, CountReset, FlowTypes
<1>7. FlowOf(d)'
  <2>1. cdef'[d] = Posted(video.cdefSegments) /\ cdefCount'[d] = 0
    BY <1>1 DEF Deblock, FlowTypes, CountReset
  <2>2. InCdef(d)' /\ d \notin deblocking'
    BY <1>3, <2>1, PostParts DEF InCdef, Deblock
  <2>3. /\ InRestoration(d)' <=> InRestoration(d)
        /\ InTiles(d)' <=> InTiles(d)
        /\ InResults(d)' <=> InResults(d)
    BY DEF Deblock, InRestoration, InTiles, InResults
  <2>4. OnlyIn(d, "cdef")'
    BY <1>2, <2>2, <2>3 DEF OnlyIn
  <2>5. Loops(d)' = Loops(d)
    BY DEF Loops, Pic
  <2>6. cdefCount'[d] = Cardinality(DoneParts(cdef'[d])) /\ cdefCount'[d] <= video.cdefSegments
    BY <1>3, <2>1, PostParts
  <2> QED BY <1>1, <1>2, <2>3, <2>4, <2>5, <2>6 DEF FlowOf, Deblock, OnlyIn, Stages
<1> QED BY <1>1, <1>4, <1>5, <1>6, <1>7 DEF FlowInv

\* A worker takes a CDEF segment.
LEMMA SearchCdefOK ==
    ASSUME FlowInv, NEW d \in Pictures, NEW s \in DOMAIN cdef[d], SearchCdef(d, s),
           UNCHANGED <<video, started, packetized, recodes>>
    PROVE  FlowInv'
<1>1. FlowTypes /\ PostedOnce /\ Pictures' = Pictures
  BY DEF FlowInv, Pictures
<1>2. video.cdefSegments \in Nat
  BY <1>1, SettingsOK, Zenon
<1>3. cdef[d] \in [1..video.cdefSegments -> PartStates] /\ s \in 1..video.cdefSegments /\ cdef[d][s] = "posted"
  BY <1>1 DEF FlowTypes, SearchCdef, CanTake
<1>4. cdef' = [cdef EXCEPT ![d] = [cdef[d] EXCEPT ![s] = "taken"]]
  BY DEF SearchCdef, Taken
<1>5. /\ cdef'[d] \in [1..video.cdefSegments -> PartStates]
      /\ DoneParts(cdef'[d]) = DoneParts(cdef[d])
      /\ cdef'[d][s] # "none"
  BY <1>1, <1>2, <1>3, <1>4, TakePart DEF FlowTypes
<1>6. FlowTypes'
  BY <1>1, <1>4, <1>5 DEF FlowTypes, SearchCdef
<1>7. PostedOnce'
  BY <1>1 DEF PostedOnce, SearchCdef
<1>8. InCdef(d) /\ InCdef(d)'
  BY <1>3, <1>5 DEF InCdef
<1>9. ASSUME NEW e \in Pictures
      PROVE  FlowOf(e)'
  <2>1. FlowOf(e)
    BY DEF FlowInv
  <2>2. /\ InCdef(e)' <=> InCdef(e)
        /\ DoneParts(cdef'[e]) = DoneParts(cdef[e])
    BY <1>1, <1>4, <1>5, <1>8 DEF InCdef, FlowTypes
  <2>3. /\ InRestoration(e)' <=> InRestoration(e)
        /\ InTiles(e)' <=> InTiles(e)
        /\ InResults(e)' <=> InResults(e)
    BY DEF SearchCdef, InRestoration, InTiles, InResults
  <2>4. LastAlone(tiles'[e]) /\ tiles'[e] = tiles[e]
    BY <2>1 DEF FlowOf, SearchCdef
  <2> QED BY <2>1, <2>2, <2>3, <2>4, FlowSame DEF SearchCdef
<1> QED BY <1>1, <1>6, <1>7, <1>9 DEF FlowInv

\* A worker takes a restoration segment.
LEMMA SearchRestorationOK ==
    ASSUME FlowInv, NEW d \in Pictures, NEW s \in DOMAIN restoration[d], SearchRestoration(d, s),
           UNCHANGED <<video, started, packetized, recodes>>
    PROVE  FlowInv'
<1>1. FlowTypes /\ PostedOnce /\ Pictures' = Pictures
  BY DEF FlowInv, Pictures
<1>2. video.restSegments \in Nat
  BY <1>1, SettingsOK, Zenon
<1>3. restoration[d] \in [1..video.restSegments -> PartStates] /\ s \in 1..video.restSegments /\ restoration[d][s] = "posted"
  BY <1>1 DEF FlowTypes, SearchRestoration, CanTake
<1>4. restoration' = [restoration EXCEPT ![d] = [restoration[d] EXCEPT ![s] = "taken"]]
  BY DEF SearchRestoration, Taken
<1>5. /\ restoration'[d] \in [1..video.restSegments -> PartStates]
      /\ DoneParts(restoration'[d]) = DoneParts(restoration[d])
      /\ restoration'[d][s] # "none"
  BY <1>1, <1>2, <1>3, <1>4, TakePart DEF FlowTypes
<1>6. FlowTypes'
  BY <1>1, <1>4, <1>5 DEF FlowTypes, SearchRestoration
<1>7. PostedOnce'
  BY <1>1 DEF PostedOnce, SearchRestoration
<1>8. InRestoration(d) /\ InRestoration(d)'
  BY <1>3, <1>5 DEF InRestoration
<1>9. ASSUME NEW e \in Pictures
      PROVE  FlowOf(e)'
  <2>1. FlowOf(e)
    BY DEF FlowInv
  <2>2. /\ InRestoration(e)' <=> InRestoration(e)
        /\ DoneParts(restoration'[e]) = DoneParts(restoration[e])
    BY <1>1, <1>4, <1>5, <1>8 DEF InRestoration, FlowTypes
  <2>3. /\ InCdef(e)' <=> InCdef(e)
        /\ InTiles(e)' <=> InTiles(e)
        /\ InResults(e)' <=> InResults(e)
    BY DEF SearchRestoration, InCdef, InTiles, InResults
  <2>4. LastAlone(tiles'[e]) /\ tiles'[e] = tiles[e]
    BY <2>1 DEF FlowOf, SearchRestoration
  <2> QED BY <2>1, <2>2, <2>3, <2>4, FlowSame DEF SearchRestoration
<1> QED BY <1>1, <1>6, <1>7, <1>9 DEF FlowInv

\* A worker takes a tile.
LEMMA CodeTileOK ==
    ASSUME FlowInv, NEW d \in Pictures, NEW t \in DOMAIN tiles[d], CodeTile(d, t),
           UNCHANGED <<video, started, packetized, recodes>>
    PROVE  FlowInv'
<1>1. FlowTypes /\ PostedOnce /\ Pictures' = Pictures
  BY DEF FlowInv, Pictures
<1>2. video.tiles \in Nat
  BY <1>1, SettingsOK, Zenon
<1>3. tiles[d] \in [1..video.tiles -> PartStates] /\ t \in 1..video.tiles /\ tiles[d][t] = "posted"
  BY <1>1 DEF FlowTypes, CodeTile, CanTake
<1>4. tiles' = [tiles EXCEPT ![d] = [tiles[d] EXCEPT ![t] = "taken"]]
  BY DEF CodeTile, Taken
<1>5. /\ tiles'[d] \in [1..video.tiles -> PartStates]
      /\ MarkedParts(tiles'[d]) = MarkedParts(tiles[d])
      /\ LastAlone(tiles'[d]) /\ tiles'[d][t] # "none"
  <2>1. LastAlone(tiles[d])
    BY DEF FlowInv, FlowOf
  <2> QED BY <1>1, <1>2, <1>3, <1>4, <2>1, TakeTile DEF FlowTypes
<1>6. FlowTypes'
  BY <1>1, <1>4, <1>5 DEF FlowTypes, CodeTile
<1>7. PostedOnce'
  BY <1>1 DEF PostedOnce, CodeTile
<1>8. InTiles(d) /\ InTiles(d)'
  BY <1>3, <1>5 DEF InTiles
<1>9. ASSUME NEW e \in Pictures
      PROVE  FlowOf(e)'
  <2>1. FlowOf(e)
    BY DEF FlowInv
  <2>2. /\ InTiles(e)' <=> InTiles(e)
        /\ MarkedParts(tiles'[e]) = MarkedParts(tiles[e])
        /\ LastAlone(tiles'[e])
    BY <1>1, <1>4, <1>5, <1>8, <2>1 DEF InTiles, FlowTypes, FlowOf
  <2>3. /\ InCdef(e)' <=> InCdef(e)
        /\ InRestoration(e)' <=> InRestoration(e)
        /\ InResults(e)' <=> InResults(e)
    BY DEF CodeTile, InCdef, InRestoration, InResults
  <2> QED BY <2>1, <2>2, <2>3, FlowSame DEF CodeTile
<1> QED BY <1>1, <1>6, <1>7, <1>9 DEF FlowInv

\* A worker counts its CDEF segment; the one that completes the count cuts the
\* picture in restoration segments, and it is the last one.
LEMMA CountCdefOK ==
    ASSUME FlowInv, NEW d \in Pictures, NEW s \in DOMAIN cdef[d], CountCdef(d, s),
           UNCHANGED <<video, started, packetized, recodes>>
    PROVE  FlowInv'
<1>1. FlowTypes /\ PostedOnce /\ FlowOf(d) /\ Pictures' = Pictures
  BY DEF FlowInv, Pictures
<1>2. video.cdefSegments \in Nat \ {0} /\ video.restSegments \in Nat \ {0}
  BY <1>1, SettingsOK, Zenon
<1>3. cdef[d] \in [1..video.cdefSegments -> PartStates] /\ s \in 1..video.cdefSegments /\ cdef[d][s] = "taken"
  BY <1>1 DEF FlowTypes, CountCdef
<1>4. InCdef(d)
  BY <1>3 DEF InCdef
<1>5. d \in started \ packetized /\ OnlyIn(d, "cdef")
  BY <1>1, <1>4, WhereIs, Zenon
<1>6. cdefCount[d] = Cardinality(DoneParts(cdef[d])) /\ cdefCount[d] \in Nat
  BY <1>1, <1>4 DEF FlowOf, FlowTypes
<1>7. /\ cdef' = [cdef EXCEPT ![d] = [cdef[d] EXCEPT ![s] = "none"]]
      /\ cdefCount' = [cdefCount EXCEPT ![d] = cdefCount[d] + 1]
  BY DEF CountCdef, Done
<1>8. /\ cdef'[d] = [cdef[d] EXCEPT ![s] = "none"] /\ cdefCount'[d] = cdefCount[d] + 1
      /\ \A e \in Pictures \ {d} : cdef'[e] = cdef[e] /\ cdefCount'[e] = cdefCount[e]
  BY <1>1, <1>7 DEF FlowTypes
<1>9. /\ cdef'[d] \in [1..video.cdefSegments -> PartStates]
      /\ cdefCount'[d] = Cardinality(DoneParts(cdef'[d])) /\ cdefCount'[d] <= video.cdefSegments
      /\ Completes(cdefCount, d, video.cdefSegments) <=> \A u \in 1..video.cdefSegments : cdef'[d][u] = "none"
  <2> DEFINE n    == video.cdefSegments
             part == cdef[d]
             new  == [part EXCEPT ![s] = "none"]
  <2>0. n \in Nat /\ part \in [1..n -> PartStates] /\ s \in 1..n /\ part[s] = "taken"
    BY <1>2, <1>3
  <2>1. /\ new \in [1..n -> PartStates]
        /\ Cardinality(DoneParts(new)) = Cardinality(DoneParts(part)) + 1
        /\ Cardinality(DoneParts(new)) <= n
        /\ Cardinality(DoneParts(new)) = n <=> \A u \in 1..n : new[u] = "none"
    <3> HIDE DEF n, part
    <3> QED BY <2>0, FinishPart
  <2>2. cdef'[d] = new
    BY <1>8
  <2> QED BY <1>6, <1>8, <2>1, <2>2 DEF Completes
<1>10. /\ cdef' \in [Pictures -> [1..video.cdefSegments -> PartStates]]
       /\ cdefCount' \in [Pictures -> Nat]
  BY <1>1, <1>6, <1>7, <1>8, <1>9 DEF FlowTypes
<1>11. PostedOnce'
  BY <1>1 DEF PostedOnce, CountCdef
<1>12. InCdef(d)' <=> ~Completes(cdefCount, d, video.cdefSegments)
  BY <1>9 DEF InCdef, CountCdef
<1>13. /\ InTiles(d)' <=> InTiles(d)
       /\ InResults(d)' <=> InResults(d)
       /\ Loops(d)' = Loops(d)
  BY DEF CountCdef, InTiles, InResults, Loops, Pic
<1>14. CASE Completes(cdefCount, d, video.cdefSegments)
  <2>1. /\ restCount' = [restCount EXCEPT ![d] = 0]
        /\ restoration' = [restoration EXCEPT ![d] = Posted(video.restSegments)]
    BY <1>14 DEF CountCdef, CountReset
  <2>2. /\ restCount'[d] = 0 /\ restoration'[d] = Posted(video.restSegments)
        /\ \A e \in Pictures \ {d} : restoration'[e] = restoration[e] /\ restCount'[e] = restCount[e]
    BY <1>1, <2>1 DEF FlowTypes
  <2>3. FlowTypes'
    BY <1>1, <1>2, <1>10, <2>1, PostParts DEF FlowTypes, CountCdef
  <2>4. /\ InRestoration(d)'
        /\ restCount'[d] = Cardinality(DoneParts(restoration'[d])) /\ restCount'[d] <= video.restSegments
    <3>1. InRestoration(d)'
      BY <1>2, <2>2, PostParts DEF InRestoration, CountCdef
    <3>2. Cardinality(DoneParts(restoration'[d])) = 0
      BY <1>2, <2>2, PostParts
    <3> QED BY <1>2, <2>2, <3>1, <3>2
  <2>5. OnlyIn(d, "restoration")'
    BY <1>5, <1>12, <1>13, <1>14, <2>4 DEF OnlyIn, CountCdef
  <2>6. FlowOf(d)'
    BY <1>1, <1>4, <1>5, <1>9, <1>13, <2>4, <2>5 DEF FlowOf, CountCdef, OnlyIn, Stages
  <2>7. ASSUME NEW e \in Pictures, e # d
        PROVE  FlowOf(e)'
    <3>1. FlowOf(e) /\ InResults(e)' = InResults(e)
      BY DEF FlowInv, CountCdef, InResults
    <3> QED BY <1>8, <2>2, <2>7, <3>1, FlowFrame DEF CountCdef
  <2> QED BY <1>1, <1>11, <2>3, <2>6, <2>7 DEF FlowInv
<1>15. CASE ~Completes(cdefCount, d, video.cdefSegments)
  <2>1. restCount' = restCount /\ restoration' = restoration
    BY <1>15 DEF CountCdef
  <2>2. FlowTypes'
    BY <1>1, <1>10, <2>1 DEF FlowTypes, CountCdef
  <2>3. InRestoration(d)' <=> InRestoration(d)
    BY <2>1 DEF InRestoration, CountCdef
  <2>4. OnlyIn(d, "cdef")'
    BY <1>5, <1>12, <1>13, <1>15, <2>3 DEF OnlyIn, CountCdef
  <2>5. FlowOf(d)'
    BY <1>1, <1>4, <1>5, <1>9, <1>13, <2>1, <2>3, <2>4 DEF FlowOf, CountCdef, OnlyIn, Stages
  <2>6. ASSUME NEW e \in Pictures, e # d
        PROVE  FlowOf(e)'
    <3>1. FlowOf(e) /\ InResults(e)' = InResults(e)
      BY DEF FlowInv, CountCdef, InResults
    <3> QED BY <1>8, <2>1, <2>6, <3>1, FlowFrame DEF CountCdef
  <2> QED BY <1>1, <1>11, <2>2, <2>5, <2>6 DEF FlowInv
<1> QED BY <1>14, <1>15

\* A worker counts its restoration segment; the one that completes the count
\* posts the tiles of the picture, none of which is marked.
LEMMA CountRestorationOK ==
    ASSUME FlowInv, NEW d \in Pictures, NEW s \in DOMAIN restoration[d], CountRestoration(d, s),
           UNCHANGED <<video, started, packetized, recodes>>
    PROVE  FlowInv'
<1>1. FlowTypes /\ PostedOnce /\ FlowOf(d) /\ Pictures' = Pictures
  BY DEF FlowInv, Pictures
<1>2. video.restSegments \in Nat \ {0} /\ video.tiles \in Nat \ {0}
  BY <1>1, SettingsOK, Zenon
<1>3. /\ restoration[d] \in [1..video.restSegments -> PartStates]
      /\ s \in 1..video.restSegments /\ restoration[d][s] = "taken"
  BY <1>1 DEF FlowTypes, CountRestoration
<1>4. InRestoration(d)
  BY <1>3 DEF InRestoration
<1>5. d \in started \ packetized /\ OnlyIn(d, "restoration")
  BY <1>1, <1>4, WhereIs, Zenon
<1>6. restCount[d] = Cardinality(DoneParts(restoration[d])) /\ restCount[d] \in Nat
  BY <1>1, <1>4 DEF FlowOf, FlowTypes
<1>7. /\ restoration' = [restoration EXCEPT ![d] = [restoration[d] EXCEPT ![s] = "none"]]
      /\ restCount' = [restCount EXCEPT ![d] = restCount[d] + 1]
  BY DEF CountRestoration, Done
<1>8. /\ restoration'[d] = [restoration[d] EXCEPT ![s] = "none"] /\ restCount'[d] = restCount[d] + 1
      /\ \A e \in Pictures \ {d} : restoration'[e] = restoration[e] /\ restCount'[e] = restCount[e]
  BY <1>1, <1>7 DEF FlowTypes
<1>9. /\ restoration'[d] \in [1..video.restSegments -> PartStates]
      /\ restCount'[d] = Cardinality(DoneParts(restoration'[d])) /\ restCount'[d] <= video.restSegments
      /\ Completes(restCount, d, video.restSegments) <=> \A u \in 1..video.restSegments : restoration'[d][u] = "none"
  <2> DEFINE n    == video.restSegments
             part == restoration[d]
             new  == [part EXCEPT ![s] = "none"]
  <2>0. n \in Nat /\ part \in [1..n -> PartStates] /\ s \in 1..n /\ part[s] = "taken"
    BY <1>2, <1>3
  <2>1. /\ new \in [1..n -> PartStates]
        /\ Cardinality(DoneParts(new)) = Cardinality(DoneParts(part)) + 1
        /\ Cardinality(DoneParts(new)) <= n
        /\ Cardinality(DoneParts(new)) = n <=> \A u \in 1..n : new[u] = "none"
    <3> HIDE DEF n, part
    <3> QED BY <2>0, FinishPart
  <2>2. restoration'[d] = new
    BY <1>8
  <2> QED BY <1>6, <1>8, <2>1, <2>2 DEF Completes
<1>10. /\ restoration' \in [Pictures -> [1..video.restSegments -> PartStates]]
       /\ restCount' \in [Pictures -> Nat]
  BY <1>1, <1>6, <1>7, <1>8, <1>9 DEF FlowTypes
<1>11. PostedOnce'
  BY <1>1 DEF PostedOnce, CountRestoration
<1>12. InRestoration(d)' <=> ~Completes(restCount, d, video.restSegments)
  BY <1>9 DEF InRestoration, CountRestoration
<1>13. /\ InCdef(d)' <=> InCdef(d)
       /\ InResults(d)' <=> InResults(d)
       /\ Loops(d)' = Loops(d)
  BY DEF CountRestoration, InCdef, InResults, Loops, Pic
<1>14. CASE Completes(restCount, d, video.restSegments)
  <2>1. tiles' = [tiles EXCEPT ![d] = Posted(video.tiles)]
    BY <1>14 DEF CountRestoration
  <2>2. tiles'[d] = Posted(video.tiles) /\ \A e \in Pictures \ {d} : tiles'[e] = tiles[e]
    BY <1>1, <2>1 DEF FlowTypes
  <2>3. FlowTypes'
    <3>1. tiles' \in [Pictures -> [1..video.tiles -> PartStates]]
      BY <1>1, <1>2, <2>1, PostParts DEF FlowTypes
    <3> QED BY <1>1, <1>10, <3>1 DEF FlowTypes, CountRestoration
  <2>4. InTiles(d)'
    BY <1>2, <2>2, PostParts DEF InTiles, CountRestoration
  <2>5. MarkedParts(tiles'[d]) = {} /\ LastAlone(tiles'[d]) /\ tileDone'[d] = {}
    BY <1>1, <1>2, <1>4, <2>2, PostParts DEF CountRestoration, FlowOf
  <2>6. OnlyIn(d, "tiles")'
    BY <1>5, <1>12, <1>13, <1>14, <2>4 DEF OnlyIn, CountRestoration
  <2>7. FlowOf(d)'
    BY <1>1, <1>5, <1>9, <1>13, <2>5, <2>6 DEF FlowOf, CountRestoration, OnlyIn, Stages
  <2>8. ASSUME NEW e \in Pictures, e # d
        PROVE  FlowOf(e)'
    <3>1. FlowOf(e) /\ InResults(e)' = InResults(e)
      BY DEF FlowInv, CountRestoration, InResults
    <3> QED BY <1>8, <2>2, <2>8, <3>1, FlowFrame DEF CountRestoration
  <2> QED BY <1>1, <1>11, <2>3, <2>7, <2>8 DEF FlowInv
<1>15. CASE ~Completes(restCount, d, video.restSegments)
  <2>1. tiles' = tiles
    BY <1>15 DEF CountRestoration
  <2>2. FlowTypes'
    BY <1>1, <1>10, <2>1 DEF FlowTypes, CountRestoration
  <2>3. InTiles(d)' <=> InTiles(d)
    BY <2>1 DEF InTiles, CountRestoration
  <2>4. OnlyIn(d, "restoration")'
    BY <1>5, <1>12, <1>13, <1>15, <2>3 DEF OnlyIn, CountRestoration
  <2>5. FlowOf(d)'
    BY <1>1, <1>4, <1>5, <1>9, <1>13, <2>1, <2>3, <2>4 DEF FlowOf, CountRestoration, OnlyIn, Stages
  <2>6. ASSUME NEW e \in Pictures, e # d
        PROVE  FlowOf(e)'
    <3>1. FlowOf(e) /\ InResults(e)' = InResults(e)
      BY DEF FlowInv, CountRestoration, InResults
    <3> QED BY <1>8, <2>1, <2>6, <3>1, FlowFrame DEF CountRestoration
  <2> QED BY <1>1, <1>11, <2>2, <2>5, <2>6 DEF FlowInv
<1> QED BY <1>14, <1>15

\* A worker marks its tile; the picture stays where it is.
LEMMA MarkTileOK ==
    ASSUME FlowInv, NEW d \in Pictures, NEW t \in DOMAIN tiles[d], MarkTile(d, t),
           UNCHANGED <<video, started, packetized, recodes>>
    PROVE  FlowInv'
<1>1. FlowTypes /\ PostedOnce /\ FlowOf(d) /\ Pictures' = Pictures
  BY DEF FlowInv, Pictures
<1>2. video.tiles \in Nat \ {0}
  BY <1>1, SettingsOK, Zenon
<1>3. tiles[d] \in [1..video.tiles -> PartStates] /\ t \in 1..video.tiles /\ tiles[d][t] = "taken"
  BY <1>1 DEF FlowTypes, MarkTile
<1>4. InTiles(d)
  BY <1>3 DEF InTiles
<1>5. d \in started \ packetized /\ OnlyIn(d, "tiles")
  BY <1>1, <1>4, WhereIs, Zenon
<1>6. tileDone[d] = MarkedParts(tiles[d]) /\ LastAlone(tiles[d])
  BY <1>1, <1>4 DEF FlowOf
<1>7. /\ tileDone' = [tileDone EXCEPT ![d] = tileDone[d] \cup {t}]
      /\ tileDone'[d] = tileDone[d] \cup {t}
      /\ \A e \in Pictures \ {d} : tileDone'[e] = tileDone[e]
  BY <1>1 DEF MarkTile, FlowTypes
<1> DEFINE new == [tiles[d] EXCEPT ![t] = IF MarkedParts(tiles[d]) \cup {t} = 1..video.tiles THEN "last" ELSE "none"]
<1>8. tiles' = [tiles EXCEPT ![d] = new]
  BY <1>6, <1>7 DEF MarkTile
<1>9. /\ new \in [1..video.tiles -> PartStates]
      /\ MarkedParts(new) = MarkedParts(tiles[d]) \cup {t}
      /\ LastAlone(new) /\ \E u \in 1..video.tiles : new[u] # "none"
  BY <1>2, <1>3, <1>6, MarkPart
<1> HIDE DEF new
<1>10. tiles'[d] = new /\ \A e \in Pictures \ {d} : tiles'[e] = tiles[e]
  BY <1>1, <1>8 DEF FlowTypes
<1>11. FlowTypes'
  <2>1. /\ tiles' \in [Pictures -> [1..video.tiles -> PartStates]]
        /\ tileDone' \in [Pictures -> SUBSET (1..video.tiles)]
    BY <1>1, <1>3, <1>7, <1>8, <1>9 DEF FlowTypes
  <2> QED BY <1>1, <2>1 DEF FlowTypes, MarkTile
<1>12. PostedOnce'
  BY <1>1 DEF PostedOnce, MarkTile
<1>13. FlowOf(d)'
  <2>1. InTiles(d)'
    BY <1>9, <1>10 DEF InTiles, MarkTile
  <2>2. /\ InCdef(d)' <=> InCdef(d)
        /\ InRestoration(d)' <=> InRestoration(d)
        /\ InResults(d)' <=> InResults(d)
        /\ Loops(d)' = Loops(d)
    BY DEF MarkTile, InCdef, InRestoration, InResults, Loops, Pic
  <2>3. OnlyIn(d, "tiles")'
    BY <1>5, <2>1, <2>2 DEF OnlyIn, MarkTile
  <2>4. tileDone'[d] = MarkedParts(tiles'[d]) /\ LastAlone(tiles'[d])
    BY <1>6, <1>7, <1>9, <1>10
  <2> QED BY <1>1, <1>5, <2>1, <2>2, <2>3, <2>4 DEF FlowOf, MarkTile, OnlyIn, Stages
<1>14. ASSUME NEW e \in Pictures, e # d
       PROVE  FlowOf(e)'
  <2>1. FlowOf(e) /\ InResults(e)' = InResults(e)
    BY DEF FlowInv, MarkTile, InResults
  <2> QED BY <1>7, <1>10, <1>14, <2>1, FlowFrame DEF MarkTile
<1> QED BY <1>1, <1>11, <1>12, <1>13, <1>14 DEF FlowInv

\* The worker that found all tiles marked is alone: it lets go of the references
\* and posts the picture, which was not posted yet.
LEMMA HandOnOK ==
    ASSUME FlowInv, NEW d \in Pictures, NEW t \in DOMAIN tiles[d], HandOn(d, t),
           UNCHANGED <<video, started, packetized, recodes>>
    PROVE  FlowInv'
<1>1. FlowTypes /\ PostedOnce /\ FlowOf(d) /\ Pictures' = Pictures
  BY DEF FlowInv, Pictures
<1>2. video.tiles \in Nat \ {0} /\ Loops(d) \in Nat
  BY <1>1, SettingsOK, PictureOK, Zenon
<1>3. tiles[d] \in [1..video.tiles -> PartStates] /\ t \in 1..video.tiles /\ tiles[d][t] = "last"
  BY <1>1 DEF FlowTypes, HandOn
<1>4. InTiles(d)
  BY <1>3 DEF InTiles
<1>5. d \in started \ packetized /\ OnlyIn(d, "tiles")
  BY <1>1, <1>4, WhereIs, Zenon
<1>6. LastAlone(tiles[d]) /\ ~InResults(d) /\ held[d] = 1 /\ held \in [Pictures -> Nat]
  BY <1>1, <1>4, <1>5 DEF FlowOf, FlowTypes, OnlyIn
<1> DEFINE new == [tiles[d] EXCEPT ![t] = "none"]
<1>7. tiles' = [tiles EXCEPT ![d] = new]
  BY DEF HandOn, Done
<1>8. new \in [1..video.tiles -> PartStates] /\ LastAlone(new) /\ \A u \in 1..video.tiles : new[u] = "none"
  <2> DEFINE n    == video.tiles
             part == tiles[d]
  <2>1. n \in Nat /\ part \in [1..n -> PartStates] /\ t \in 1..n /\ part[t] = "last" /\ LastAlone(part)
    BY <1>2, <1>3, <1>6
  <2> HIDE DEF n, part
  <2>2. [part EXCEPT ![t] = "none"] \in [1..n -> PartStates] /\ LastAlone([part EXCEPT ![t] = "none"])
        /\ \A u \in 1..n : [part EXCEPT ![t] = "none"][u] = "none"
    BY <2>1, LastPart
  <2> QED BY <2>2 DEF n, part
<1> HIDE DEF new
<1>9. tiles'[d] = new /\ \A e \in Pictures \ {d} : tiles'[e] = tiles[e]
  BY <1>1, <1>7 DEF FlowTypes
<1>10. tiles' \in [Pictures -> [1..video.tiles -> PartStates]]
  BY <1>1, <1>7, <1>8 DEF FlowTypes
<1>11. ~InTiles(d)'
  BY <1>8, <1>9 DEF InTiles, HandOn
<1>12. /\ InCdef(d)' <=> InCdef(d)
       /\ InRestoration(d)' <=> InRestoration(d)
       /\ Loops(d)' = Loops(d)
  BY DEF HandOn, InCdef, InRestoration, Loops, Pic
<1>13. /\ held' = IF Loops(d) = 0 THEN [held EXCEPT ![d] = @ - 1] ELSE held
       /\ results' = Append(results, d)
  BY DEF HandOn, LetsGo
<1>14. /\ results' \in Seq(Pictures) /\ PostedOnce'
       /\ \A e \in Pictures : InResults(e)' <=> InResults(e) \/ e = d
  <2> DEFINE queue == Append(results, d)
  <2>1. /\ queue \in Seq(Pictures)
        /\ \A i, j \in DOMAIN queue : queue[i] = queue[j] => i = j
        /\ \A e \in Pictures : (\E i \in DOMAIN queue : queue[i] = e) <=> InResults(e) \/ e = d
    BY <1>1, <1>6, PostResult
  <2>2. results' = queue
    BY <1>13
  <2> HIDE DEF queue
  <2> QED BY <2>1, <2>2 DEF PostedOnce, InResults
<1>15. /\ held' \in [Pictures -> Nat] /\ held'[d] = IF Loops(d) > 0 THEN 1 ELSE 0
       /\ \A e \in Pictures \ {d} : held'[e] = held[e]
  BY <1>1, <1>2, <1>6, <1>13 DEF FlowTypes
<1>16. FlowTypes'
  BY <1>1, <1>10, <1>14, <1>15 DEF FlowTypes, HandOn
<1>17. OnlyIn(d, "results")'
  BY <1>5, <1>11, <1>12, <1>14 DEF OnlyIn, HandOn
<1>18. FlowOf(d)'
  BY <1>1, <1>5, <1>8, <1>9, <1>11, <1>12, <1>15, <1>17 DEF FlowOf, HandOn, OnlyIn, Stages
<1>19. ASSUME NEW e \in Pictures, e # d
       PROVE  FlowOf(e)'
  <2>1. FlowOf(e)
    BY DEF FlowInv
  <2>2. InResults(e)' <=> InResults(e)
    BY <1>14, <1>19
  <2> QED BY <1>9, <1>15, <1>19, <2>1, <2>2, FlowFrame DEF HandOn
<1> QED BY <1>1, <1>14, <1>16, <1>18, <1>19 DEF FlowInv

\* The stages together.
LEMMA FilterOK ==
    ASSUME FlowInv, NEW d \in Pictures, Filter(d), UNCHANGED <<video, started, packetized, recodes>>
    PROVE  FlowInv'
<1>1. CASE Deblock(d)
  BY <1>1, DeblockOK
<1>2. CASE \E s \in DOMAIN cdef[d] : SearchCdef(d, s)
  BY <1>2, SearchCdefOK
<1>3. CASE \E s \in DOMAIN cdef[d] : CountCdef(d, s)
  BY <1>3, CountCdefOK
<1>4. CASE \E s \in DOMAIN restoration[d] : SearchRestoration(d, s)
  BY <1>4, SearchRestorationOK
<1>5. CASE \E s \in DOMAIN restoration[d] : CountRestoration(d, s)
  BY <1>5, CountRestorationOK
<1>6. CASE \E t \in DOMAIN tiles[d] : CodeTile(d, t)
  BY <1>6, CodeTileOK
<1>7. CASE \E t \in DOMAIN tiles[d] : MarkTile(d, t)
  BY <1>7, MarkTileOK
<1>8. CASE \E t \in DOMAIN tiles[d] : HandOn(d, t)
  BY <1>8, HandOnOK
<1> QED BY <1>1, <1>2, <1>3, <1>4, <1>5, <1>6, <1>7, <1>8, Zenon DEF Filter

\* A picture that starts was in no stage: its references are held once.
LEMMA StartFlow ==
    ASSUME FlowInv, NEW d \in Pictures, Start(d)
    PROVE  FlowInv'
<1>1. FlowTypes /\ PostedOnce /\ FlowOf(d) /\ Pictures' = Pictures
  BY DEF FlowInv, Pictures, Start
<1>2. /\ d \notin started /\ d \notin packetized /\ OnlyIn(d, "none") /\ held[d] = 0
      /\ started' = started \cup {d} /\ packetized' = packetized
  BY <1>1 DEF Start, FlowTypes, FlowOf
<1>3. /\ deblocking' = deblocking \cup {d}
      /\ tileDone'[d] = {} /\ held'[d] = 1
      /\ \A e \in Pictures \ {d} : tileDone'[e] = tileDone[e] /\ held'[e] = held[e]
  BY <1>1, <1>2 DEF Start, FlowTypes
<1>4. FlowTypes'
  BY <1>1, <1>2 DEF Start, FlowTypes
<1>5. PostedOnce'
  BY <1>1 DEF PostedOnce, Start
<1>6. ASSUME NEW e \in Pictures, e # d
      PROVE  FlowOf(e)'
  <2>1. FlowOf(e) /\ InResults(e)' = InResults(e)
    BY DEF FlowInv, Start, InResults
  <2>2. /\ e \in (started \ packetized)' <=> e \in started \ packetized
        /\ e \in deblocking' <=> e \in deblocking
    BY <1>2, <1>3, <1>6
  <2> QED BY <1>3, <1>6, <2>1, <2>2, FlowFrame DEF Start
<1>7. FlowOf(d)'
  <2>1. /\ InCdef(d)' <=> InCdef(d)
        /\ InRestoration(d)' <=> InRestoration(d)
        /\ InTiles(d)' <=> InTiles(d)
        /\ InResults(d)' <=> InResults(d)
        /\ Loops(d)' = Loops(d)
    BY DEF Start, InCdef, InRestoration, InTiles, InResults, Loops, Pic
  <2>2. OnlyIn(d, "deblocking")'
    BY <1>2, <1>3, <2>1 DEF OnlyIn
  <2> QED BY <1>1, <1>2, <1>3, <2>1, <2>2 DEF FlowOf, Start, OnlyIn, Stages
<1> QED BY <1>1, <1>4, <1>5, <1>6, <1>7 DEF FlowInv

\* A picture that is coded again goes back to deblocking and keeps its
\* references.
LEMMA RecodeFlow ==
    ASSUME FlowInv, NEW d \in Pictures, Recode(d)
    PROVE  FlowInv'
<1>1. FlowTypes /\ PostedOnce /\ FlowOf(d) /\ Pictures' = Pictures
  BY DEF FlowInv, Pictures, Recode
<1>2. results # <<>> /\ Head(results) = d /\ results' = Tail(results)
  BY DEF Recode, Arrives
<1>3. /\ InResults(d) /\ results' \in Seq(Pictures) /\ PostedOnce'
      /\ \A e \in Pictures : InResults(e)' <=> InResults(e) /\ e # d
  <2>1. /\ InResults(d) /\ Tail(results) \in Seq(Pictures)
        /\ \A i, j \in DOMAIN Tail(results) : Tail(results)[i] = Tail(results)[j] => i = j
        /\ \A e \in Pictures : (\E i \in DOMAIN Tail(results) : Tail(results)[i] = e) <=> InResults(e) /\ e # d
    BY <1>1, <1>2, TakeResult
  <2> QED BY <1>2, <2>1 DEF PostedOnce, InResults
<1>4. d \in started \ packetized /\ OnlyIn(d, "results") /\ recodes[d] < Loops(d)
  BY <1>1, <1>3, WhereIs, Zenon DEF Recode
<1>5. Loops(d) \in Nat /\ Loops(d) > 0 /\ recodes[d] \in Nat /\ held[d] = 1
  BY <1>1, <1>4, PictureOK DEF FlowTypes, FlowOf
<1>6. /\ deblocking' = deblocking \cup {d}
      /\ tileDone'[d] = {} /\ recodes'[d] = recodes[d] + 1
      /\ \A e \in Pictures \ {d} : tileDone'[e] = tileDone[e] /\ recodes'[e] = recodes[e]
  BY <1>1 DEF Recode, FlowTypes
<1>7. FlowTypes'
  <2>1. recodes' \in [Pictures -> Nat] /\ tileDone' \in [Pictures -> SUBSET (1..video.tiles)]
    BY <1>1, <1>5 DEF Recode, FlowTypes
  <2> QED BY <1>1, <1>3, <2>1 DEF Recode, FlowTypes
<1>8. ASSUME NEW e \in Pictures, e # d
      PROVE  FlowOf(e)'
  <2>1. FlowOf(e)
    BY DEF FlowInv
  <2>2. /\ e \in (started \ packetized)' <=> e \in started \ packetized
        /\ e \in deblocking' <=> e \in deblocking
        /\ InResults(e)' <=> InResults(e)
    BY <1>3, <1>6, <1>8 DEF Recode
  <2> QED BY <1>6, <1>8, <2>1, <2>2, FlowFrame DEF Recode
<1>9. FlowOf(d)'
  <2>1. /\ InCdef(d)' <=> InCdef(d)
        /\ InRestoration(d)' <=> InRestoration(d)
        /\ InTiles(d)' <=> InTiles(d)
        /\ Loops(d)' = Loops(d)
    BY DEF Recode, InCdef, InRestoration, InTiles, Loops, Pic
  <2>2. ~InResults(d)'
    BY <1>3
  <2>3. OnlyIn(d, "deblocking")'
    BY <1>4, <1>6, <2>1, <2>2 DEF OnlyIn
  <2> QED BY <1>1, <1>4, <1>5, <1>6, <2>1, <2>2, <2>3 DEF FlowOf, Recode, OnlyIn, Stages
<1> QED BY <1>1, <1>3, <1>7, <1>8, <1>9 DEF FlowInv

\* A picture that is packetized is in no stage and holds no references.
LEMMA WriteFlow ==
    ASSUME FlowInv, NEW d \in Pictures, Write(d)
    PROVE  FlowInv' /\ d \in started \ packetized
<1>1. FlowTypes /\ PostedOnce /\ FlowOf(d) /\ Pictures' = Pictures
  BY DEF FlowInv, Pictures, Write
<1>2. results # <<>> /\ Head(results) = d /\ results' = Tail(results)
  BY DEF Write, Arrives
<1>3. /\ InResults(d) /\ results' \in Seq(Pictures) /\ PostedOnce'
      /\ \A e \in Pictures : InResults(e)' <=> InResults(e) /\ e # d
  <2>1. /\ InResults(d) /\ Tail(results) \in Seq(Pictures)
        /\ \A i, j \in DOMAIN Tail(results) : Tail(results)[i] = Tail(results)[j] => i = j
        /\ \A e \in Pictures : (\E i \in DOMAIN Tail(results) : Tail(results)[i] = e) <=> InResults(e) /\ e # d
    BY <1>1, <1>2, TakeResult
  <2> QED BY <1>2, <2>1 DEF PostedOnce, InResults
<1>4. d \in started \ packetized /\ OnlyIn(d, "results")
  BY <1>1, <1>3, WhereIs, Zenon
<1>5. /\ Loops(d) \in Nat /\ held \in [Pictures -> Nat]
      /\ held[d] = IF Loops(d) > 0 THEN 1 ELSE 0
  BY <1>1, <1>3, <1>4, PictureOK DEF FlowTypes, FlowOf
<1>6. /\ held' \in [Pictures -> Nat] /\ held'[d] = 0
      /\ \A e \in Pictures \ {d} : held'[e] = held[e]
      /\ packetized' = packetized \cup {d} /\ started' = started
  BY <1>5 DEF Write
<1>7. FlowTypes'
  BY <1>1, <1>3, <1>4, <1>6 DEF Write, FlowTypes
<1>8. ASSUME NEW e \in Pictures, e # d
      PROVE  FlowOf(e)'
  <2>1. FlowOf(e)
    BY DEF FlowInv
  <2>2. /\ e \in (started \ packetized)' <=> e \in started \ packetized
        /\ InResults(e)' <=> InResults(e)
    BY <1>3, <1>6, <1>8
  <2> QED BY <1>6, <1>8, <2>1, <2>2, FlowFrame DEF Write
<1>9. FlowOf(d)'
  <2>1. /\ InCdef(d)' <=> InCdef(d)
        /\ InRestoration(d)' <=> InRestoration(d)
        /\ InTiles(d)' <=> InTiles(d)
        /\ Loops(d)' = Loops(d)
    BY DEF Write, InCdef, InRestoration, InTiles, Loops, Pic
  <2>2. ~InResults(d)'
    BY <1>3
  <2>3. OnlyIn(d, "none")'
    BY <1>4, <2>1, <2>2 DEF OnlyIn, Write
  <2> QED BY <1>1, <1>4, <1>6, <2>1, <2>2, <2>3 DEF FlowOf, Write, OnlyIn
<1> QED BY <1>1, <1>3, <1>4, <1>7, <1>8, <1>9 DEF FlowInv

\* The other steps leave the stages alone.
LEMMA FlowUnchanged ==
    ASSUME FlowInv, UNCHANGED <<video, filterVars, started, recodes, packetized>>
    PROVE  FlowInv'
<1>1. FlowTypes /\ PostedOnce /\ Pictures' = Pictures
  BY DEF FlowInv, Pictures
<1>2. FlowTypes' /\ PostedOnce'
  BY <1>1 DEF FlowTypes, PostedOnce, filterVars
<1>3. ASSUME NEW e \in Pictures
      PROVE  FlowOf(e)'
  <2>1. FlowOf(e) /\ InResults(e)' = InResults(e)
    BY DEF FlowInv, InResults, filterVars
  <2> QED BY <2>1, FlowFrame DEF filterVars
<1> QED BY <1>1, <1>2, <1>3 DEF FlowInv

-----------------------------------------------------------------------------
(* Numbers modulo the size of the ring.                                     *)

\* A multiple of n that is closer to zero than n is zero.
LEMMA NoMultiple ==
    ASSUME NEW n \in Nat \ {0}, NEW k \in Int, n * k < n, -n < n * k
    PROVE  k = 0
<1>1. CASE k >= 1
  <2>1. n * k = n + n * (k - 1) /\ n * (k - 1) >= 0
    BY <1>1
  <2> QED BY <2>1
<1>2. CASE k <= -1
  <2>1. n * k = -n - n * (-k - 1) /\ n * (-k - 1) >= 0
    BY <1>2
  <2> QED BY <2>1
<1> QED BY <1>1, <1>2

\* Division with remainder.
LEMMA Remainder ==
    ASSUME NEW n \in Nat \ {0}, NEW a \in Nat
    PROVE  a % n \in 0..(n - 1) /\ a \div n \in Int /\ a = n * (a \div n) + (a % n)
  OBVIOUS

\* It is unique.
LEMMA RemainderUnique ==
    ASSUME NEW n \in Nat \ {0}, NEW p \in Int, NEW q \in Int, NEW r \in 0..(n - 1), NEW s \in 0..(n - 1),
           n * p + r = n * q + s
    PROVE  r = s
<1>1. n * (p - q) = s - r
  OBVIOUS
<1>2. p - q = 0
  BY <1>1, NoMultiple
<1> QED BY <1>1, <1>2

\* Numbers within one round have different remainders.
LEMMA OneRound ==
    ASSUME NEW n \in Nat \ {0}, NEW a \in Nat, NEW b \in Nat, a % n = b % n, a < b + n, b < a + n
    PROVE  a = b
<1>1. /\ a = n * (a \div n) + (a % n) /\ a \div n \in Int
      /\ b = n * (b \div n) + (b % n) /\ b \div n \in Int
  BY Remainder
<1>2. n * ((a \div n) - (b \div n)) = a - b
  BY <1>1
<1>3. (a \div n) - (b \div n) = 0
  BY <1>1, <1>2, NoMultiple
<1> QED BY <1>2, <1>3

\* A sum may be reduced in between.
LEMMA RemainderOfSum ==
    ASSUME NEW n \in Nat \ {0}, NEW a \in Nat, NEW b \in Nat
    PROVE  ((a % n) + b) % n = (a + b) % n
<1> DEFINE c == (a % n) + b
<1>1. a % n \in 0..(n - 1) /\ a \div n \in Int /\ a = n * (a \div n) + (a % n)
  BY Remainder
<1>2. c \in Nat /\ a + b \in Nat
  BY <1>1
<1>3. c % n \in 0..(n - 1) /\ c \div n \in Int /\ c = n * (c \div n) + (c % n)
  BY <1>2, Remainder
<1>4. (a + b) % n \in 0..(n - 1) /\ (a + b) \div n \in Int /\ a + b = n * ((a + b) \div n) + ((a + b) % n)
  BY <1>2, Remainder
<1>5. a + b = n * ((a \div n) + (c \div n)) + (c % n)
  BY <1>1, <1>3
<1>6. (a \div n) + (c \div n) \in Int
  BY <1>1, <1>3
<1> QED BY <1>3, <1>4, <1>5, <1>6, RemainderUnique

-----------------------------------------------------------------------------
(* The ring.                                                                *)

\* A nonempty set of numbers has a least member.
LEMMA HasLeast ==
    ASSUME NEW S \in SUBSET Nat, S # {}
    PROVE  \E x \in S : \A y \in S : x <= y
<1>1. PICK x \in S : \A y \in S : ~(<<y, x>> \in OpToRel(<, Nat))
  BY NatLessThanWellFounded, WFMin, Zenon
<1>2. \A y \in S : ~(y < x)
  BY <1>1, Zenon DEF OpToRel
<1> QED BY <1>2

\* What a mini-GOP is: fewer hidden pictures in a row than the ring has entries,
\* and those that wait to be shown, each before the next mini-GOP begins, are less
\* than a round of picture numbers apart.
OfMiniGops(v) ==
    LET g == v.pictures
    IN  \A d \in 0..(Len(g) - 1) :
           /\ \A h \in 0..d : (\A k \in h..(d - 1) : ~g[k + 1].show) => d < h + v.size
           /\ ~g[d + 1].show =>
                 \A c \in 0..(d - 1), s \in d..(Len(g) - 1) :
                    Waits(g[c + 1]) /\ Shows(g, s + 1, c + 1) =>
                       /\ g[c + 1].number # g[d + 1].number
                       /\ g[c + 1].number < g[d + 1].number + v.size
                       /\ g[d + 1].number < g[c + 1].number + v.size

\* What is coded in decode order (enable_dec_order, which enc_handle.c:4157-4164 sets
\* for low delay and for one level of parallelism; pic_manager_process.c:549) has
\* in mini-GOPs a ring that is large enough: one that is a parent picture control
\* set larger than a mini-GOP (enc_handle.c:338 and 579).
THEOREM InOrderIsLarge ==
    ASSUME NEW v, IsVideo(v), v.inOrder, OfMiniGops(v)
    PROVE  RingIsLarge(v)
<1> DEFINE g   == v.pictures
           all == 0..(Len(g) - 1)
<1> SUFFICES ASSUME NEW S \in Overtakings(v), NEW d \in all, d \notin S, S \cup {d} \in Overtakings(v)
             PROVE  EntryIsFree(v, S, d) /\ MetadataIsGone(v, S, d)
  BY DEF RingIsLarge
<1>1. /\ Len(g) \in Nat /\ v.size \in Nat \ {0} /\ DOMAIN g = 1..Len(g)
      /\ \A i \in 1..Len(g) : g[i].number \in Nat
  BY DEF IsVideo, IsPicture
<1>2. S \subseteq all /\ d \in Nat /\ \A e \in S \cup {d}, f \in all \ (S \cup {d}) : e < f
  BY <1>1 DEF Overtakings
<1>3. \A e \in S : e < d
  BY <1>2 DEF Overtakings
<1>4. \A f \in all : f < d => f \in S
  BY <1>1, <1>2
<1>5. EntryIsFree(v, S, d)
  <2> SUFFICES ASSUME NEW o \in all, o \notin S, 0..(o - 1) \subseteq S,
                      NEW h \in 0..o, \A k \in h..(o - 1) : ~g[k + 1].show
               PROVE  d < h + v.size
    BY DEF EntryIsFree
  <2>1. o = d
    <3>1. d \in 0..(o - 1) => d \in S
      OBVIOUS
    <3> QED BY <1>1, <1>2, <1>4, <3>1
  <2> QED BY <2>1 DEF OfMiniGops
<1>6. MetadataIsGone(v, S, d)
  <2> SUFFICES ASSUME ~g[d + 1].show, NEW c \in S, NEW s \in all, s \notin S, Waits(g[c + 1]), Shows(g, s + 1, c + 1)
               PROVE  g[c + 1].number % v.size # g[d + 1].number % v.size
    BY DEF MetadataIsGone
  <2>1. c \in 0..(d - 1) /\ s \in d..(Len(g) - 1)
    BY <1>1, <1>2, <1>3, <1>4
  <2>2. /\ g[c + 1].number # g[d + 1].number
        /\ g[c + 1].number < g[d + 1].number + v.size
        /\ g[d + 1].number < g[c + 1].number + v.size
    BY <2>1 DEF OfMiniGops
  <2>3. g[c + 1].number \in Nat /\ g[d + 1].number \in Nat
    <3>1. c + 1 \in 1..Len(g) /\ d + 1 \in 1..Len(g)
      BY <1>1, <1>2
    <3> HIDE DEF g
    <3> QED BY <1>1, <3>1
  <2> QED BY <1>1, <2>2, <2>3, OneRound
<1> QED BY <1>5, <1>6

\* What is packetized is what may be packetized while the rest is not, and so it
\* is with any picture that has started: it finds the ring as it needs it.
LEMMA OvertakingOK ==
    ASSUME FlowTypes, OrderInv, NEW d \in started \ packetized
    PROVE  EntryIsFree(video, packetized, d) /\ MetadataIsGone(video, packetized, d)
<1> DEFINE all == 0..(Len(video.pictures) - 1)
           S   == packetized \cup {d}
<1>1. /\ d \in all /\ packetized \subseteq all /\ S \subseteq started /\ d \notin packetized
      /\ Pictures = all /\ \A e \in all : e \in Nat /\ Pic(e) = video.pictures[e + 1]
  <2>1. d \in started /\ packetized \subseteq started /\ started \subseteq Pictures
    BY DEF FlowTypes
  <2> QED BY <2>1, SettingsOK DEF Pictures, Pic
<1>2. \A e \in S : video.pictures[e + 1].needs \subseteq packetized
  BY <1>1 DEF OrderInv, NeedsInv
<1>3. ASSUME NEW e \in S, NEW f \in all \ packetized, f # e
      PROVE  /\ video.inOrder => e < f
             /\ video.children = 1 => e < f + video.reach
  <2>1. /\ video.inOrder => e <= f
        /\ video.children = 1 => e < f + video.reach
    BY <1>1, <1>3 DEF OrderInv
  <2>2. e \in Nat /\ f \in Nat
    BY <1>1
  <2> QED BY <1>3, <2>1, <2>2
<1>4. packetized \in Overtakings(video) /\ S \in Overtakings(video)
  BY <1>1, <1>2, <1>3 DEF Overtakings
<1>5. RingIsLarge(video)
  BY RingAssumption DEF FlowTypes
<1> QED BY <1>1, <1>4, <1>5, Zenon DEF RingIsLarge

\* Behind the pictures that are sent, the ring has an entry for a picture if it
\* is packetized, and it is that picture's.
LEMMA EntryOK ==
    ASSUME FlowTypes, NEW h \in Nat, Sent(h), NEW i \in 0..(Size - 1)
    PROVE  /\ Entry(i) = ring[SlotOf(h + i)] /\ SlotOf(h + i) \in Slot
           /\ Entry(i) # NoEntry <=> h + i \in packetized
           /\ h + i \in packetized => Entry(i).pic = h + i
<1>1. Size \in Nat \ {0} /\ packetized \subseteq Pictures /\ Pictures \subseteq Nat
  BY SettingsOK, PictureOK DEF FlowTypes
<1>2. h + i \in Nat /\ SlotOf(h + i) \in Slot
  BY <1>1, Remainder DEF SlotOf, Slot
<1>3. ((h % Size) + i) % Size = (h + i) % Size
  <2>1. i \in Nat
    BY <1>1
  <2> QED BY <1>1, <2>1, RemainderOfSum, Zenon
<1>4. Entry(i) = ring[SlotOf(h + i)]
  BY <1>3 DEF Sent, Entry, SlotOf
<1>5. ASSUME h + i \in packetized
      PROVE  Entry(i).pic = h + i /\ Entry(i) # NoEntry
  BY <1>1, <1>2, <1>4, <1>5 DEF Sent, NoEntry, None
<1>6. ASSUME Entry(i) # NoEntry
      PROVE  h + i \in packetized
  <2> DEFINE p == Entry(i).pic
  <2>1. p \in packetized /\ p >= h /\ SlotOf(p) = SlotOf(h + i) /\ p < h + Size
    BY <1>2, <1>4, <1>6 DEF Sent
  <2>2. p \in Nat
    BY <1>1, <2>1
  <2>3. p % Size = (h + i) % Size /\ p < (h + i) + Size /\ h + i < p + Size
    BY <1>1, <2>1, <2>2 DEF SlotOf
  <2>4. p = h + i
    BY <1>1, <1>2, <2>2, <2>3, OneRound
  <2> QED BY <2>1, <2>4
<1> QED BY <1>2, <1>4, <1>5, <1>6

\* A unit that is complete is made of the next pictures, of which the last and
\* no other is shown.
LEMMA UnitOK ==
    ASSUME FlowTypes, NEW h \in Nat, Sent(h)
    PROVE  /\ FramesInNextUnit \in 0..Size
           /\ FramesInNextUnit > 0 =>
                 /\ h..(h + FramesInNextUnit - 1) \subseteq packetized
                 /\ Pic(h + FramesInNextUnit - 1).show
                 /\ \A k \in 0..(FramesInNextUnit - 2) : ~Pic(h + k).show
           /\ FramesInNextUnit = 0 =>
                 \A n \in 1..Size : h..(h + n - 1) \subseteq packetized /\ Pic(h + n - 1).show =>
                                       \E k \in 0..(n - 2) : Pic(h + k).show
<1>1. Size \in Nat \ {0}
  BY SettingsOK
<1>3. ASSUME NEW n \in UnitLengths
      PROVE  /\ n \in 1..Size /\ h..(h + n - 1) \subseteq packetized /\ Pic(h + n - 1).show
             /\ \A k \in 0..(n - 2) : ~Pic(h + k).show
  <2>1. /\ n \in 1..Size /\ n - 1 \in 0..(n - 1)
        /\ \A i \in 0..(n - 1) : i \in 0..(Size - 1) /\ Entry(i) # NoEntry
        /\ Pic(Entry(n - 1).pic).show
        /\ \A i \in 0..(n - 2) : i \in 0..(n - 1) /\ ~Pic(Entry(i).pic).show
    BY <1>1 DEF UnitLengths
  <2>2. \A i \in 0..(n - 1) : h + i \in packetized
    BY <2>1, EntryOK
  <2>3. ASSUME NEW j \in h..(h + n - 1)
        PROVE  j \in packetized
    <3>1. j - h \in 0..(n - 1) /\ h + (j - h) = j
      BY <1>1, <2>1
    <3> QED BY <2>2, <3>1
  <2>4. Entry(n - 1).pic = h + (n - 1)
    BY <2>1, <2>2, EntryOK
  <2>5. h + (n - 1) = h + n - 1
    BY <2>1
  <2>6. \A i \in 0..(n - 2) : Entry(i).pic = h + i
    BY <2>1, <2>2, EntryOK
  <2> QED BY <2>1, <2>3, <2>4, <2>5, <2>6
<1>4. ASSUME NEW n \in 1..Size, h..(h + n - 1) \subseteq packetized, Pic(h + n - 1).show,
             \A k \in 0..(n - 2) : ~Pic(h + k).show
      PROVE  n \in UnitLengths
  <2>1. \A i \in 0..(n - 1) : h + i \in packetized /\ i \in 0..(Size - 1)
    BY <1>1, <1>4
  <2>2. \A i \in 0..(n - 1) : Entry(i) # NoEntry /\ Entry(i).pic = h + i
    BY <2>1, EntryOK
  <2>3. h + (n - 1) = h + n - 1
    BY <1>1
  <2>4. \A i \in 0..(n - 1) : i # n - 1 => i \in 0..(n - 2)
    BY <1>1
  <2>5. \A i \in 0..(n - 1) : Pic(h + i).show <=> i = n - 1
    BY <1>4, <2>3, <2>4
  <2> QED BY <2>2, <2>5 DEF UnitLengths
<1>5. CASE UnitLengths = {}
  <2>1. FramesInNextUnit = 0
    BY <1>5 DEF FramesInNextUnit
  <2>2. \A n \in 1..Size : h..(h + n - 1) \subseteq packetized /\ Pic(h + n - 1).show =>
                             \E k \in 0..(n - 2) : Pic(h + k).show
    BY <1>4, <1>5
  <2> QED BY <1>1, <2>1, <2>2
<1>6. CASE UnitLengths # {}
  <2>1. FramesInNextUnit \in UnitLengths
    BY <1>6 DEF FramesInNextUnit
  <2> QED BY <1>1, <1>3, <2>1
<1> QED BY <1>5, <1>6

\* When no unit is complete, the pictures after those that are sent and before
\* the first that is missing are hidden.
LEMMA HiddenAhead ==
    ASSUME FlowTypes, NEW h \in Nat, Sent(h), FramesInNextUnit = 0,
           NEW o \in Nat, h..(o - 1) \subseteq packetized
    PROVE  \A d \in h..(o - 1) : ~Pic(d).show
<1> DEFINE S == {d \in h..(o - 1) : Pic(d).show}
<1> SUFFICES ASSUME S # {}
             PROVE  FALSE
  OBVIOUS
<1>1. PICK d \in S : \A e \in S : d <= e
  <2>1. S \in SUBSET Nat
    OBVIOUS
  <2> HIDE DEF S
  <2> QED BY <2>1, HasLeast
<1> DEFINE n == d - h + 1
<1>2. d \in packetized /\ d >= h /\ d \in Nat /\ Pic(d).show
  OBVIOUS
<1>3. d < h + Size /\ Size \in Nat \ {0}
  BY <1>2, SettingsOK DEF Sent
<1>4. n \in 1..Size /\ h + n - 1 = d
  BY <1>2, <1>3
<1>5. h..(h + n - 1) \subseteq packetized /\ Pic(h + n - 1).show
  BY <1>2, <1>4
<1>6. PICK k \in 0..(n - 2) : Pic(h + k).show
  BY <1>4, <1>5, UnitOK
<1>7. h + k \in h..(o - 1) /\ h + k < d
  BY <1>2, <1>4
<1> QED BY <1>1, <1>6, <1>7

\* Between two units, a picture that has started but is not packetized is in
\* the round of the ring that begins with the first picture not sent.
LEMMA RoomAhead ==
    ASSUME FlowTypes, OrderInv, NEW h \in Nat, Sent(h), FramesInNextUnit = 0,
           NEW d \in started \ packetized
    PROVE  d >= h /\ d < h + Size
<1>1. d \in Pictures \ packetized /\ Pictures \ packetized \in SUBSET Nat
  BY PictureOK DEF FlowTypes
<1>2. PICK o \in Pictures \ packetized : \A e \in Pictures \ packetized : o <= e
  BY <1>1, HasLeast
<1>3. o \in Nat /\ d \in Nat /\ Len(video.pictures) \in Nat
  BY <1>1, <1>2, SettingsOK
<1>4. 0..(h - 1) \subseteq packetized
  BY DEF Sent
<1>5. o >= h /\ d >= h
  BY <1>1, <1>2, <1>3, <1>4
<1>6. 0..(o - 1) \subseteq packetized
  <2>1. \A j \in 0..(o - 1) : j \in Pictures
    BY <1>2, <1>3 DEF Pictures
  <2> QED BY <1>2, <1>3, <2>1
<1>7. \A j \in h..(o - 1) : ~Pic(j).show
  <2>1. h..(o - 1) \subseteq packetized
    BY <1>6
  <2> QED BY <1>3, <2>1, HiddenAhead
<1>8. o \in 0..(Len(video.pictures) - 1) /\ h \in 0..o
  BY <1>2, <1>3, <1>5 DEF Pictures
<1>9. EntryIsFree(video, packetized, d)
  BY OvertakingOK
<1> QED BY <1>2, <1>5, <1>6, <1>7, <1>8, <1>9 DEF EntryIsFree, Pic, Size

-----------------------------------------------------------------------------
(* The queues of packets.                                                   *)

\* A queue is a sequence of its own entries.
LEMMA QueueIsSeq ==
    ASSUME NEW q, IsQueue(q)
    PROVE  q \in Seq({q[i] : i \in 1..Len(q)}) /\ DOMAIN q = 1..Len(q)
<1>1. Len(q) \in Nat /\ q = [i \in 1..Len(q) |-> q[i]]
  BY Zenon DEF IsQueue
<1> DEFINE n == Len(q)
           S == {q[i] : i \in 1..n}
<1>2. q \in [1..n -> S]
  <2> HIDE DEF n
  <2>1. q = [i \in 1..n |-> q[i]]
    BY <1>1 DEF n
  <2> QED BY <2>1
<1>3. n \in Nat
  BY <1>1
<1> HIDE DEF n, S
<1>4. q \in Seq(S)
  BY <1>2, <1>3
<1>5. DOMAIN q = 1..n
  BY <1>2
<1> QED BY <1>4, <1>5 DEF n, S

\* A sequence is a queue.
LEMMA SeqIsQueue ==
    ASSUME NEW S, NEW q \in Seq(S)
    PROVE  IsQueue(q)
  BY DEF IsQueue

\* An entry more at the end.
LEMMA QueueAppend ==
    ASSUME NEW q, IsQueue(q), NEW x
    PROVE  LET r == Append(q, x)
           IN  /\ IsQueue(r) /\ Len(r) = Len(q) + 1 /\ DOMAIN r = 1..(Len(q) + 1)
               /\ r[Len(q) + 1] = x /\ \A i \in 1..Len(q) : r[i] = q[i]
<1> DEFINE S == {q[i] : i \in 1..Len(q)} \cup {x}
           r == Append(q, x)
<1>1. q \in Seq(S) /\ x \in S
  <2>1. q \in Seq({q[i] : i \in 1..Len(q)})
    BY QueueIsSeq
  <2> QED BY <2>1
<1> HIDE DEF S
<1>2. /\ r \in Seq(S) /\ Len(r) = Len(q) + 1 /\ DOMAIN r = 1..(Len(q) + 1)
      /\ r[Len(q) + 1] = x /\ \A i \in 1..Len(q) : r[i] = q[i]
  BY <1>1
<1>3. IsQueue(r)
  <2> HIDE DEF r
  <2> QED BY <1>2, SeqIsQueue
<1> QED BY <1>2, <1>3

\* An entry less at the front, or at the end.
LEMMA QueueTail ==
    ASSUME NEW q, IsQueue(q), q # <<>>
    PROVE  /\ IsQueue(Tail(q)) /\ Len(Tail(q)) = Len(q) - 1
           /\ IsQueue(Front(q)) /\ Len(Front(q)) = Len(q) - 1
<1> DEFINE S == {q[i] : i \in 1..Len(q)}
<1>1. q \in Seq(S)
  BY QueueIsSeq
<1> HIDE DEF S
<1>2. Len(q) \in Nat /\ Len(q) > 0
  BY <1>1
<1>3. Tail(q) \in Seq(S) /\ Len(Tail(q)) = Len(q) - 1
  BY <1>1, <1>2
<1>4. Front(q) \in Seq(S) /\ Len(Front(q)) = Len(q) - 1
  <2> DEFINE n == Len(q) - 1
  <2>1. n \in Nat /\ 1 \in Int /\ \A i \in 1..n : q[i] \in S
    BY <1>1, <1>2
  <2> HIDE DEF n
  <2>2. SubSeq(q, 1, n) \in Seq(S) /\ Len(SubSeq(q, 1, n)) = IF 1 <= n THEN n - 1 + 1 ELSE 0
    BY <2>1, SubSeqProperties
  <2>3. Len(SubSeq(q, 1, n)) = n
    BY <2>1, <2>2
  <2> QED BY <2>2, <2>3 DEF Front, n
<1> QED BY <1>3, <1>4, SeqIsQueue

\* Two queues in a row.
LEMMA QueueConcat ==
    ASSUME NEW q, IsQueue(q), NEW r, IsQueue(r)
    PROVE  IsQueue(q \o r) /\ Len(q \o r) = Len(q) + Len(r)
<1> DEFINE S == {q[i] : i \in 1..Len(q)} \cup {r[i] : i \in 1..Len(r)}
<1>1. q \in Seq(S) /\ r \in Seq(S)
  <2>1. q \in Seq({q[i] : i \in 1..Len(q)}) /\ r \in Seq({r[i] : i \in 1..Len(r)})
    BY QueueIsSeq
  <2> QED BY <2>1
<1> HIDE DEF S
<1>2. q \o r \in Seq(S) /\ Len(q \o r) = Len(q) + Len(r)
  BY <1>1
<1> QED BY <1>2, SeqIsQueue

\* What is written as a function on 1..n is a queue of n entries.
LEMMA QueueOfFunction ==
    ASSUME NEW n \in Nat, NEW q, q = [i \in 1..n |-> q[i]]
    PROVE  IsQueue(q) /\ Len(q) = n
<1> DEFINE S == {q[i] : i \in 1..n}
<1>1. q \in [1..n -> S]
  OBVIOUS
<1> HIDE DEF S
<1>2. q \in Seq(S) /\ Len(q) = n
  BY <1>1
<1> QED BY <1>2, SeqIsQueue

\* Sorting keeps the length.
LEMMA SortedOK ==
    ASSUME NEW q, IsQueue(q)
    PROVE  IsQueue(SortedByPts(q)) /\ Len(SortedByPts(q)) = Len(q)
<1> DEFINE r == SortedByPts(q)
<1>1. Len(q) \in Nat /\ DOMAIN q = 1..Len(q)
  BY QueueIsSeq DEF IsQueue
<1>2. r = [n \in DOMAIN q |-> r[n]]
  BY DEF SortedByPts
<1>3. r = [n \in 1..Len(q) |-> r[n]]
  BY <1>1, <1>2, Zenon
<1> HIDE DEF r
<1>4. IsQueue(r) /\ Len(r) = Len(q)
  BY <1>1, <1>3, QueueOfFunction
<1> QED BY <1>4 DEF r

-----------------------------------------------------------------------------
(* The steps of the ring.                                                   *)

\* A step that leaves the ring alone and moves buffers without losing one.
LEMMA RingSame ==
    ASSUME FlowTypes, QueueInv, RingInv, UNCHANGED <<video, packetized, ring, head, unit>>,
           free' \in Nat, IsQueue(output'), IsQueue(taken'), IsQueue(undisplayed'),
           free' + Len(output') + Len(taken') + Len(undisplayed') = free + Len(output) + Len(taken) + Len(undisplayed),
           packer' \in {"shows", "counts"} <=> packer \in {"shows", "counts"},
           packer' = "waits" => FramesInNextUnit = 0
    PROVE  RingInv' /\ SentSame
<1>1. Size' = Size /\ Slot' = Slot /\ Buffers' = Buffers
  BY DEF Size, Slot, Buffers
<1>2. FramesInNextUnit' = FramesInNextUnit
  <2>1. \A i : Entry(i)' = Entry(i)
    BY DEF Entry, Size
  <2>2. \A d : Pic(d)' = Pic(d)
    BY DEF Pic
  <2>3. UnitLengths' = UnitLengths
    BY <1>1, <2>1, <2>2 DEF UnitLengths
  <2> QED BY <2>3 DEF FramesInNextUnit
<1>3. PICK h \in 0..Len(video.pictures) : Sent(h)
  BY DEF RingInv
<1>4. h \in Nat /\ unit \in Nat /\ free \in Nat
  BY <1>3, SettingsOK DEF RingInv
<1>5. Cardinality(packetized) \in Int
  <2>1. IsFiniteSet(Pictures) /\ packetized \subseteq Pictures
    <3>1. 0 \in Int /\ Len(video.pictures) - 1 \in Int
      BY SettingsOK
    <3> QED BY <3>1, FS_Interval, Zenon DEF Pictures, FlowTypes
  <2>2. IsFiniteSet(packetized)
    BY <2>1, FS_Subset
  <2> QED BY <2>2, FS_CardinalityType
<1>6. /\ Len(output) \in Nat /\ Len(taken) \in Nat /\ Len(undisplayed) \in Nat
      /\ Len(output') \in Nat /\ Len(taken') \in Nat /\ Len(undisplayed') \in Nat
  BY DEF QueueInv, IsQueue
<1>7. free' + Len(output') + Len(taken') + Len(undisplayed') + (Cardinality(packetized) - h - unit) = Buffers
  BY <1>3, <1>4, <1>5, <1>6 DEF Sent
<1>8. Sent(h)'
  BY <1>1, <1>3, <1>7 DEF Sent, SlotOf
<1>9. h \in (0..Len(video.pictures))'
  BY <1>3
<1> QED BY <1>1, <1>2, <1>3, <1>8, <1>9 DEF RingInv, SentSame

\* The same when no buffer moves at all.
LEMMA RingFrame ==
    ASSUME FlowTypes, QueueInv, RingInv,
           UNCHANGED <<video, packetized, ring, head, unit, packer, free, output, taken, undisplayed, stream>>
    PROVE  QueueInv' /\ RingInv' /\ SentSame
<1>1. QueueInv'
  BY DEF QueueInv
<1>2. /\ free' \in Nat /\ IsQueue(output') /\ IsQueue(taken') /\ IsQueue(undisplayed')
      /\ packer' = "waits" => FramesInNextUnit = 0
  BY DEF QueueInv, RingInv
<1> QED BY <1>1, <1>2, RingSame

\* Packetization takes the lock.
LEMMA EnterRing ==
    ASSUME FlowTypes, QueueInv, RingInv, Enter
    PROVE  QueueInv' /\ RingInv' /\ SentSame
<1>1. QueueInv'
  BY DEF QueueInv, Enter, ringVars, appVars
<1>2. /\ free' \in Nat /\ IsQueue(output') /\ IsQueue(taken') /\ IsQueue(undisplayed')
  BY <1>1 DEF QueueInv, RingInv, Enter
<1> QED BY <1>1, <1>2, RingSame DEF Enter, ringVars, appVars

\* A header that shows a hidden picture goes out in a buffer that was kept.
LEMMA ShowExistingRing ==
    ASSUME FlowTypes, QueueInv, RingInv, ShowExisting
    PROVE  QueueInv' /\ RingInv' /\ SentSame
<1>1. packer = "shows" /\ packer' = "counts" /\ free' = free /\ free \in Nat /\ taken' = taken
  BY DEF ShowExisting, RingInv, appVars
<1>2. UNCHANGED <<video, packetized, ring, head, unit>>
  BY DEF ShowExisting
<1>3. CASE undisplayed = <<>>
  <2>1. UNCHANGED <<undisplayed, output, stream>>
    BY <1>3 DEF ShowExisting
  <2>2. QueueInv'
    BY <1>1, <2>1 DEF QueueInv
  <2> QED BY <1>1, <1>2, <2>1, <2>2, RingSame DEF QueueInv
<1>4. CASE undisplayed # <<>>
  <2>1. PICK p : output' = Append(output, p) /\ stream' = Append(stream, p) /\ undisplayed' = Front(undisplayed)
    BY <1>4, Zenon DEF ShowExisting, Post
  <2>2. /\ IsQueue(output') /\ Len(output') = Len(output) + 1
        /\ IsQueue(stream')
        /\ IsQueue(undisplayed') /\ Len(undisplayed') = Len(undisplayed) - 1
    BY <1>4, <2>1, QueueAppend, QueueTail, Zenon DEF QueueInv
  <2>3. QueueInv'
    BY <1>1, <2>2 DEF QueueInv
  <2>4. /\ Len(output) \in Nat /\ Len(taken) \in Nat /\ Len(undisplayed) \in Nat
    BY DEF QueueInv, IsQueue
  <2>5. free' + Len(output') + Len(taken') + Len(undisplayed') = free + Len(output) + Len(taken) + Len(undisplayed)
    BY <1>1, <2>2, <2>4
  <2> QED BY <1>1, <1>2, <2>2, <2>3, <2>5, RingSame DEF QueueInv
<1> QED BY <1>3, <1>4

\* The end of the stream is posted in an empty buffer, if it is posted.
LEMMA LastPacket ==
    ASSUME FlowTypes, QueueInv, RingInv, UNCHANGED <<video, packetized, ring, head, unit, taken, undisplayed>>,
           \/ free > 0 /\ free' = free - 1 /\ Post(Stream!EndOfStream)
           \/ UNCHANGED <<free, output, stream>>,
           packer' \in {"shows", "counts"} <=> packer \in {"shows", "counts"},
           packer' = "waits" => FramesInNextUnit = 0
    PROVE  QueueInv' /\ RingInv' /\ SentSame
<1>1. free \in Nat
  BY DEF RingInv
<1>2. CASE UNCHANGED <<free, output, stream>>
  <2>1. QueueInv'
    BY <1>2 DEF QueueInv
  <2> QED BY <1>1, <1>2, <2>1, RingSame DEF QueueInv
<1>3. CASE free > 0 /\ free' = free - 1 /\ Post(Stream!EndOfStream)
  <2>1. PICK p : output' = Append(output, p) /\ stream' = Append(stream, p)
    BY <1>3, Zenon DEF Post
  <2>2. /\ IsQueue(output') /\ Len(output') = Len(output) + 1
        /\ IsQueue(stream')
    BY <2>1, QueueAppend, Zenon DEF QueueInv
  <2>3. QueueInv'
    BY <2>2 DEF QueueInv
  <2>4. /\ Len(output) \in Nat /\ Len(taken) \in Nat /\ Len(undisplayed) \in Nat
    BY DEF QueueInv, IsQueue
  <2>5. /\ free' + Len(output') + Len(taken') + Len(undisplayed') = free + Len(output) + Len(taken) + Len(undisplayed)
        /\ free' \in Nat
    BY <1>1, <1>3, <2>2, <2>4
  <2> QED BY <2>2, <2>3, <2>5, RingSame DEF QueueInv
<1> QED BY <1>2, <1>3

\* Packetization has sent all units that are complete.
LEMMA LeaveRing ==
    ASSUME FlowTypes, QueueInv, RingInv, Leave
    PROVE  QueueInv' /\ RingInv' /\ SentSame
<1>1. /\ UNCHANGED <<video, packetized, ring, head, unit, taken, undisplayed>>
      /\ \/ free > 0 /\ free' = free - 1 /\ Post(Stream!EndOfStream)
         \/ UNCHANGED <<free, output, stream>>
  BY DEF Leave, ringVars, appVars
<1>2. packer = "looks" /\ packer' = "waits" /\ FramesInNextUnit = 0
  BY DEF Leave
<1> QED BY <1>1, <1>2, LastPacket

\* Resource coordination may be the one that signals the end.
LEMMA SignalEndRing ==
    ASSUME FlowTypes, QueueInv, RingInv, SignalEnd
    PROVE  QueueInv' /\ RingInv' /\ SentSame
<1>1. /\ UNCHANGED <<video, packetized, ring, head, unit, taken, undisplayed, packer>>
      /\ \/ free > 0 /\ free' = free - 1 /\ Post(Stream!EndOfStream)
         \/ UNCHANGED <<free, output, stream>>
  BY DEF SignalEnd, ringVars, appVars
<1>2. packer' = "waits" => FramesInNextUnit = 0
  BY <1>1 DEF RingInv
<1> QED BY <1>1, <1>2, LastPacket

\* The application takes a packet.
LEMMA GetPacketRing ==
    ASSUME FlowTypes, QueueInv, RingInv, GetPacket
    PROVE  QueueInv' /\ RingInv' /\ SentSame
<1>1. /\ UNCHANGED <<video, packetized, ring, head, unit, undisplayed, packer, free, stream>>
      /\ output # <<>> /\ output' = Tail(output) /\ taken' = Append(taken, Head(output))
  BY DEF GetPacket, ringVars
<1>2. /\ IsQueue(output') /\ Len(output') = Len(output) - 1
      /\ IsQueue(taken') /\ Len(taken') = Len(taken) + 1
  BY <1>1, QueueAppend, QueueTail, Zenon DEF QueueInv
<1>3. QueueInv'
  BY <1>1, <1>2 DEF QueueInv
<1>4. /\ Len(output) \in Nat /\ Len(taken) \in Nat /\ Len(undisplayed) \in Nat /\ free \in Nat
  BY DEF QueueInv, IsQueue, RingInv
<1>5. free' + Len(output') + Len(taken') + Len(undisplayed') = free + Len(output) + Len(taken) + Len(undisplayed)
  BY <1>1, <1>2, <1>4
<1>6. packer' = "waits" => FramesInNextUnit = 0
  BY <1>1 DEF RingInv
<1> QED BY <1>1, <1>2, <1>3, <1>4, <1>5, <1>6, RingSame DEF QueueInv

\* And gives its buffer back.
LEMMA ReleaseRing ==
    ASSUME FlowTypes, QueueInv, RingInv, ReleaseOutBuffer
    PROVE  QueueInv' /\ RingInv' /\ SentSame
<1>1. /\ UNCHANGED <<video, packetized, ring, head, unit, undisplayed, packer, output, stream>>
      /\ taken # <<>> /\ taken' = Tail(taken) /\ free' = free + 1
  BY DEF ReleaseOutBuffer, ringVars
<1>2. IsQueue(taken') /\ Len(taken') = Len(taken) - 1
  BY <1>1, QueueTail, Zenon DEF QueueInv
<1>3. QueueInv'
  BY <1>1, <1>2 DEF QueueInv
<1>4. /\ Len(output) \in Nat /\ Len(taken) \in Nat /\ Len(undisplayed) \in Nat /\ free \in Nat
  BY DEF QueueInv, IsQueue, RingInv
<1>5. /\ free' + Len(output') + Len(taken') + Len(undisplayed') = free + Len(output) + Len(taken) + Len(undisplayed)
      /\ free' \in Nat
  BY <1>1, <1>2, <1>4
<1>6. packer' = "waits" => FramesInNextUnit = 0
  BY <1>1 DEF RingInv
<1> QED BY <1>1, <1>2, <1>3, <1>5, <1>6, RingSame DEF QueueInv

\* The number of packetized pictures is a number.
LEMMA PacketizedFinite ==
    ASSUME FlowTypes
    PROVE  IsFiniteSet(packetized) /\ Cardinality(packetized) \in Nat
<1>1. IsFiniteSet(Pictures) /\ packetized \subseteq Pictures
  <2>1. 0 \in Int /\ Len(video.pictures) - 1 \in Int
    BY SettingsOK
  <2> QED BY <2>1, FS_Interval, Zenon DEF Pictures, FlowTypes
<1>2. IsFiniteSet(packetized)
  BY <1>1, FS_Subset
<1> QED BY <1>2, FS_CardinalityType

\* A picture that is written finds the entry of the ring that it takes empty.
LEMMA WriteRing ==
    ASSUME FlowTypes, OrderInv, QueueInv, RingInv, NEW d \in started \ packetized, Write(d)
    PROVE  QueueInv' /\ RingInv' /\ SentSame /\ ring[SlotOf(d)] = NoEntry
<1>1. Size' = Size /\ Slot' = Slot /\ Buffers' = Buffers /\ Len(video.pictures)' = Len(video.pictures)
  BY DEF Size, Slot, Buffers, Write
<1>2. packer = "waits" /\ FramesInNextUnit = 0 /\ unit = 0 /\ unit' = 0 /\ head' = head
  BY DEF Write, Arrives, RingInv
<1>3. PICK h \in 0..Len(video.pictures) : Sent(h)
  BY DEF RingInv
<1>4. h \in Nat /\ Size \in Nat \ {0} /\ d \in Nat /\ packetized \subseteq Nat
  <2>1. d \in Pictures /\ packetized \subseteq Pictures
    BY DEF FlowTypes
  <2>2. Pictures \subseteq Nat
    BY PictureOK
  <2> QED BY <1>3, <2>1, <2>2, SettingsOK
<1>5. d >= h /\ d < h + Size
  BY <1>2, <1>3, <1>4, RoomAhead
<1>6. \A e \in packetized : e >= h => e < h + Size /\ SlotOf(e) # SlotOf(d) /\ ring[SlotOf(e)].pic = e
  <2> TAKE e \in packetized
  <2> HAVE e >= h
  <2>1. e < h + Size /\ e \in Nat /\ e # d /\ ring[SlotOf(e)].pic = e
    BY <1>3, <1>4 DEF Sent
  <2>2. ASSUME SlotOf(e) = SlotOf(d)
        PROVE  FALSE
    <3>1. e % Size = d % Size /\ e < d + Size /\ d < e + Size
      BY <1>4, <1>5, <2>1, <2>2 DEF SlotOf
    <3> QED BY <1>4, <2>1, <3>1, OneRound
  <2> QED BY <2>1, <2>2
<1>7. SlotOf(d) \in Slot /\ \A e \in packetized : SlotOf(e) \in Slot
  BY <1>4, Remainder DEF SlotOf, Slot
<1>8. ring[SlotOf(d)] = NoEntry
  BY <1>3, <1>6, <1>7 DEF Sent
<1>9. /\ DOMAIN ring' = Slot /\ ring'[SlotOf(d)].pic = d
      /\ \A i \in Slot : i # SlotOf(d) => ring'[i] = ring[i]
  BY <1>7 DEF Write, RingInv
<1>10. packetized' = packetized \cup {d} /\ free > 0 /\ free \in Nat /\ free' = free - 1 /\ packer' = "written"
  BY DEF Write, RingInv
<1>11. Cardinality(packetized') = Cardinality(packetized) + 1 /\ Cardinality(packetized) \in Nat
  BY <1>10, PacketizedFinite, FS_AddElement
<1>12. UNCHANGED <<output, taken, undisplayed, stream>> /\ Len(output) \in Nat /\ Len(taken) \in Nat /\ Len(undisplayed) \in Nat
  BY DEF Write, appVars, QueueInv, IsQueue
<1>13. QueueInv'
  BY <1>12 DEF QueueInv
<1>14. Sent(h)'
  <2>1. head' = h % Size /\ 0..(h - 1) \subseteq packetized'
    BY <1>2, <1>3, <1>10 DEF Sent
  <2>2. ASSUME NEW e \in packetized', e >= h
        PROVE  e < h + Size /\ ring'[SlotOf(e)].pic = e
    BY <1>5, <1>6, <1>7, <1>9, <1>10, <2>2
  <2>3. ASSUME NEW i \in Slot, ring'[i] # NoEntry
        PROVE  ring'[i].pic \in packetized' /\ ring'[i].pic >= h /\ SlotOf(ring'[i].pic) = i
    <3>1. CASE i = SlotOf(d)
      BY <1>5, <1>9, <1>10, <3>1
    <3>2. CASE i # SlotOf(d)
      BY <1>3, <1>9, <1>10, <2>3, <3>2 DEF Sent
    <3> QED BY <3>1, <3>2
  <2>4. h..(h + unit' - 1) \subseteq packetized'
    BY <1>2, <1>4
  <2>5. free + Len(output) + Len(taken) + Len(undisplayed) + (Cardinality(packetized) - h - unit) = Buffers
    BY <1>3 DEF Sent
  <2>6. free' + Len(output') + Len(taken') + Len(undisplayed') + (Cardinality(packetized') - h - unit') = Buffers
    BY <1>2, <1>4, <1>10, <1>11, <1>12, <2>5
  <2>7. \A e : SlotOf(e)' = SlotOf(e)
    BY <1>1 DEF SlotOf
  <2> QED BY <1>1, <2>1, <2>2, <2>3, <2>4, <2>6, <2>7 DEF Sent
<1>15. RingInv'
  BY <1>1, <1>2, <1>3, <1>4, <1>9, <1>10, <1>14 DEF RingInv
<1>16. SentSame
  BY <1>3, <1>14 DEF SentSame
<1> QED BY <1>8, <1>13, <1>15, <1>16

\* Of the hidden pictures of a unit each is kept or dropped.
LEMMA KeptOK ==
    ASSUME FlowTypes, NEW h \in Nat, Sent(h), NEW frames \in 1..Size, h..(h + frames - 1) \subseteq packetized
    PROVE  /\ DOMAIN Kept(frames) = 1..Len(Kept(frames)) /\ Len(Kept(frames)) \in Nat
           /\ Cardinality(Dropped(frames)) \in Nat
           /\ Len(Kept(frames)) + Cardinality(Dropped(frames)) = frames - 1
<1>1. Size \in Nat \ {0} /\ frames \in Nat
  BY SettingsOK
<1> DEFINE H == HiddenFrames(frames)
           K == {d \in H : ~Pic(d).alt}
           D == {d \in H : Pic(d).alt}
<1>2. H = h..(h + frames - 2)
  <2>1. \A i \in 0..(frames - 2) : i \in 0..(Size - 1) /\ h + i \in packetized
    BY <1>1
  <2>2. \A i \in 0..(frames - 2) : Entry(i).pic = h + i
    BY <2>1, EntryOK
  <2>3. H = {h + i : i \in 0..(frames - 2)}
    BY <2>2 DEF HiddenFrames
  <2>4. ASSUME NEW j \in h..(h + frames - 2)
        PROVE  j \in {h + i : i \in 0..(frames - 2)}
    <3>1. j - h \in 0..(frames - 2) /\ h + (j - h) = j
      BY <1>1
    <3> QED BY <3>1
  <2> HIDE DEF H
  <2> QED BY <1>1, <2>3, <2>4
<1> HIDE DEF H
<1>3. IsFiniteSet(H) /\ Cardinality(H) = frames - 1
  <2> DEFINE b == h + frames - 2
  <2>1. b \in Int /\ h \in Int
    BY <1>1
  <2>2. IsFiniteSet(h..b) /\ Cardinality(h..b) = IF h > b THEN 0 ELSE b - h + 1
    <3> HIDE DEF b
    <3> QED BY <2>1, FS_Interval, Zenon
  <2> QED BY <1>1, <1>2, <2>2
<1>4. IsFiniteSet(K) /\ IsFiniteSet(D)
  BY <1>3, FS_Subset
<1>5. Cardinality(K) \in Nat /\ Cardinality(D) \in Nat
  BY <1>4, FS_CardinalityType
<1>6. Cardinality(K) + Cardinality(D) = frames - 1
  <2>1. K \cup D = H /\ K \cap D = {}
    OBVIOUS
  <2>2. Cardinality(K \cup D) = Cardinality(K) + Cardinality(D) - Cardinality(K \cap D)
    BY <1>4, FS_Union
  <2>3. Cardinality(K \cap D) = 0
    BY <2>1, FS_EmptySet
  <2>4. Cardinality(K \cup D) = Cardinality(H)
    BY <2>1, Zenon
  <2> HIDE DEF K, D
  <2> QED BY <1>3, <1>5, <2>2, <2>3, <2>4
<1>7. Kept(frames) = SetToSeq(K) /\ Dropped(frames) = D
  BY DEF Kept, Dropped, H
<1>8. Kept(frames) \in [1..Cardinality(K) -> K]
  <2> HIDE DEF K
  <2>1. ExistsBijection(1..Cardinality(K), K)
    BY <1>4, FS_CardinalityType
  <2>2. \E f \in [1..Cardinality(K) -> K] : IsInjective(f)
    BY <2>1, Zenon DEF ExistsBijection, Bijection, Injection
  <2> QED BY <1>7, <2>2, Zenon DEF SetToSeq
<1>9. Len(Kept(frames)) = Cardinality(K) /\ DOMAIN Kept(frames) = 1..Cardinality(K)
  <2> HIDE DEF K
  <2> QED BY <1>5, <1>8
<1> HIDE DEF K, D
<1> QED BY <1>5, <1>6, <1>7, <1>9

\* A unit is sent: its buffer carries all its data, the others are kept or
\* given back.
LEMMA SendUnitRing ==
    ASSUME FlowTypes, QueueInv, RingInv, SendUnit
    PROVE  QueueInv' /\ RingInv' /\ SentSame
<1> DEFINE frames == FramesInNextUnit
<1>1. Size' = Size /\ Slot' = Slot /\ Buffers' = Buffers /\ Len(video.pictures)' = Len(video.pictures)
  BY DEF Size, Slot, Buffers, SendUnit
<1>2. packer = "looks" /\ frames > 0 /\ unit' = frames /\ unit = 0
  BY DEF SendUnit, RingInv
<1>3. PICK h \in 0..Len(video.pictures) : Sent(h)
  BY DEF RingInv
<1>4. h \in Nat /\ Size \in Nat \ {0}
  BY <1>3, SettingsOK
<1>5. frames \in 1..Size /\ h..(h + frames - 1) \subseteq packetized
  BY <1>2, <1>3, <1>4, UnitOK
<1> DEFINE kept == Len(Kept(frames))
           dropped == Cardinality(Dropped(frames))
<1>6. kept \in Nat /\ dropped \in Nat /\ kept + dropped = frames - 1 /\ DOMAIN Kept(frames) = 1..kept
  BY <1>3, <1>4, <1>5, KeptOK
<1>7. PICK p : output' = Append(output, p) /\ stream' = Append(stream, p)
  BY Zenon DEF SendUnit, Post
<1>8. /\ IsQueue(output') /\ Len(output') = Len(output) + 1
      /\ IsQueue(stream')
  BY <1>7, QueueAppend, Zenon DEF QueueInv
<1>9. IsQueue(undisplayed') /\ Len(undisplayed') = Len(undisplayed) + kept
  <2>1. CASE frames > 1
    <3> DEFINE more == [i \in DOMAIN Kept(frames) |-> Pic(Kept(frames)[i]).number]
    <3>1. undisplayed' = SortedByPts(undisplayed \o more)
      BY <2>1 DEF SendUnit
    <3>2. more = [i \in 1..kept |-> more[i]]
      BY <1>6
    <3> HIDE DEF more, kept
    <3>3. IsQueue(more) /\ Len(more) = kept
      BY <1>6, <3>2, QueueOfFunction
    <3>4. IsQueue(undisplayed \o more) /\ Len(undisplayed \o more) = Len(undisplayed) + Len(more)
      BY <3>3, QueueConcat DEF QueueInv
    <3>5. IsQueue(undisplayed') /\ Len(undisplayed') = Len(undisplayed \o more)
      BY <3>1, <3>4, SortedOK
    <3> QED BY <3>3, <3>4, <3>5
  <2>2. CASE ~(frames > 1)
    <3>1. undisplayed' = undisplayed
      BY <2>2 DEF SendUnit
    <3>2. kept = 0
      BY <1>5, <1>6, <2>2
    <3> QED BY <3>1, <3>2 DEF QueueInv, IsQueue
  <2> QED BY <2>1, <2>2
<1>10. QueueInv'
  BY <1>8, <1>9 DEF QueueInv, SendUnit, appVars
<1>11. /\ UNCHANGED <<packetized, ring, head, taken, video>> /\ free' = free + dropped
       /\ packer' \in {"shows", "counts"}
  BY DEF SendUnit, appVars
<1>12. free \in Nat /\ Len(output) \in Nat /\ Len(taken) \in Nat /\ Len(undisplayed) \in Nat
  BY DEF RingInv, QueueInv, IsQueue
<1> HIDE DEF kept, dropped, frames
<1>13. Cardinality(packetized) \in Nat
  BY PacketizedFinite
<1>14. Sent(h)'
  <2>1. free + Len(output) + Len(taken) + Len(undisplayed) + (Cardinality(packetized) - h - unit) = Buffers
    BY <1>3 DEF Sent
  <2>2. free' + Len(output') + Len(taken') + Len(undisplayed') + (Cardinality(packetized') - h - unit') = Buffers
    <3>1. Cardinality(packetized') = Cardinality(packetized) /\ Len(taken') = Len(taken)
      BY <1>11
    <3>2. frames \in Nat
      BY <1>4, <1>5
    <3>3. PICK c, o, a, u : c = Cardinality(packetized) /\ o = Len(output) /\ a = Len(taken) /\ u = Len(undisplayed)
      BY Zenon
    <3>4. c \in Nat /\ o \in Nat /\ a \in Nat /\ u \in Nat /\ free + o + a + u + (c - h - unit) = Buffers
      BY <1>12, <1>13, <2>1, <3>3
    <3>5. /\ Cardinality(packetized') = c /\ Len(output') = o + 1 /\ Len(taken') = a /\ Len(undisplayed') = u + kept
          /\ free' = free + dropped /\ unit' = frames /\ unit = 0
      BY <1>2, <1>8, <1>9, <1>11, <3>1, <3>3
    <3>6. (free + dropped) + (o + 1) + a + (u + kept) + (c - h - frames) = Buffers
      BY <1>2, <1>4, <1>6, <1>12, <3>2, <3>4
    <3> QED BY <3>5, <3>6
  <2>3. \A e : SlotOf(e)' = SlotOf(e)
    BY <1>1 DEF SlotOf
  <2> QED BY <1>1, <1>2, <1>3, <1>5, <1>11, <2>2, <2>3 DEF Sent
<1>15. RingInv'
  BY <1>1, <1>2, <1>3, <1>5, <1>6, <1>11, <1>12, <1>14 DEF RingInv
<1>16. SentSame
  BY <1>3, <1>14 DEF SentSame
<1> QED BY <1>10, <1>15, <1>16

\* The entries of a unit that is sent are emptied, those of later pictures not.
LEMMA CountShownRing ==
    ASSUME FlowTypes, QueueInv, RingInv, CountShown
    PROVE  /\ QueueInv' /\ RingInv'
           /\ \E h, k \in 0..Len(video.pictures) : Sent(h) /\ k = h + unit /\ Sent(k)'
<1>1. Size' = Size /\ Slot' = Slot /\ Buffers' = Buffers /\ Len(video.pictures)' = Len(video.pictures)
  BY DEF Size, Slot, Buffers, CountShown
<1>2. /\ packer = "counts" /\ unit > 0 /\ unit \in 0..Size /\ unit' = 0 /\ packer' = "looks"
      /\ UNCHANGED <<packetized, free, output, taken, undisplayed, stream, video>>
      /\ head' = (head + unit) % Size
  BY DEF CountShown, RingInv, appVars
<1>3. PICK h \in 0..Len(video.pictures) : Sent(h)
  BY DEF RingInv
<1>4. h \in Nat /\ Size \in Nat \ {0} /\ unit \in Nat
  BY <1>2, <1>3, SettingsOK
<1>5. packetized \subseteq Nat /\ packetized \subseteq 0..(Len(video.pictures) - 1) /\ Len(video.pictures) \in Nat
  <2>1. packetized \subseteq Pictures /\ Pictures \subseteq Nat
    BY PictureOK DEF FlowTypes
  <2> QED BY <2>1, SettingsOK DEF Pictures
<1>6. head' = (h + unit) % Size
  <2>1. head = h % Size
    BY <1>3 DEF Sent
  <2> QED BY <1>2, <1>4, <2>1, RemainderOfSum
<1>7. h + unit \in 0..Len(video.pictures)
  <2>1. h + unit - 1 \in packetized
    BY <1>2, <1>3, <1>4 DEF Sent
  <2> QED BY <1>2, <1>4, <1>5, <2>1
<1> DEFINE emptied == {(h + j) % Size : j \in 0..(unit - 1)}
<1>8. \A i \in Slot : ring'[i] = IF i \in emptied THEN NoEntry ELSE ring[i]
  <2>1. ring' = [i \in Slot |-> IF \E j \in 0..(unit - 1) : i = (head + j) % Size THEN NoEntry ELSE ring[i]]
    BY DEF CountShown
  <2>2. \A j \in 0..(unit - 1) : (head + j) % Size = (h + j) % Size
    <3>1. head = h % Size /\ \A j \in 0..(unit - 1) : j \in Nat
      BY <1>3, <1>4 DEF Sent
    <3> QED BY <1>4, <3>1, RemainderOfSum
  <2>3. \A i : i \in emptied <=> \E j \in 0..(unit - 1) : i = (head + j) % Size
    BY <2>2
  <2> HIDE DEF emptied
  <2> QED BY <2>1, <2>3
<1>9. DOMAIN ring' = Slot
  BY DEF CountShown
<1>10. \A e \in packetized : e >= h => (SlotOf(e) \in emptied <=> e < h + unit)
  <2> TAKE e \in packetized
  <2> HAVE e >= h
  <2>1. e \in Nat /\ e < h + Size
    BY <1>3, <1>5 DEF Sent
  <2>2. ASSUME e < h + unit
        PROVE  SlotOf(e) \in emptied
    <3>1. e - h \in 0..(unit - 1) /\ h + (e - h) = e
      BY <1>4, <2>1, <2>2
    <3>2. SlotOf(e) = (h + (e - h)) % Size
      BY <3>1 DEF SlotOf
    <3> QED BY <3>1, <3>2
  <2>3. ASSUME SlotOf(e) \in emptied
        PROVE  e < h + unit
    <3>1. PICK j \in 0..(unit - 1) : e % Size = (h + j) % Size
      BY <2>3 DEF SlotOf
    <3>2. h + j \in Nat /\ h + j < h + unit /\ h + j < e + Size /\ e < (h + j) + Size
      BY <1>2, <1>4, <2>1
    <3>3. e = h + j
      BY <1>4, <2>1, <3>1, <3>2, OneRound
    <3> QED BY <3>2, <3>3
  <2> QED BY <2>2, <2>3
<1> HIDE DEF emptied
<1>11. \A e \in packetized : SlotOf(e) \in Slot
  BY <1>4, <1>5, Remainder DEF SlotOf, Slot
<1>12. Cardinality(packetized) \in Nat /\ free \in Nat /\ Len(output) \in Nat /\ Len(taken) \in Nat /\ Len(undisplayed) \in Nat
  BY PacketizedFinite DEF RingInv, QueueInv, IsQueue
<1> DEFINE n == h + unit
<1>13. /\ head' = n % Size
       /\ 0..(n - 1) \subseteq packetized'
       /\ \A e \in packetized' : e >= n => e < n + Size /\ ring'[SlotOf(e)].pic = e
       /\ \A i \in Slot : ring'[i] # NoEntry => ring'[i].pic \in packetized' /\ ring'[i].pic >= n /\ SlotOf(ring'[i].pic) = i
       /\ n..(n + unit' - 1) \subseteq packetized'
       /\ free' + Len(output') + Len(taken') + Len(undisplayed') + (Cardinality(packetized') - n - unit') = Buffers
  <2>1. \A k \in 0..(n - 1) : k \in packetized'
    BY <1>2, <1>3, <1>4 DEF Sent
  <2>2. ASSUME NEW e \in packetized', e >= n
        PROVE  e < n + Size /\ ring'[SlotOf(e)].pic = e
    <3>1. e \in packetized /\ e >= h /\ e \in Nat /\ SlotOf(e) \in Slot
      BY <1>2, <1>4, <1>5, <1>11, <2>2
    <3>2. SlotOf(e) \notin emptied
      BY <1>4, <1>10, <2>2, <3>1
    <3>3. e < h + Size /\ ring[SlotOf(e)].pic = e
      BY <1>3, <3>1 DEF Sent
    <3> QED BY <1>4, <1>8, <3>1, <3>2, <3>3
  <2>3. ASSUME NEW i \in Slot, ring'[i] # NoEntry
        PROVE  ring'[i].pic \in packetized' /\ ring'[i].pic >= n /\ SlotOf(ring'[i].pic) = i
    <3>1. i \notin emptied /\ ring'[i] = ring[i]
      BY <1>8, <2>3
    <3>2. ring[i].pic \in packetized /\ ring[i].pic >= h /\ SlotOf(ring[i].pic) = i
      BY <1>3, <2>3, <3>1 DEF Sent
    <3>3. ~(ring[i].pic < h + unit)
      BY <1>10, <3>1, <3>2
    <3>4. ring[i].pic \in Nat
      BY <1>5, <3>2
    <3> QED BY <1>2, <1>4, <3>1, <3>2, <3>3, <3>4
  <2>4. n..(n + unit' - 1) \subseteq packetized'
    BY <1>2, <1>4
  <2>5. free + Len(output) + Len(taken) + Len(undisplayed) + (Cardinality(packetized) - h - unit) = Buffers
    BY <1>3 DEF Sent
  <2>6. free' + Len(output') + Len(taken') + Len(undisplayed') + (Cardinality(packetized') - n - unit') = Buffers
    BY <1>2, <1>4, <1>12, <2>5
  <2> QED BY <1>6, <2>1, <2>2, <2>3, <2>4, <2>6
<1>14. \E k \in 0..Len(video.pictures)' : k = h + unit /\ Sent(k)'
  <2>1. PICK k : k = n
    OBVIOUS
  <2>2. k \in 0..Len(video.pictures)'
    BY <1>1, <1>7, <2>1
  <2>3. \A e : SlotOf(e)' = SlotOf(e)
    BY <1>1 DEF SlotOf
  <2>4. Sent(k)'
    <3> HIDE DEF n
    <3> QED BY <1>1, <1>13, <2>1, <2>3 DEF Sent
  <2> QED BY <2>1, <2>2, <2>4
<1>15. QueueInv'
  BY <1>2 DEF QueueInv
<1>16. RingInv'
  BY <1>1, <1>2, <1>4, <1>9, <1>12, <1>14 DEF RingInv
<1>17. \E a, b \in 0..Len(video.pictures) : Sent(a) /\ b = a + unit /\ Sent(b)'
  BY <1>1, <1>3, <1>14
<1> QED BY <1>15, <1>16, <1>17

-----------------------------------------------------------------------------
(* The end of the stream.                                                   *)

\* The stream holds one end at most: a second one would be sent if both threads
\* that may find the stream complete announced it.
EndOnce == \A i, j \in DOMAIN stream : stream[i] = Stream!EndOfStream /\ stream[j] = Stream!EndOfStream => i = j

\* The packet of a picture is not the end of the stream.
LEMMA PacketIsNoEnd ==
    ASSUME NEW pts, NEW shows \in Nat, NEW meta
    PROVE  Packet(pts, shows, meta) # Stream!EndOfStream
  BY DEF Packet, Stream!EndOfStream

\* Packets of pictures do not end the stream.
LEMMA StreamGoesOn ==
    ASSUME IsQueue(stream), EndOnce, NEW p, p # Stream!EndOfStream, stream' = Append(stream, p)
    PROVE  (Ended' <=> Ended) /\ EndOnce'
<1>1. /\ Len(stream) \in Nat /\ DOMAIN stream = 1..Len(stream)
      /\ DOMAIN stream' = 1..(Len(stream) + 1) /\ stream'[Len(stream) + 1] = p
      /\ \A i \in 1..Len(stream) : stream'[i] = stream[i]
  BY QueueAppend, QueueIsSeq DEF IsQueue
<1>2. PICK end : end = Stream!EndOfStream /\ end = Stream!EndOfStream'
  BY DEF Stream!EndOfStream
<1>3. \A i \in DOMAIN stream' : stream'[i] = end <=> i \in DOMAIN stream /\ stream[i] = end
  BY <1>1, <1>2
<1> QED BY <1>1, <1>2, <1>3 DEF Ended, EndOnce

\* A stream that has not ended is ended once.
LEMMA StreamEndsNow ==
    ASSUME IsQueue(stream), ~Ended, stream' = Append(stream, Stream!EndOfStream)
    PROVE  EndOnce'
<1>1. /\ Len(stream) \in Nat /\ DOMAIN stream = 1..Len(stream)
      /\ DOMAIN stream' = 1..(Len(stream) + 1)
      /\ \A i \in 1..Len(stream) : stream'[i] = stream[i]
  BY QueueAppend, QueueIsSeq DEF IsQueue
<1>2. PICK end : end = Stream!EndOfStream /\ end = Stream!EndOfStream'
  BY DEF Stream!EndOfStream
<1>3. \A i \in DOMAIN stream' : stream'[i] = end => i = Len(stream) + 1
  BY <1>1, <1>2 DEF Ended
<1> QED BY <1>2, <1>3 DEF EndOnce

\* The last picture of a unit being sent is one of the sequence.
LEMMA LastOfUnit ==
    ASSUME FlowTypes, RingInv, NEW frames \in 1..Size,
           \A h \in 0..Len(video.pictures) : Sent(h) => h..(h + frames - 1) \subseteq packetized
    PROVE  Pic(Entry(frames - 1).pic).number \in Nat
<1>1. PICK h \in 0..Len(video.pictures) : Sent(h)
  BY DEF RingInv
<1>2. h \in Nat /\ Size \in Nat \ {0}
  BY <1>1, SettingsOK
<1>3. h + (frames - 1) \in packetized /\ frames - 1 \in 0..(Size - 1)
  <2>1. h + (frames - 1) \in h..(h + frames - 1)
    BY <1>2
  <2> QED BY <1>1, <1>2, <2>1
<1>4. Entry(frames - 1).pic = h + (frames - 1)
  BY <1>1, <1>2, <1>3, EntryOK
<1> QED BY <1>3, <1>4, PictureOK DEF FlowTypes

\* What packetization and resource coordination do with the end.
LEMMA SendUnitEnd ==
    ASSUME FlowTypes, QueueInv, RingInv, EndInv, SendUnit
    PROVE  EndInv'
<1> DEFINE frames == FramesInNextUnit
<1>1. frames > 0 /\ packer = "looks" /\ packer' \in {"shows", "counts"}
  BY DEF SendUnit
<1>2. frames \in 1..Size /\ \A h \in 0..Len(video.pictures) : Sent(h) => h..(h + frames - 1) \subseteq packetized
  <2>1. \A h \in 0..Len(video.pictures) : h \in Nat
    BY SettingsOK
  <2>2. \E h \in 0..Len(video.pictures) : Sent(h)
    BY DEF RingInv
  <2>3. \A h \in 0..Len(video.pictures) : Sent(h) => frames \in 0..Size /\ h..(h + frames - 1) \subseteq packetized
    BY <1>1, <2>1, UnitOK
  <2>4. Size \in Nat
    BY SettingsOK
  <2> HIDE DEF frames
  <2> QED BY <1>1, <2>2, <2>3, <2>4
<1> DEFINE n == Pic(Entry(frames - 1).pic).number
           p == Packet(n, n, Entry(frames - 1).metadata)
<1>3. n \in Nat
  <2> HIDE DEF frames
  <2> QED BY <1>2, LastOfUnit
<1>4. p # Stream!EndOfStream
  <2> HIDE DEF n
  <2> QED BY <1>3, PacketIsNoEnd
<1>5. stream' = Append(stream, p)
  BY DEF SendUnit, Post
<1> HIDE DEF p
<1>6. (Ended' <=> Ended) /\ EndOnce'
  BY <1>4, <1>5, StreamGoesOn DEF QueueInv, EndInv, EndOnce
<1>7. UNCHANGED <<endVars, video>>
  BY DEF SendUnit
<1> QED BY <1>1, <1>6, <1>7 DEF EndInv, EndOnce, endVars

\* A header that shows a hidden picture does not end the stream.
LEMMA ShowExistingEnd ==
    ASSUME FlowTypes, QueueInv, RingInv, EndInv, ShowExisting
    PROVE  EndInv'
<1>1. packer = "shows" /\ packer' = "counts" /\ UNCHANGED <<endVars, video>>
  BY DEF ShowExisting
<1>2. (Ended' <=> Ended) /\ EndOnce'
  <2>1. CASE undisplayed = <<>>
    <3>1. stream' = stream
      BY <2>1 DEF ShowExisting
    <3> QED BY <3>1 DEF EndInv, EndOnce, Ended, Stream!EndOfStream
  <2>2. CASE undisplayed # <<>>
    <3>1. unit \in 1..Size /\ \A h \in 0..Len(video.pictures) : Sent(h) => h..(h + unit - 1) \subseteq packetized
      <4>1. unit \in 0..Size /\ unit > 0 /\ Size \in Nat
        BY <1>1, SettingsOK DEF RingInv
      <4>2. \A h \in 0..Len(video.pictures) : Sent(h) => h..(h + unit - 1) \subseteq packetized
        BY Zenon DEF Sent
      <4> QED BY <4>1, <4>2
    <3> DEFINE n == Pic(Entry(unit - 1).pic).number
    <3>2. n \in Nat
      BY <3>1, LastOfUnit
    <3> DEFINE p == Packet(Last(undisplayed), n + 1, Entry(unit - 1).next)
    <3>3. stream' = Append(stream, p)
      BY <2>2 DEF ShowExisting, Post
    <3>4. p # Stream!EndOfStream
      <4>1. n + 1 \in Nat
        BY <3>2
      <4> HIDE DEF n
      <4> QED BY <4>1, PacketIsNoEnd
    <3> HIDE DEF p
    <3> QED BY <3>3, <3>4, StreamGoesOn DEF QueueInv, EndInv, EndOnce
  <2> QED BY <2>1, <2>2
<1> QED BY <1>1, <1>2 DEF EndInv, EndOnce, endVars

\* Counting brings the number of pictures to the end at most once: then nobody
\* has signalled it yet.
LEMMA CountShownEnd ==
    ASSUME FlowTypes, EndInv, CountShown
    PROVE  EndInv'
<1>1. video.last \in Nat
  BY SettingsOK
<1>2. /\ packer = "counts" /\ packer' = "looks" /\ eos' = (shown' = terminating + 1)
      /\ UNCHANGED <<video, terminating, lock, coordinator, stream>>
      /\ shown' = shown + NewlyShown(Entry(unit - 1).pic)
  BY DEF CountShown
<1>3. shown \in Nat /\ shown' \in Nat /\ shown' > shown
  BY <1>2 DEF EndInv, NewlyShown
<1>4. (Ended' <=> Ended) /\ (EndOnce' <=> EndOnce)
  BY <1>2 DEF Ended, EndOnce, Stream!EndOfStream
<1>5. terminating \in Int /\ (coordinator = "runs" => terminating = -2)
  BY <1>1 DEF EndInv, NoEnd
<1>6. Ended => shown' # terminating + 1 /\ shown' >= terminating + 1
  BY <1>3, <1>5 DEF EndInv
<1>7. eos' \in BOOLEAN /\ (eos' => ~Ended /\ coordinator # "runs" /\ shown' = terminating + 1)
  <2>1. eos' \in BOOLEAN /\ (eos' => shown' = terminating + 1)
    BY <1>2, Zenon
  <2>2. shown' = terminating + 1 => ~Ended
    BY <1>6, Zenon
  <2>3. shown' = terminating + 1 => coordinator # "runs"
    BY <1>3, <1>5
  <2> QED BY <2>1, <2>2, <2>3, Zenon
<1> QED BY <1>2, <1>3, <1>4, <1>6, <1>7 DEF EndInv, EndOnce

\* Packetization ends the stream only if nobody has, and keeps EndInv.
LEMMA LeaveEnd ==
    ASSUME FlowTypes, QueueInv, EndInv, Leave
    PROVE  EndInv'
<1>1. /\ packer = "looks" /\ packer' = "waits" /\ lock' = Nobody /\ lock = "packetization" /\ coordinator # "terminates"
      /\ UNCHANGED <<video, shown, terminating, eos, coordinator>>
  BY DEF Leave, EndInv
<1>2. video.last \in Nat /\ shown \in Nat
  BY SettingsOK DEF EndInv
<1>3. CASE eos
  <2>1. stream' = Append(stream, Stream!EndOfStream)
    BY <1>3 DEF Leave, Post
  <2>2. ~Ended /\ coordinator # "runs" /\ shown = terminating + 1
    BY <1>1, <1>3 DEF EndInv
  <2>3. EndOnce'
    BY <2>1, <2>2, StreamEndsNow DEF QueueInv
  <2> QED BY <1>1, <1>2, <2>2, <2>3 DEF EndInv, EndOnce, Nobody
<1>4. CASE ~eos
  <2>1. stream' = stream
    BY <1>4 DEF Leave
  <2>2. (Ended' <=> Ended) /\ (EndOnce' <=> EndOnce)
    BY <2>1 DEF Ended, EndOnce, Stream!EndOfStream
  <2> QED BY <1>1, <2>2 DEF EndInv, EndOnce, Nobody
<1> QED BY <1>3, <1>4

\* Resource coordination ends the stream only if packetization will not.
LEMMA SignalEndEnd ==
    ASSUME FlowTypes, QueueInv, EndInv, SignalEnd
    PROVE  EndInv'
<1>1. /\ coordinator = "terminates" /\ coordinator' = "done" /\ lock' = Nobody /\ lock = "coordination"
      /\ packer \notin {"looks", "shows", "counts"} /\ ~Ended
      /\ UNCHANGED <<video, shown, terminating, eos, packer>>
  BY DEF SignalEnd, EndInv
<1>2. video.last \in Nat /\ shown \in Nat /\ terminating = video.last
  BY <1>1, SettingsOK DEF EndInv
<1>3. CASE shown = terminating + 1
  <2>1. stream' = Append(stream, Stream!EndOfStream)
    BY <1>3 DEF SignalEnd, Post
  <2>2. EndOnce'
    BY <1>1, <2>1, StreamEndsNow DEF QueueInv
  <2> QED BY <1>1, <1>2, <1>3, <2>2 DEF EndInv, EndOnce, Nobody
<1>4. CASE shown # terminating + 1
  <2>1. stream' = stream
    BY <1>4 DEF SignalEnd
  <2>2. (Ended' <=> Ended) /\ (EndOnce' <=> EndOnce)
    BY <2>1 DEF Ended, EndOnce, Stream!EndOfStream
  <2> QED BY <1>1, <1>2, <2>2 DEF EndInv, EndOnce, Nobody
<1> QED BY <1>3, <1>4

\* The steps that post nothing.
LEMMA QuietEnd ==
    ASSUME FlowTypes, EndInv, UNCHANGED <<video, stream, shown>>,
           \/ UNCHANGED <<lock, coordinator, eos, terminating, packer>>
           \/ packer = "waits" /\ packer' = "written" /\ UNCHANGED <<lock, coordinator, eos, terminating>>
           \/ Enter
           \/ TerminateSequence
    PROVE  EndInv'
<1>1. (Ended' <=> Ended) /\ (EndOnce' <=> EndOnce)
  BY DEF Ended, EndOnce, Stream!EndOfStream
<1>2. CASE UNCHANGED <<lock, coordinator, eos, terminating, packer>>
  BY <1>1, <1>2 DEF EndInv, EndOnce
<1>3. CASE packer = "waits" /\ packer' = "written" /\ UNCHANGED <<lock, coordinator, eos, terminating>>
  BY <1>1, <1>3 DEF EndInv, EndOnce
<1>4. CASE Enter
  BY <1>1, <1>4 DEF EndInv, EndOnce, Enter, LockIsFree, Nobody
<1>5. CASE TerminateSequence
  <2>1. video.last \in Nat /\ shown \in Nat
    BY SettingsOK DEF EndInv
  <2> QED BY <1>1, <1>5, <2>1 DEF EndInv, EndOnce, TerminateSequence, LockIsFree, Nobody
<1> QED BY <1>2, <1>3, <1>4, <1>5

-----------------------------------------------------------------------------
(* The order of the pictures.                                               *)

\* A picture starts when it has what it needs and in its turn.
LEMMA StartOrder ==
    ASSUME FlowTypes, OrderInv, NEW d \in Pictures, Start(d)
    PROVE  OrderInv'
<1>1. /\ d \in Pictures \ started /\ Pic(d).needs \subseteq packetized /\ InTurn(d)
      /\ Cardinality(started \ packetized) < video.children
      /\ started' = started \cup {d} /\ packetized' = packetized /\ video' = video
  BY DEF Start
<1>2. /\ packetized \subseteq started /\ started \subseteq Pictures
      /\ \A e \in Pictures : e \in Nat
      /\ {video.reach, video.children} \subseteq Nat \ {0}
  BY SettingsOK, PictureOK DEF FlowTypes
<1>3. ASSUME NEW e \in Pictures \ packetized
      PROVE  /\ video.inOrder => d <= e
             /\ video.children = 1 => d < e + video.reach
  <2>1. CASE video.inOrder
    <3>1. ~(e \in 0..(d - 1))
      BY <1>1, <1>3, <2>1 DEF InTurn
    <3>2. d <= e
      BY <1>1, <1>2, <3>1
    <3> QED BY <1>1, <1>2, <3>2
  <2>2. CASE ~video.inOrder /\ video.children = 1
    <3>1. started \ packetized = {}
      <4>1. IsFiniteSet(Pictures)
        <5>1. 0 \in Int /\ Len(video.pictures) - 1 \in Int
          BY SettingsOK
        <5> QED BY <5>1, FS_Interval, Zenon DEF Pictures
      <4>2. IsFiniteSet(started \ packetized)
        BY <1>2, <4>1, FS_Subset
      <4>3. Cardinality(started \ packetized) = 0
        BY <1>1, <2>2, <4>2, FS_CardinalityType
      <4> QED BY <4>2, <4>3, FS_EmptySet
    <3>2. e \in Pictures \ started
      BY <3>1
    <3> QED BY <1>1, <2>2, <3>2 DEF InTurn
  <2> QED BY <2>1, <2>2
<1>4. Pictures' = Pictures /\ \A e : Pic(e)' = Pic(e)
  BY <1>1 DEF Pictures, Pic
<1>5. NeedsInv'
  BY <1>1, <1>4 DEF OrderInv, NeedsInv
<1> QED BY <1>1, <1>3, <1>4, <1>5 DEF OrderInv

\* More pictures that are packetized leave fewer to be overtaken.
LEMMA OrderFrame ==
    ASSUME OrderInv, UNCHANGED <<video, started>>, packetized \subseteq packetized'
    PROVE  OrderInv'
<1>1. Pictures' = Pictures /\ \A e : Pic(e)' = Pic(e)
  BY DEF Pictures, Pic
<1> QED BY <1>1 DEF OrderInv, NeedsInv

-----------------------------------------------------------------------------
(* The invariant.                                                           *)

\* Nothing has started, the ring and the queues are empty.
LEMMA InitOK == Init => IInv
<1> SUFFICES ASSUME Init
             PROVE  IInv
  OBVIOUS
<1>1. IsVideo(video) /\ video \in Videos
  BY VideosAssumption DEF Init
<1>2. /\ video.cdefSegments \in Nat \ {0} /\ video.restSegments \in Nat \ {0} /\ video.tiles \in Nat \ {0}
      /\ Size \in Nat \ {0}
  BY <1>1 DEF IsVideo, Size
<1>3. FlowTypes
  BY <1>1, <1>2, NoParts DEF Init, InitFilters, FlowTypes
<1>4. PostedOnce
  BY DEF Init, InitFilters, PostedOnce
<1>5. ASSUME NEW d \in Pictures
      PROVE  FlowOf(d)
  <2>1. /\ ~InCdef(d) /\ ~InRestoration(d) /\ ~InTiles(d) /\ ~InResults(d) /\ d \notin deblocking
    <3>1. /\ cdef[d] = Nothing(video.cdefSegments) /\ restoration[d] = Nothing(video.restSegments)
          /\ tiles[d] = Nothing(video.tiles) /\ results = <<>> /\ deblocking = {}
      BY DEF Init, InitFilters
    <3>2. ~InCdef(d) /\ ~InRestoration(d) /\ ~InTiles(d)
      BY <3>1 DEF InCdef, InRestoration, InTiles, Nothing
    <3>3. ~InResults(d)
      BY <3>1 DEF InResults
    <3> QED BY <3>1, <3>2, <3>3
  <2>2. OnlyIn(d, "none")
    BY <2>1 DEF OnlyIn
  <2>3. /\ started = {} /\ cdefCount[d] = 0 /\ restCount[d] = 0 /\ held[d] = 0 /\ recodes[d] = 0
    BY DEF Init, InitFilters
  <2>4. Loops(d) \in Nat
    BY <1>3, PictureOK
  <2>5. LastAlone(tiles[d])
    <3>1. tiles[d] = Nothing(video.tiles) /\ video.tiles \in Nat
      BY <1>2 DEF Init, InitFilters
    <3> QED BY <3>1, NoParts
  <2> QED BY <1>2, <2>1, <2>2, <2>3, <2>4, <2>5 DEF FlowOf
<1>6. OrderInv
  BY DEF Init, OrderInv, NeedsInv
<1>7. /\ output = <<>> /\ taken = <<>> /\ undisplayed = <<>> /\ stream = <<>>
      /\ IsQueue(<<>>) /\ Len(<<>>) = 0
  BY DEF Init, IsQueue
<1>8. QueueInv
  BY <1>7 DEF QueueInv
<1>9. Sent(0)
  <2>1. 0 % Size = 0 /\ packetized = {} /\ unit = 0 /\ head = 0 /\ free = Buffers /\ Buffers = Size + 2
    <3>1. 0 % Size = 0
      BY <1>2, SMT
    <3>2. packetized = {} /\ unit = 0 /\ head = 0 /\ free = Buffers
      BY DEF Init
    <3>3. Buffers = Size + 2
      BY DEF Buffers, Size
    <3> QED BY <3>1, <3>2, <3>3
  <2>2. Cardinality(packetized) = 0
    BY <2>1, FS_EmptySet
  <2>3. \A i \in Slot : ring[i] = NoEntry
    BY DEF Init
  <2>4. 0..(0 + unit - 1) = {} /\ 0..(0 - 1) = {}
    BY <2>1
  <2>5. free + Len(output) + Len(taken) + Len(undisplayed) + (Cardinality(packetized) - 0 - unit) = Buffers
    BY <1>2, <1>7, <2>1, <2>2
  <2> QED BY <2>1, <2>3, <2>4, <2>5 DEF Sent
<1>10. FramesInNextUnit = 0
  <2>1. /\ FramesInNextUnit \in 0..Size
        /\ FramesInNextUnit > 0 => 0..(0 + FramesInNextUnit - 1) \subseteq packetized
    BY <1>3, <1>9, UnitOK
  <2>2. packetized = {}
    BY DEF Init
  <2> QED BY <1>2, <2>1, <2>2
<1>11. RingInv
  <2>1. Len(video.pictures) \in Nat /\ Buffers = Size + 2
    BY <1>3, SettingsOK
  <2>2. 0 \in 0..Len(video.pictures)
    BY <2>1
  <2> QED BY <1>2, <1>9, <1>10, <2>1, <2>2 DEF RingInv, Init
<1>12. EndInv
  <2>1. ~Ended /\ \A i \in DOMAIN stream : FALSE
    BY <1>7 DEF Ended
  <2>2. /\ lock = Nobody /\ packer = "waits" /\ coordinator = "runs"
        /\ shown = 0 /\ eos = FALSE /\ terminating = NoEnd
    BY DEF Init
  <2> QED BY <2>1, <2>2 DEF EndInv, Nobody
<1> QED BY <1>3, <1>4, <1>5, <1>6, <1>8, <1>11, <1>12 DEF IInv, FlowInv

\* Every step keeps it.
LEMMA NextOK ==
    ASSUME IInv, [Next]_vars
    PROVE  IInv'
<1>1. FlowInv /\ FlowTypes /\ OrderInv /\ QueueInv /\ RingInv /\ EndInv
  BY DEF IInv, FlowInv
<1>2. ASSUME NEW d \in Pictures, Start(d)
      PROVE  IInv'
  <2>1. UNCHANGED <<video, packetized, ring, head, undisplayed, unit, endVars, packer, free, output, taken, stream>>
    BY <1>2 DEF Start, ringVars, appVars
  <2> QED BY <1>1, <1>2, <2>1, StartFlow, StartOrder, RingFrame, QuietEnd DEF IInv, endVars
<1>3. ASSUME NEW d \in Pictures, FilterPicture(d)
      PROVE  IInv'
  <2>1. /\ UNCHANGED <<video, started, packetized, recodes>>
        /\ UNCHANGED <<ring, head, undisplayed, unit, endVars, packer, free, output, taken, stream>>
        /\ Filter(d)
    BY <1>3 DEF FilterPicture, ringVars, appVars
  <2> QED BY <1>1, <2>1, FilterOK, OrderFrame, RingFrame, QuietEnd DEF IInv, endVars
<1>4. ASSUME NEW d \in Pictures, Recode(d)
      PROVE  IInv'
  <2>1. UNCHANGED <<video, started, packetized, ring, head, undisplayed, unit, endVars, packer, free, output, taken, stream>>
    BY <1>4 DEF Recode, ringVars, appVars
  <2> QED BY <1>1, <1>4, <2>1, RecodeFlow, OrderFrame, RingFrame, QuietEnd DEF IInv, endVars
<1>5. ASSUME NEW d \in Pictures, Write(d)
      PROVE  IInv'
  <2>1. FlowInv' /\ d \in started \ packetized
    BY <1>1, <1>5, WriteFlow
  <2>2. /\ UNCHANGED <<video, started, endVars, stream>> /\ packetized \subseteq packetized'
        /\ packer = "waits" /\ packer' = "written"
    BY <1>5 DEF Write, Arrives
  <2>3. QueueInv' /\ RingInv'
    BY <1>1, <1>5, <2>1, WriteRing
  <2> QED BY <1>1, <2>1, <2>2, <2>3, OrderFrame, QuietEnd DEF IInv, endVars
<1>6. CASE Enter
  <2>1. UNCHANGED <<video, filterVars, started, recodes, packetized, stream, shown>>
    BY <1>6 DEF Enter
  <2> QED BY <1>1, <1>6, <2>1, FlowUnchanged, OrderFrame, EnterRing, QuietEnd DEF IInv
<1>7. CASE SendUnit
  <2>1. UNCHANGED <<video, filterVars, started, recodes, packetized>>
    BY <1>7 DEF SendUnit
  <2> QED BY <1>1, <1>7, <2>1, FlowUnchanged, OrderFrame, SendUnitRing, SendUnitEnd DEF IInv
<1>8. CASE ShowExisting
  <2>1. UNCHANGED <<video, filterVars, started, recodes, packetized>>
    BY <1>8 DEF ShowExisting
  <2> QED BY <1>1, <1>8, <2>1, FlowUnchanged, OrderFrame, ShowExistingRing, ShowExistingEnd DEF IInv
<1>9. CASE CountShown
  <2>1. UNCHANGED <<video, filterVars, started, recodes, packetized>>
    BY <1>9 DEF CountShown
  <2> QED BY <1>1, <1>9, <2>1, FlowUnchanged, OrderFrame, CountShownRing, CountShownEnd DEF IInv
<1>10. CASE Leave
  <2>1. UNCHANGED <<video, filterVars, started, recodes, packetized>>
    BY <1>10 DEF Leave
  <2> QED BY <1>1, <1>10, <2>1, FlowUnchanged, OrderFrame, LeaveRing, LeaveEnd DEF IInv
<1>11. CASE TerminateSequence
  <2>1. /\ UNCHANGED <<video, filterVars, started, recodes, packetized>>
        /\ UNCHANGED <<ring, head, undisplayed, unit, packer, free, output, taken, stream, shown>>
    BY <1>11 DEF TerminateSequence, ringVars, appVars
  <2> QED BY <1>1, <1>11, <2>1, FlowUnchanged, OrderFrame, RingFrame, QuietEnd DEF IInv
<1>12. CASE SignalEnd
  <2>1. UNCHANGED <<video, filterVars, started, recodes, packetized>>
    BY <1>12 DEF SignalEnd
  <2> QED BY <1>1, <1>12, <2>1, FlowUnchanged, OrderFrame, SignalEndRing, SignalEndEnd DEF IInv
<1>13. CASE GetPacket
  <2>1. UNCHANGED <<video, filterVars, started, recodes, packetized, endVars, packer, stream>>
    BY <1>13 DEF GetPacket
  <2> QED BY <1>1, <1>13, <2>1, FlowUnchanged, OrderFrame, GetPacketRing, QuietEnd DEF IInv, endVars
<1>14. CASE ReleaseOutBuffer
  <2>1. UNCHANGED <<video, filterVars, started, recodes, packetized, endVars, packer, stream>>
    BY <1>14 DEF ReleaseOutBuffer
  <2> QED BY <1>1, <1>14, <2>1, FlowUnchanged, OrderFrame, ReleaseRing, QuietEnd DEF IInv, endVars
<1>15. CASE UNCHANGED vars
  <2>1. /\ UNCHANGED <<video, filterVars, started, recodes, packetized>>
        /\ UNCHANGED <<ring, head, undisplayed, unit, endVars, packer, free, output, taken, stream>>
    BY <1>15 DEF vars, ringVars, appVars
  <2> QED BY <1>1, <2>1, FlowUnchanged, OrderFrame, RingFrame, QuietEnd DEF IInv, endVars
<1> QED BY <1>2, <1>3, <1>4, <1>5, <1>6, <1>7, <1>8, <1>9, <1>10, <1>11, <1>12, <1>13, <1>14, <1>15
        DEF Next, Packetize, Coordinate, Application

\* The filters do not look at the ring: what they keep, they keep whatever order
\* the pictures are packetized in.
LEMMA FlowNext ==
    ASSUME FlowInv, [Next]_vars
    PROVE  FlowInv'
<1>1. ASSUME NEW d \in Pictures, Start(d)
      PROVE  FlowInv'
  BY <1>1, StartFlow
<1>2. ASSUME NEW d \in Pictures, FilterPicture(d)
      PROVE  FlowInv'
  <2>1. UNCHANGED <<video, started, packetized, recodes>> /\ Filter(d)
    BY <1>2 DEF FilterPicture
  <2> QED BY <2>1, FilterOK
<1>3. ASSUME NEW d \in Pictures, Recode(d)
      PROVE  FlowInv'
  BY <1>3, RecodeFlow
<1>4. ASSUME NEW d \in Pictures, Write(d)
      PROVE  FlowInv'
  BY <1>4, WriteFlow
<1>5. CASE Enter \/ SendUnit \/ ShowExisting \/ CountShown \/ Leave
  <2>1. UNCHANGED <<video, filterVars, started, recodes, packetized>>
    BY <1>5 DEF Enter, SendUnit, ShowExisting, CountShown, Leave
  <2> QED BY <2>1, FlowUnchanged
<1>6. CASE TerminateSequence \/ SignalEnd \/ GetPacket \/ ReleaseOutBuffer
  <2>1. UNCHANGED <<video, filterVars, started, recodes, packetized>>
    BY <1>6 DEF TerminateSequence, SignalEnd, GetPacket, ReleaseOutBuffer
  <2> QED BY <2>1, FlowUnchanged
<1>7. CASE UNCHANGED vars
  <2>1. UNCHANGED <<video, filterVars, started, recodes, packetized>>
    BY <1>7 DEF vars
  <2> QED BY <2>1, FlowUnchanged
<1> QED BY <1>1, <1>2, <1>3, <1>4, <1>5, <1>6, <1>7 DEF Next, Packetize, Coordinate, Application

-----------------------------------------------------------------------------
(* What follows.                                                            *)

\* Where the parts of each picture are, for every sequence whatever: this does not
\* rest on RingAssumption.
THEOREM FlowInvariance == Spec => []FlowInv
<1>1. Init => FlowInv
  BY InitOK DEF IInv
<1>2. FlowInv /\ [Next]_vars => FlowInv'
  BY FlowNext
<1> QED BY <1>1, <1>2, PTL DEF Spec

\* Which pictures wait in the ring, who holds each output buffer and who ends the
\* stream (packetization_process.c:81-115, 299-343 and 580-936, resource_
\* coordination_process.c:925-959): this holds in every state of the sequences that
\* RingAssumption admits, those whose pictures cannot overtake each other by a
\* round of the ring (InOrderIsLarge: whatever is coded in decode order).
THEOREM Invariance == Spec => []IInv
<1>1. Init => IInv
  BY InitOK
<1>2. IInv /\ [Next]_vars => IInv'
  BY NextOK
<1> QED BY <1>1, <1>2, PTL DEF Spec

\* Every variable stays in its range; in particular the buffers of the output
\* stream are never more nor less than were allocated (packetization_process.c:
\* 580-886 and 299-343, svt_av1_enc_release_out_buffer).
THEOREM Types == Spec => []TypeOK
<1>1. IInv => TypeOK
  <2> SUFFICES ASSUME IInv
               PROVE  TypeOK
    OBVIOUS
  <2>1. FlowTypes /\ QueueInv /\ RingInv /\ EndInv /\ \A d \in Pictures : FlowOf(d)
    BY DEF IInv, FlowInv
  <2>2. PICK h \in 0..Len(video.pictures) : Sent(h)
    BY <2>1 DEF RingInv
  <2>3. h \in Nat /\ Size \in Nat \ {0} /\ video.last \in Nat /\ Buffers = Size + 2
    BY <2>1, <2>2, SettingsOK
  <2>4. FiltersTypeOK
    <3>1. \A d \in Pictures :
             /\ cdef[d] \in [1..video.cdefSegments -> PartStates]
             /\ restoration[d] \in [1..video.restSegments -> PartStates]
             /\ tiles[d] \in [1..video.tiles -> PartStates]
             /\ tileDone[d] \subseteq 1..video.tiles
      BY <2>1 DEF FlowTypes
    <3>2. \A d \in Pictures : cdefCount[d] \in 0..video.cdefSegments /\ restCount[d] \in 0..video.restSegments
      BY <2>1, SettingsOK DEF FlowTypes, FlowOf
    <3>3. \A i \in DOMAIN results : results[i] \in Pictures
      BY <2>1 DEF FlowTypes
    <3> QED BY <2>1, <3>1, <3>2, <3>3 DEF FiltersTypeOK, FlowTypes
  <2>5. \A d \in Pictures : recodes[d] \in 0..Loops(d)
    BY <2>1, PictureOK DEF FlowTypes, FlowOf
  <2>6. \A i \in Slot : ring[i] # NoEntry => SlotOf(ring[i].pic) = i
    BY <2>2 DEF Sent
  <2>7. head \in Slot
    BY <2>2, <2>3, Remainder DEF Sent, Slot
  <2>8. free \in 0..Buffers
    <3>1. Cardinality(packetized) - h - unit \in Nat
      <4>1. 0..(h + unit - 1) \subseteq packetized /\ unit \in Nat
        <5>1. 0..(h - 1) \subseteq packetized /\ h..(h + unit - 1) \subseteq packetized
          BY <2>2 DEF Sent
        <5> QED BY <2>1, <2>3, <5>1 DEF RingInv
      <4> DEFINE b == h + unit - 1
      <4>2. 0 \in Int /\ b \in Int
        BY <2>3, <4>1
      <4>3. Cardinality(0..b) = h + unit
        <5>1. Cardinality(0..b) = IF 0 > b THEN 0 ELSE b - 0 + 1
          <6> HIDE DEF b
          <6> QED BY <4>2, FS_Interval, Zenon
        <5> QED BY <2>3, <4>1, <5>1
      <4>4. IsFiniteSet(packetized) /\ Cardinality(packetized) \in Nat
        BY <2>1, PacketizedFinite
      <4>5. Cardinality(0..b) <= Cardinality(packetized)
        BY <4>1, <4>4, FS_Subset
      <4> HIDE DEF b
      <4> QED BY <2>3, <4>1, <4>3, <4>4, <4>5
    <3>2. free \in Nat /\ Len(output) \in Nat /\ Len(taken) \in Nat /\ Len(undisplayed) \in Nat
      BY <2>1 DEF RingInv, QueueInv, IsQueue
    <3>3. free + Len(output) + Len(taken) + Len(undisplayed) + (Cardinality(packetized) - h - unit) = Buffers
      BY <2>2 DEF Sent
    <3> QED BY <2>3, <3>1, <3>2, <3>3
  <2>9. terminating \in {NoEnd, video.last}
    BY <2>1 DEF EndInv
  <2> QED BY <2>1, <2>4, <2>5, <2>6, <2>7, <2>8, <2>9 DEF TypeOK, FlowTypes, RingInv, EndInv
<1> QED BY <1>1, Invariance, PTL

\* The stages of a picture, as the model lists them.
LEMMA StagesOK ==
    ASSUME FlowTypes, NEW d \in Pictures, FlowOf(d)
    PROVE  /\ Cardinality(StagesOf(d)) <= 1
           /\ d \in started \ packetized => (StagesOf(d) = {"results"} <=> InResults(d))
<1>1. /\ DOMAIN cdef[d] = 1..video.cdefSegments
      /\ DOMAIN restoration[d] = 1..video.restSegments
      /\ DOMAIN tiles[d] = 1..video.tiles
  BY DEF FlowTypes
<1>2. /\ InParts(cdef, d) <=> InCdef(d)
      /\ InParts(restoration, d) <=> InRestoration(d)
      /\ InParts(tiles, d) <=> InTiles(d)
  BY <1>1 DEF InParts, InCdef, InRestoration, InTiles
<1>3. /\ StagesOf(d) \subseteq Stages
      /\ "deblocking" \in StagesOf(d) <=> d \in deblocking
      /\ "cdef" \in StagesOf(d) <=> InCdef(d)
      /\ "restoration" \in StagesOf(d) <=> InRestoration(d)
      /\ "tiles" \in StagesOf(d) <=> InTiles(d)
      /\ "results" \in StagesOf(d) <=> InResults(d)
  BY <1>2 DEF StagesOf, InResults, Stages
<1>4. CASE d \in started \ packetized
  <2>1. PICK stage \in Stages : OnlyIn(d, stage)
    BY <1>4 DEF FlowOf
  <2>2. \A x \in Stages : x \in StagesOf(d) <=> x = stage
    BY <1>3, <2>1 DEF OnlyIn, Stages
  <2>3. StagesOf(d) = {stage}
    BY <1>3, <2>2
  <2>4. Cardinality({stage}) = 1
    BY FS_Singleton
  <2>5. StagesOf(d) = {"results"} <=> InResults(d)
    BY <2>1, <2>3 DEF OnlyIn
  <2> QED BY <2>3, <2>4, <2>5
<1>5. CASE d \notin started \ packetized
  <2>1. OnlyIn(d, "none")
    BY <1>5 DEF FlowOf
  <2>2. StagesOf(d) = {}
    BY <1>3, <2>1 DEF OnlyIn, Stages
  <2> QED BY <1>5, <2>2, FS_EmptySet
<1> QED BY <1>4, <1>5

\* Whichever workers finish its segments and tiles, a picture is in one stage at
\* a time, is posted to packetization once, and holds its references once until
\* its last pass is over (dlf_process.c, cdef_process.c:678-773,
\* rest_process.c:321-488, ec_process.c:222-276).
THEOREM OneStage == Spec => []OneStageAtATime
<1>1. FlowInv => OneStageAtATime
  <2> SUFFICES ASSUME FlowInv, NEW d \in Pictures
               PROVE  /\ Cardinality(StagesOf(d)) <= 1
                      /\ Cardinality({i \in DOMAIN results : results[i] = d}) <= 1
                      /\ held[d] = IF d \in started \ packetized /\ (Loops(d) > 0 \/ StagesOf(d) # {"results"}) THEN 1 ELSE 0
    BY DEF OneStageAtATime
  <2>1. FlowTypes /\ FlowOf(d) /\ PostedOnce
    BY DEF FlowInv
  <2>2. Cardinality(StagesOf(d)) <= 1 /\ (d \in started \ packetized => (StagesOf(d) = {"results"} <=> InResults(d)))
    BY <2>1, StagesOK
  <2>3. Cardinality({i \in DOMAIN results : results[i] = d}) <= 1
    <3> DEFINE S == {i \in DOMAIN results : results[i] = d}
    <3>1. CASE S = {}
      BY <3>1, FS_EmptySet
    <3>2. CASE S # {}
      <4>1. PICK i \in S : TRUE
        BY <3>2
      <4>2. S = {i}
        BY <2>1, <4>1 DEF PostedOnce
      <4>3. Cardinality({i}) = 1
        BY FS_Singleton
      <4>4. Cardinality(S) = 1
        BY <4>2, <4>3
      <4> QED BY <4>4
    <3> QED BY <3>1, <3>2
  <2>4. held[d] = IF d \in started \ packetized /\ (Loops(d) > 0 \/ StagesOf(d) # {"results"}) THEN 1 ELSE 0
    BY <2>1, <2>2 DEF FlowOf
  <2> QED BY <2>2, <2>3, <2>4
<1> QED BY <1>1, FlowInvariance, PTL

\* The entry of the ring that a picture takes is empty: svt_aom_packetization_
\* kernel_iter writes it without looking (packetization_process.c:668-672), and a
\* picture that is not sent yet is never lost.
EntryIsEmpty == \A d \in Pictures : Write(d) => ring[SlotOf(d)] = NoEntry

\* No packet is overwritten and no output buffer lost, in a sequence whose pictures
\* cannot overtake each other by a round of the ring (RingAssumption: those that
\* are coded in decode order or one at a time, and short ones; the run BE_ring
\* shows that others lose entries).
THEOREM NothingOverwritten == Spec => [][EntryIsEmpty]_vars
<1>1. IInv /\ [Next]_vars => [EntryIsEmpty]_vars
  <2> SUFFICES ASSUME IInv, NEW d \in Pictures, Write(d)
               PROVE  ring[SlotOf(d)] = NoEntry
    BY DEF EntryIsEmpty
  <2>1. FlowInv /\ FlowTypes /\ OrderInv /\ QueueInv /\ RingInv
    BY DEF IInv, FlowInv
  <2>2. d \in started \ packetized
    BY <2>1, WriteFlow
  <2> QED BY <2>1, <2>2, WriteRing
<1> QED BY <1>1, Invariance, PTL DEF Spec

\* Packetization takes the entry at the head without comparing its picture with
\* the one it waits for (packetization_process.c:81-115): what it sends is the next
\* one in decode order, because no other picture can be in its place.
THEOREM InDecodeOrder == Spec => []BitstreamInDecodeOrder
<1>1. IInv => BitstreamInDecodeOrder
  <2> SUFFICES ASSUME IInv, NEW i \in 0..(unit - 1)
               PROVE  0..(Entry(i).pic - 1) \subseteq packetized
    BY DEF BitstreamInDecodeOrder
  <2>1. FlowTypes /\ RingInv
    BY DEF IInv, FlowInv
  <2>2. PICK h \in 0..Len(video.pictures) : Sent(h)
    BY <2>1 DEF RingInv
  <2>3. h \in Nat /\ unit \in Nat /\ i \in Nat /\ i < unit
    BY <2>1, <2>2, SettingsOK DEF RingInv
  <2>4. 0..(h - 1) \subseteq packetized /\ h..(h + unit - 1) \subseteq packetized
    BY <2>2 DEF Sent
  <2>5. h + i \in packetized /\ h + i \in h..(h + unit - 1)
    BY <2>3, <2>4
  <2>6. Entry(i).pic = h + i
    <3>1. i \in 0..(Size - 1)
      BY <2>1, <2>3, SettingsOK DEF RingInv
    <3> QED BY <2>1, <2>2, <2>3, <2>5, <3>1, EntryOK
  <2>7. ASSUME NEW j \in 0..(h + i - 1)
        PROVE  j \in packetized
    <3>1. j \in 0..(h - 1) \/ j \in h..(h + unit - 1)
      BY <2>3, <2>7
    <3> QED BY <2>4, <3>1
  <2> QED BY <2>6, <2>7
<1> QED BY <1>1, Invariance, PTL

\* Two threads may find that all pictures are shown, packetization and resource
\* coordination (packetization_process.c:924-934, resource_coordination_process.
\* c:932-959); the end of the stream is posted by one of them, once.
THEOREM EndsOnce == Spec => []EndOnce
<1>1. IInv => EndOnce
  BY DEF IInv, EndInv, EndOnce
<1> QED BY <1>1, Invariance, PTL

-----------------------------------------------------------------------------
(* What is posted: the inductive invariant.                                 *)

\* The packets of pictures posted so far, and the one that the header after the
\* picture just sent still has to show.
ShownPackets == IF Ended THEN Len(stream) - 1 ELSE Len(stream)
Owed         == IF packer = "shows" THEN 1 ELSE 0

\* The metadata that the packet of a picture number carries.
Tag(n) == IF n \in video.tagged THEN n ELSE None

\* What is posted is the beginning of what is promised; the end comes after all.
PrefixInv ==
    /\ ShownPackets \in 0..(video.last + 1)
    /\ \A i \in 1..ShownPackets : stream[i] = Packet(i - 1, i - 1, Tag(i - 1))
    /\ Ended => ShownPackets = video.last + 1 /\ stream[Len(stream)] = Stream!EndOfStream

\* The hidden pictures among the first n that are still to be shown.
ToShow(n) == {d \in 0..(n - 1) : Waits(Pic(d)) /\ Pic(d).number >= ShownPackets}

\* Their buffers are kept, the latest first.
Descends(q) == \A i, j \in DOMAIN q : i < j => q[i] > q[j]
KeptInv(n)  == Descends(undisplayed) /\ Range(undisplayed) = {Pic(d).number : d \in ToShow(n)}

\* The pictures counted as shown are those displayed, but for the unit being sent.
CountInv(n) ==
    /\ DisplayedBefore(video.pictures, n + 1) = 0..(ShownPackets + Owed - 1)
    /\ unit = 0 => shown = ShownPackets
    /\ unit > 0 => /\ Pic(n - 1).show /\ (packer = "shows" => Pic(n - 1).existing)
                   /\ shown + NewlyShown(n - 1) = ShownPackets + Owed

\* The entries of the ring carry the metadata of the packets they will become.
EntriesInv(h) ==
    \A d \in packetized : d >= h =>
        /\ Pic(d).show => ring[SlotOf(d)].metadata = Tag(Pic(d).number)
        /\ Pic(d).existing => ring[SlotOf(d)].next = Tag(Pic(d).number + 1)

\* A hidden picture's metadata stays where it was left until it is shown, and no
\* two that wait left theirs in the same place.
MetadataInv ==
    /\ DOMAIN metadata = Slot
    /\ \A d \in packetized, s \in Pictures \ packetized :
          Waits(Pic(d)) /\ Shows(video.pictures, s + 1, d + 1) =>
              metadata[SlotOf(Pic(d).number)] = Tag(Pic(d).number)
    /\ \A c, e \in packetized, s, t \in Pictures \ packetized :
          /\ c # e /\ Waits(Pic(c)) /\ Shows(video.pictures, s + 1, c + 1)
          /\ Waits(Pic(e)) /\ Shows(video.pictures, t + 1, e + 1)
          => SlotOf(Pic(c).number) # SlotOf(Pic(e).number)

\* What holds once the units of the first h pictures have left.
StreamAt(h) == CountInv(h + unit) /\ KeptInv(h + unit) /\ EntriesInv(h)

\* What holds of the stream.
StreamInv ==
    /\ NeedsInv /\ PrefixInv /\ MetadataInv
    /\ \E h \in 0..Len(video.pictures) : Sent(h) /\ StreamAt(h)

-----------------------------------------------------------------------------
(* The order of display.                                                    *)

\* The numbers displayed by the pictures before d.
DisplayedUpto(d) == DisplayedBefore(video.pictures, d + 1)

\* What is assumed of one picture, with the pictures named by decode order.
LEMMA OrderOK ==
    ASSUME FlowTypes, NEW d \in Pictures
    PROVE  /\ Pic(d).show => DisplayedUpto(d) = 0..(Pic(d).number - 1)
           /\ Displayed(Pic(d)) # {} => Displayed(Pic(d)) \subseteq 0..video.last
           /\ Waits(Pic(d)) => \E s \in Pictures : s > d /\ Pic(s).existing /\ Pic(s).number + 1 = Pic(d).number
           /\ Pic(d).existing => /\ Pic(d).show
                                 /\ \E e \in Pic(d).needs : e \in Pictures /\ Waits(Pic(e)) /\ Pic(e).number = Pic(d).number + 1
           /\ \A e \in Pictures : e # d /\ Waits(Pic(d)) /\ Waits(Pic(e)) => Pic(d).number # Pic(e).number
<1> DEFINE g == video.pictures
           i == d + 1
<1>1. IsVideo(video) /\ Len(g) \in Nat /\ DOMAIN g = 1..Len(g)
  BY VideosAssumption DEF FlowTypes, IsVideo
<1>2. i \in DOMAIN g /\ Pic(d) = g[i] /\ d \in Nat
  BY PictureOK
<1>3. /\ g[i].show => DisplayedBefore(g, i) = 0..(g[i].number - 1) /\ Displayed(g[i]) \subseteq 0..video.last
      /\ Waits(g[i]) => \E s \in (i + 1)..Len(g) : Shows(g, s, i)
      /\ g[i].existing => \E e \in g[i].needs : Waits(g[e + 1]) /\ Shows(g, i, e + 1)
      /\ \A j \in DOMAIN g : i # j /\ Waits(g[i]) /\ Waits(g[j]) => g[i].number # g[j].number
      /\ IsPicture(g[i]) /\ g[i].needs \subseteq 0..(i - 2)
  BY <1>1, <1>2, Zenon DEF IsVideo, InDisplayOrder
<1>4. ASSUME Waits(Pic(d))
      PROVE  \E s \in Pictures : s > d /\ Pic(s).existing /\ Pic(s).number + 1 = Pic(d).number
  <2>1. PICK s \in (i + 1)..Len(g) : Shows(g, s, i)
    BY <1>2, <1>3, <1>4
  <2>2. s - 1 \in Pictures /\ s - 1 > d /\ Pic(s - 1) = g[s]
    BY <1>1, <1>2, <2>1 DEF Pictures, Pic
  <2> QED BY <1>2, <2>1, <2>2 DEF Shows
<1>5. ASSUME Pic(d).existing
      PROVE  Pic(d).show /\ \E e \in Pic(d).needs : e \in Pictures /\ Waits(Pic(e)) /\ Pic(e).number = Pic(d).number + 1
  <2>1. PICK e \in g[i].needs : Waits(g[e + 1]) /\ Shows(g, i, e + 1)
    BY <1>2, <1>3, <1>5
  <2>2. e \in 0..(d - 1) /\ d \in 0..(Len(g) - 1)
    BY <1>2, <1>3, <2>1 DEF Pictures
  <2>3. e \in Pictures /\ Pic(e) = g[e + 1]
    BY <1>1, <2>2 DEF Pictures, Pic
  <2> QED BY <1>2, <1>3, <1>5, <2>1, <2>3 DEF Shows, IsPicture
<1>6. \A e \in Pictures : e # d => e + 1 \in DOMAIN g /\ e + 1 # i /\ Pic(e) = g[e + 1]
  BY <1>2, PictureOK
<1>7. Displayed(Pic(d)) # {} => Pic(d).show
  BY DEF Displayed
<1> HIDE DEF g, i
<1> QED BY <1>2, <1>3, <1>4, <1>5, <1>6, <1>7 DEF DisplayedUpto, g, i

\* One picture more.
LEMMA DisplayStep ==
    ASSUME FlowTypes, NEW d \in Pictures
    PROVE  DisplayedUpto(d + 1) = DisplayedUpto(d) \cup Displayed(Pic(d))
<1>1. d \in Nat
  BY PictureOK
<1>2. 1..((d + 1 + 1) - 1) = 1..((d + 1) - 1) \cup {d + 1}
  BY <1>1
<1> QED BY <1>2, Zenon DEF DisplayedUpto, DisplayedBefore, Pic

\* What a picture displays is displayed before any later one.
LEMMA DisplayLater ==
    ASSUME FlowTypes, NEW d \in Pictures, NEW e \in Nat, d < e
    PROVE  Displayed(Pic(d)) \subseteq DisplayedUpto(e)
<1>1. d \in Nat
  BY PictureOK
<1>2. d + 1 \in 1..((e + 1) - 1)
  BY <1>1
<1> QED BY <1>2 DEF DisplayedUpto, DisplayedBefore, Pic

\* Hidden pictures display nothing.
LEMMA DisplayHidden ==
    ASSUME FlowTypes, NEW h \in Nat, NEW e \in Nat, h <= e, \A d \in h..(e - 1) : ~Pic(d).show
    PROVE  DisplayedUpto(e) = DisplayedUpto(h)
<1>1. \A j \in 1..e : j \in 1..h \/ Displayed(video.pictures[j]) = {}
  <2> TAKE j \in 1..e
  <2>1. CASE j > h
    <3>1. j - 1 \in h..(e - 1) /\ (j - 1) + 1 = j
      BY <2>1
    <3>2. ~Pic(j - 1).show
      BY <3>1
    <3> QED BY <3>1, <3>2 DEF Pic, Displayed
  <2> QED BY <2>1
<1>2. 1..h \subseteq 1..e /\ (e + 1) - 1 = e /\ (h + 1) - 1 = h
  OBVIOUS
<1> QED BY <1>1, <1>2 DEF DisplayedUpto, DisplayedBefore

\* Shown pictures are displayed in decode order, each after what the earlier
\* ones display.
LEMMA ShownOrder ==
    ASSUME FlowTypes, NEW d \in Pictures, NEW e \in Pictures, Pic(d).show, Pic(e).show, d < e
    PROVE  Pic(d).number < Pic(e).number /\ (Pic(d).existing => Pic(d).number + 1 < Pic(e).number)
<1>1. Displayed(Pic(d)) \subseteq DisplayedUpto(e)
  BY PictureOK, DisplayLater
<1>2. DisplayedUpto(e) = 0..(Pic(e).number - 1) /\ Pic(d).number \in Nat /\ Pic(e).number \in Nat
  BY OrderOK, PictureOK
<1> QED BY <1>1, <1>2 DEF Displayed

\* A hidden picture is displayed after the shown ones that come before the one
\* whose header shows it, and never by its own number.
LEMMA HiddenOrder ==
    ASSUME FlowTypes, NEW d \in Pictures, Waits(Pic(d)), NEW e \in Pictures, Pic(e).show
    PROVE  /\ Pic(d).number # Pic(e).number
           /\ d < e /\ (\A k \in d..(e - 1) : ~Pic(k).show) => Pic(d).number > Pic(e).number
<1>1. PICK s \in Pictures : s > d /\ Pic(s).existing /\ Pic(s).number + 1 = Pic(d).number
  BY OrderOK
<1>2. Pic(s).show /\ s \in Nat /\ e \in Nat /\ d \in Nat /\ Pic(s).number \in Nat /\ Pic(e).number \in Nat
  BY <1>1, OrderOK, PictureOK
<1>3. /\ s < e => Pic(s).number + 1 < Pic(e).number
      /\ e < s => Pic(e).number < Pic(s).number
  BY <1>1, <1>2, ShownOrder
<1>4. ASSUME d < e, \A k \in d..(e - 1) : ~Pic(k).show
      PROVE  ~(s < e)
  BY <1>1, <1>2, <1>4
<1> QED BY <1>1, <1>2, <1>3, <1>4

\* A hidden picture is shown by one header.
LEMMA ShownByOne ==
    ASSUME FlowTypes, NEW s \in Pictures, NEW t \in Pictures, Pic(s).show, Pic(t).show, Pic(s).number = Pic(t).number
    PROVE  s = t
<1>1. s \in Nat /\ t \in Nat /\ Pic(s).number \in Nat
  BY PictureOK
<1> QED BY <1>1, ShownOrder

-----------------------------------------------------------------------------
(* The buffers that are kept.                                               *)

\* The positions before i in a descending order, and how many they are.
Ahead(q, i) == {j \in DOMAIN q : q[j] > q[i] \/ (q[j] = q[i] /\ j < i)}
Rank(q, i)  == Cardinality(Ahead(q, i))

\* Each position has a rank of its own, and each rank is some position's.
LEMMA RankOK ==
    ASSUME NEW q, IsQueue(q), \A i \in DOMAIN q : q[i] \in Nat, \A i, j \in DOMAIN q : q[i] = q[j] => i = j
    PROVE  /\ \A i \in DOMAIN q : Rank(q, i) \in 0..(Len(q) - 1)
           /\ \A i, j \in DOMAIN q : q[i] > q[j] => Rank(q, i) < Rank(q, j)
           /\ \A n \in 1..Len(q) : \E i \in DOMAIN q : Rank(q, i) = n - 1
<1> DEFINE N == Len(q)
<1>1. N \in Nat /\ DOMAIN q = 1..N
  BY QueueIsSeq DEF IsQueue
<1> HIDE DEF N
<1>2. IsFiniteSet(1..N) /\ Cardinality(1..N) = N
  BY <1>1, FS_Interval
<1>3. ASSUME NEW i \in 1..N
      PROVE  /\ IsFiniteSet(Ahead(q, i)) /\ Rank(q, i) \in Nat
             /\ Rank(q, i) <= N - 1
  <2>1. Ahead(q, i) \subseteq (1..N) \ {i}
    BY <1>1 DEF Ahead
  <2>2. IsFiniteSet((1..N) \ {i}) /\ Cardinality((1..N) \ {i}) = N - 1
    BY <1>2, FS_RemoveElement
  <2>3. IsFiniteSet(Ahead(q, i)) /\ Cardinality(Ahead(q, i)) <= N - 1
    BY <2>1, <2>2, FS_Subset
  <2>4. Cardinality(Ahead(q, i)) \in Nat
    BY <2>3, FS_CardinalityType
  <2> QED BY <2>3, <2>4 DEF Rank
<1>4. ASSUME NEW i \in 1..N, NEW j \in 1..N, q[i] > q[j]
      PROVE  Rank(q, i) < Rank(q, j)
  <2>1. q[i] \in Nat /\ q[j] \in Nat
    BY <1>1
  <2>2. Ahead(q, i) \cup {i} \subseteq Ahead(q, j) /\ i \notin Ahead(q, i)
    BY <1>1, <1>4, <2>1 DEF Ahead
  <2>3. IsFiniteSet(Ahead(q, j)) /\ IsFiniteSet(Ahead(q, i)) /\ Rank(q, i) \in Nat /\ Rank(q, j) \in Nat
    BY <1>3
  <2>4. Cardinality(Ahead(q, i) \cup {i}) = Cardinality(Ahead(q, i)) + 1
    BY <2>2, <2>3, FS_AddElement
  <2>5. Cardinality(Ahead(q, i) \cup {i}) <= Cardinality(Ahead(q, j))
    BY <2>2, <2>3, FS_Subset
  <2> QED BY <2>3, <2>4, <2>5 DEF Rank
<1>5. ASSUME NEW i \in 1..N, NEW j \in 1..N, Rank(q, i) = Rank(q, j)
      PROVE  i = j
  <2>1. q[i] \in Nat /\ q[j] \in Nat /\ Rank(q, i) \in Nat /\ Rank(q, j) \in Nat
    BY <1>1, <1>3
  <2>2. q[i] = q[j]
    BY <1>4, <1>5, <2>1
  <2> QED BY <1>1, <2>2
<1>6. ASSUME NEW n \in 1..N
      PROVE  \E i \in 1..N : Rank(q, i) = n - 1
  <2> DEFINE f == [i \in 1..N |-> Rank(q, i)]
             T == 0..(N - 1)
  <2>1. f \in [1..N -> T] /\ \A i, j \in 1..N : f[i] = f[j] => i = j
    <3>1. \A i \in 1..N : Rank(q, i) \in T
      BY <1>1, <1>3
    <3> QED BY <1>5, <3>1
  <2>2. IsFiniteSet(T) /\ Cardinality(T) = N
    <3> DEFINE b == N - 1
    <3>1. 0 \in Int /\ b \in Int
      BY <1>1
    <3>2. IsFiniteSet(0..b) /\ Cardinality(0..b) = IF 0 > b THEN 0 ELSE b - 0 + 1
      <4> HIDE DEF b
      <4> QED BY <3>1, FS_Interval, Zenon
    <3> QED BY <1>1, <3>2
  <2> HIDE DEF f, T
  <2>3. f \in Injection(1..N, T)
    BY <2>1 DEF Injection, IsInjective
  <2>4. f \in Surjection(1..N, T)
    BY <1>2, <2>2, <2>3, FS_Injection
  <2>5. n - 1 \in T
    BY <1>1 DEF T
  <2>6. \E i \in 1..N : f[i] = n - 1
    BY <2>4, <2>5, Zenon DEF Surjection
  <2> QED BY <2>6 DEF f
<1>7. \A i \in 1..N : Rank(q, i) \in 0..(N - 1)
  BY <1>1, <1>3
<1> QED BY <1>1, <1>4, <1>6, <1>7 DEF N

\* Sorting a queue of different numbers makes it descend and keeps its members.
LEMMA SortedDescends ==
    ASSUME NEW q, IsQueue(q), Range(q) \subseteq Nat, IsInjective(q), NEW r, r = SortedByPts(q)
    PROVE  Descends(r) /\ Range(r) = Range(q)
<1>0. (\A i \in DOMAIN q : q[i] \in Nat) /\ \A i, j \in DOMAIN q : q[i] = q[j] => i = j
  BY DEF Range, IsInjective
<1> DEFINE At(n) == CHOOSE i \in DOMAIN q : Rank(q, i) = n - 1
<1>1. Len(q) \in Nat /\ DOMAIN q = 1..Len(q)
  BY QueueIsSeq DEF IsQueue
<1>2. DOMAIN r = 1..Len(q) /\ \A n \in 1..Len(q) : r[n] = q[At(n)]
  BY <1>1 DEF SortedByPts, Rank, Ahead
<1>3. \A n \in 1..Len(q) : At(n) \in DOMAIN q /\ Rank(q, At(n)) = n - 1
  BY <1>0, RankOK
<1> HIDE DEF At
<1>4. \A i, j \in DOMAIN q : q[i] > q[j] => Rank(q, i) < Rank(q, j)
  BY <1>0, RankOK
<1>5. \A i \in DOMAIN q : Rank(q, i) \in 0..(Len(q) - 1)
  BY <1>0, RankOK
<1>6. ASSUME NEW m \in DOMAIN r, NEW n \in DOMAIN r, m < n
      PROVE  r[m] > r[n]
  <2>1. At(m) \in DOMAIN q /\ At(n) \in DOMAIN q /\ Rank(q, At(m)) < Rank(q, At(n))
    BY <1>1, <1>2, <1>3, <1>6
  <2>2. q[At(m)] \in Nat /\ q[At(n)] \in Nat /\ q[At(m)] # q[At(n)]
    <3>1. Rank(q, At(m)) \in Int
      BY <1>1, <1>5, <2>1
    <3> QED BY <1>0, <2>1, <3>1
  <2>3. ~(q[At(n)] > q[At(m)])
    <3>1. Rank(q, At(m)) \in Int /\ Rank(q, At(n)) \in Int
      BY <1>1, <1>5, <2>1
    <3> QED BY <1>4, <2>1, <3>1
  <2> QED BY <1>2, <2>2, <2>3
<1>7. ASSUME NEW i \in DOMAIN q
      PROVE  \E n \in DOMAIN r : r[n] = q[i]
  <2> DEFINE n == Rank(q, i) + 1
  <2>1. n \in 1..Len(q) /\ n - 1 = Rank(q, i)
    BY <1>1, <1>5
  <2>2. At(n) \in DOMAIN q /\ Rank(q, At(n)) = Rank(q, i)
    BY <1>3, <2>1
  <2>3. q[At(n)] = q[i]
    <3>1. Rank(q, i) \in Int /\ q[i] \in Nat /\ q[At(n)] \in Nat
      BY <1>0, <1>1, <1>5, <2>2
    <3> QED BY <1>0, <1>4, <2>2, <3>1
  <2> QED BY <1>2, <2>1, <2>3
<1>8. \A n \in DOMAIN r : \E i \in DOMAIN q : r[n] = q[i]
  BY <1>2, <1>3
<1>9. {r[i] : i \in DOMAIN r} = {q[i] : i \in DOMAIN q}
  BY <1>7, <1>8
<1> QED BY <1>6, <1>9 DEF Descends, Range

\* The elements of two queues in a row.
LEMMA ConcatMembers ==
    ASSUME NEW q, IsQueue(q), NEW r, IsQueue(r)
    PROVE  LET c == q \o r
           IN  /\ DOMAIN c = 1..(Len(q) + Len(r)) /\ DOMAIN q = 1..Len(q) /\ DOMAIN r = 1..Len(r)
               /\ \A i \in 1..Len(q) : c[i] = q[i]
               /\ \A i \in 1..Len(r) : c[Len(q) + i] = r[i]
               /\ \A i \in (Len(q) + 1)..(Len(q) + Len(r)) : i - Len(q) \in 1..Len(r) /\ c[i] = r[i - Len(q)]
<1> DEFINE S == {q[i] : i \in 1..Len(q)} \cup {r[i] : i \in 1..Len(r)}
<1>1. q \in Seq(S) /\ r \in Seq(S) /\ DOMAIN q = 1..Len(q) /\ DOMAIN r = 1..Len(r)
  <2>1. q \in Seq({q[i] : i \in 1..Len(q)}) /\ r \in Seq({r[i] : i \in 1..Len(r)})
    BY QueueIsSeq
  <2>2. DOMAIN q = 1..Len(q) /\ DOMAIN r = 1..Len(r)
    BY QueueIsSeq
  <2> QED BY <2>1, <2>2
<1> HIDE DEF S
<1>2. Len(q) \in Nat /\ Len(r) \in Nat
  BY <1>1
<1>3. /\ DOMAIN (q \o r) = 1..(Len(q) + Len(r))
      /\ \A i \in 1..(Len(q) + Len(r)) : (q \o r)[i] = IF i <= Len(q) THEN q[i] ELSE r[i - Len(q)]
  BY <1>1, <1>2, ConcatProperties
<1> QED BY <1>1, <1>2, <1>3

\* What is left at the front of a queue that descends are the larger numbers.
LEMMA FrontDescends ==
    ASSUME NEW q, IsQueue(q), Range(q) \subseteq Nat, Descends(q),
           NEW m \in Range(q), \A x \in Range(q) : x >= m
    PROVE  q # <<>> /\ Last(q) = m /\ Descends(Front(q)) /\ Range(Front(q)) = Range(q) \ {m}
<1>0. /\ \A i \in DOMAIN q : q[i] \in Nat /\ q[i] >= m
      /\ \A i, j \in DOMAIN q : i < j => q[i] > q[j]
      /\ m \in Nat /\ m \in {q[i] : i \in DOMAIN q}
  BY DEF Range, Descends
<1> DEFINE n == Len(q)
<1>1. n \in Nat /\ DOMAIN q = 1..n
  BY QueueIsSeq DEF IsQueue
<1>2. PICK k \in 1..n : q[k] = m
  BY <1>0, <1>1
<1>3. k = n
  <2>1. n \in DOMAIN q /\ k \in DOMAIN q /\ (k < n => q[k] > q[n]) /\ q[n] >= m /\ q[n] \in Nat
    BY <1>0, <1>1, <1>2
  <2> QED BY <1>0, <1>1, <1>2, <2>1
<1>4. DOMAIN Front(q) = 1..(n - 1) /\ \A i \in 1..(n - 1) : Front(q)[i] = q[i]
  <2>1. q \in Seq({q[i] : i \in 1..n})
    BY QueueIsSeq
  <2> HIDE DEF n
  <2>2. n >= 1 /\ n - 1 \in 0..n
    BY <1>1, <1>2
  <2>3. SubSeq(q, 1, n - 1) = [i \in 1..(n - 1) |-> q[i]]
    BY <1>1, <2>1, <2>2
  <2> QED BY <2>3 DEF Front, n
<1>5. q # <<>> /\ Last(q) = m
  BY <1>1, <1>2, <1>3 DEF Last
<1>6. 1..(n - 1) \subseteq 1..n /\ \A i \in 1..n : i \in 1..(n - 1) \/ i = n
  <2> HIDE DEF n
  <2> QED BY <1>1
<1>7. \A i \in 1..(n - 1) : q[i] # m
  <2> TAKE i \in 1..(n - 1)
  <2>1. q[i] > q[n]
    BY <1>0, <1>1, <1>2, <1>3
  <2> QED BY <1>0, <1>2, <1>3, <2>1
<1>8. {Front(q)[i] : i \in DOMAIN Front(q)} = {q[i] : i \in DOMAIN q} \ {m}
  <2> HIDE DEF n
  <2>1. {Front(q)[i] : i \in DOMAIN Front(q)} = {q[i] : i \in 1..(n - 1)}
    BY <1>4
  <2> QED BY <1>1, <1>2, <1>3, <1>6, <1>7, <2>1
<1>9. \A i, j \in DOMAIN Front(q) : i < j => Front(q)[i] > Front(q)[j]
  <2> HIDE DEF n
  <2> QED BY <1>0, <1>1, <1>4, <1>6
<1> QED BY <1>5, <1>8, <1>9 DEF Descends, Range

-----------------------------------------------------------------------------
(* What is posted.                                                          *)

\* The number of pictures sent is one number.
LEMMA SentUnique ==
    ASSUME FlowTypes, QueueInv, RingInv, NEW h \in 0..Len(video.pictures), NEW k \in 0..Len(video.pictures), Sent(h), Sent(k)
    PROVE  h = k
<1>1. /\ free + Len(output) + Len(taken) + Len(undisplayed) + (Cardinality(packetized) - h - unit) = Buffers
      /\ free + Len(output) + Len(taken) + Len(undisplayed) + (Cardinality(packetized) - k - unit) = Buffers
  BY DEF Sent
<1>2. /\ Len(output) \in Nat /\ Len(taken) \in Nat /\ Len(undisplayed) \in Nat /\ free \in Nat
      /\ Cardinality(packetized) \in Nat /\ unit \in Int /\ h \in Int /\ k \in Int
  <2>1. Size \in Nat /\ Len(video.pictures) \in Nat
    BY SettingsOK
  <2> QED BY <2>1, PacketizedFinite DEF QueueInv, IsQueue, RingInv
<1> QED BY <1>1, <1>2

\* The stream and the packets promised.
Promised == [n \in 1..(1 + video.last) |-> Packet(n - 1, n - 1, Tag(n - 1))]

\* Posting the packet of the next picture to display.
LEMMA PostPicture ==
    ASSUME FlowTypes, QueueInv, PrefixInv, video' = video, ShownPackets <= video.last,
           stream' = Append(stream, Packet(ShownPackets, ShownPackets, Tag(ShownPackets)))
    PROVE  PrefixInv' /\ ShownPackets' = ShownPackets + 1 /\ Stream!Show
<1> DEFINE m == ShownPackets
           p == Packet(m, m, Tag(m))
<1>1. video.last \in Nat
  BY SettingsOK
<1>2. m \in Nat /\ ~Ended /\ m = Len(stream) /\ IsQueue(stream)
  BY <1>1 DEF PrefixInv, QueueInv, ShownPackets
<1>3. /\ Len(stream') = m + 1 /\ DOMAIN stream' = 1..(m + 1) /\ stream'[m + 1] = p
      /\ \A i \in 1..m : stream'[i] = stream[i]
      /\ DOMAIN stream = 1..m
  <2>1. stream' = Append(stream, p) /\ IsQueue(stream)
    BY <1>2
  <2> HIDE DEF p, m
  <2> QED BY <1>2, <2>1, QueueAppend, QueueIsSeq
<1>4. p # Stream!EndOfStream /\ Stream!EndOfStream' = Stream!EndOfStream
  <2> HIDE DEF m
  <2> QED BY <1>2, PacketIsNoEnd DEF Stream!EndOfStream
<1>5. ~Ended'
  <2> HIDE DEF p, m
  <2>1. \A i \in DOMAIN stream' : stream'[i] # Stream!EndOfStream
    BY <1>2, <1>3, <1>4 DEF Ended
  <2> QED BY <1>4, <2>1 DEF Ended
<1>6. ShownPackets' = m + 1
  BY <1>3, <1>5 DEF ShownPackets
<1>7. \A i \in 1..(m + 1) : stream'[i] = Packet(i - 1, i - 1, Tag(i - 1))
  <2> TAKE i \in 1..(m + 1)
  <2>1. CASE i \in 1..m
    BY <1>3, <2>1 DEF PrefixInv
  <2>2. CASE i = m + 1
    <3>1. i - 1 = m
      BY <1>2, <2>2
    <3> HIDE DEF m
    <3> QED BY <1>3, <2>2, <3>1
  <2> QED BY <1>2, <2>1, <2>2
<1>8. PrefixInv'
  <2>1. ShownPackets' \in 0..(video'.last + 1)
    BY <1>1, <1>2, <1>6
  <2>2. \A i \in 1..ShownPackets' : stream'[i] = Packet(i - 1, i - 1, Tag(i - 1))'
    <3>1. \A n : Tag(n)' = Tag(n)
      BY DEF Tag
    <3> HIDE DEF m
    <3> QED BY <1>6, <1>7, <3>1 DEF Packet
  <2> QED BY <1>5, <2>1, <2>2 DEF PrefixInv
<1>9. Stream!Show
  <2>1. /\ Len(Promised) = 1 + video.last /\ Promised[m + 1] = p /\ Promised' = Promised
    <3>1. 1 + video.last \in Nat /\ m + 1 \in 1..(1 + video.last) /\ (m + 1) - 1 = m
      BY <1>1, <1>2
    <3>2. Promised[m + 1] = p
      <4> HIDE DEF m
      <4> QED BY <3>1 DEF Promised
    <3>3. Len(Promised) = 1 + video.last
      BY <3>1 DEF Promised
    <3>4. Promised' = Promised
      BY DEF Promised, Tag, Packet
    <3> QED BY <3>2, <3>3, <3>4
  <2>2. Len(stream) < Len(Promised) /\ stream' = Append(stream, Promised[Len(stream) + 1])
    <3> HIDE DEF p
    <3> QED BY <1>1, <1>2, <2>1 DEF p
  <2> QED BY <2>1, <2>2 DEF Stream!Show, Promised, Tag
<1> QED BY <1>6, <1>8, <1>9

\* Posting the end when all pictures are displayed.
LEMMA PostEnd ==
    ASSUME FlowTypes, QueueInv, PrefixInv, video' = video, ~Ended, ShownPackets = video.last + 1,
           stream' = Append(stream, Stream!EndOfStream)
    PROVE  PrefixInv' /\ ShownPackets' = ShownPackets /\ Stream!End
<1> DEFINE m == ShownPackets
<1>1. video.last \in Nat
  BY SettingsOK
<1>2. m \in Nat /\ m = Len(stream) /\ IsQueue(stream) /\ m = video.last + 1
  BY <1>1 DEF PrefixInv, QueueInv, ShownPackets
<1>3. /\ Len(stream') = m + 1 /\ DOMAIN stream' = 1..(m + 1) /\ stream'[m + 1] = Stream!EndOfStream
      /\ \A i \in 1..m : stream'[i] = stream[i]
      /\ DOMAIN stream = 1..m
  <2>1. PICK e : e = Stream!EndOfStream
    OBVIOUS
  <2>2. stream' = Append(stream, e)
    BY <2>1
  <2>3. /\ Len(stream') = Len(stream) + 1 /\ DOMAIN stream' = 1..(Len(stream) + 1) /\ stream'[Len(stream) + 1] = e
        /\ \A i \in 1..Len(stream) : stream'[i] = stream[i]
        /\ DOMAIN stream = 1..Len(stream)
    <3>1. IsQueue(stream)
      BY <1>2
    <3> QED BY ONLY <2>2, <3>1, QueueAppend, QueueIsSeq
  <2> HIDE DEF m
  <2> QED BY <1>2, <2>1, <2>3
<1>4. Stream!EndOfStream' = Stream!EndOfStream
  BY DEF Stream!EndOfStream
<1>5. Ended'
  <2>1. m + 1 \in DOMAIN stream'
    BY <1>2, <1>3
  <2> QED BY <1>3, <1>4, <2>1 DEF Ended
<1>6. ShownPackets' = m
  BY <1>2, <1>3, <1>5 DEF ShownPackets
<1>7. PrefixInv'
  <2>1. \A i \in 1..m : stream'[i] = Packet(i - 1, i - 1, Tag(i - 1))'
    <3>1. \A n : Tag(n)' = Tag(n)
      BY DEF Tag
    <3> QED BY <1>3, <3>1 DEF PrefixInv, Packet
  <2> QED BY <1>1, <1>2, <1>3, <1>4, <1>6, <2>1 DEF PrefixInv
<1>8. stream = Promised /\ Promised' = Promised
  <2>1. stream = [i \in 1..m |-> stream[i]]
    BY <1>2 DEF IsQueue
  <2>2. \A i \in 1..m : stream[i] = Packet(i - 1, i - 1, Tag(i - 1))
    BY DEF PrefixInv
  <2>3. 1 + video.last = m
    BY <1>1, <1>2
  <2> HIDE DEF m
  <2>4. stream = [i \in 1..m |-> Packet(i - 1, i - 1, Tag(i - 1))]
    BY <2>1, <2>2
  <2>5. Promised' = Promised
    BY DEF Promised, Tag, Packet
  <2> QED BY <2>3, <2>4, <2>5 DEF Promised
<1> QED BY <1>6, <1>7, <1>8 DEF Stream!End, Promised, Tag

-----------------------------------------------------------------------------
(* The steps.                                                               *)

\* What the video alone decides does not change.
LEMMA VideoSame ==
    ASSUME video' = video
    PROVE  /\ Size' = Size /\ Slot' = Slot /\ Pictures' = Pictures
           /\ \A d : Pic(d)' = Pic(d) /\ DisplayedUpto(d)' = DisplayedUpto(d) /\ Tag(d)' = Tag(d) /\ SlotOf(d)' = SlotOf(d)
  BY DEF Size, Slot, Pictures, Pic, DisplayedUpto, Tag, SlotOf

\* Nothing is posted.
LEMMA StreamSame ==
    ASSUME PrefixInv, UNCHANGED <<video, stream>>
    PROVE  PrefixInv' /\ ShownPackets' = ShownPackets /\ (Ended' <=> Ended)
<1>1. Ended' <=> Ended
  BY DEF Ended, Stream!EndOfStream
<1>2. ShownPackets' = ShownPackets
  BY <1>1 DEF ShownPackets
<1>3. \A i : Packet(i - 1, i - 1, Tag(i - 1))' = Packet(i - 1, i - 1, Tag(i - 1)) /\ Stream!EndOfStream' = Stream!EndOfStream
  BY VideoSame DEF Packet, Stream!EndOfStream
<1> QED BY <1>1, <1>2, <1>3 DEF PrefixInv

\* A step that posts and counts nothing and keeps no other buffers.
LEMMA CountKeptSame ==
    ASSUME UNCHANGED <<video, unit, undisplayed, shown>>, Owed' = Owed, packer' = "shows" => packer = "shows",
           ShownPackets' = ShownPackets, NEW h, CountInv(h + unit), KeptInv(h + unit)
    PROVE  CountInv(h + unit)' /\ KeptInv(h + unit)'
<1> DEFINE n == h + unit
<1>1. CountInv(n)'
  <2>1. CountInv(n)
    OBVIOUS
  <2>2. /\ DisplayedUpto(n)' = DisplayedUpto(n) /\ DisplayedUpto(n) = DisplayedBefore(video.pictures, n + 1)
        /\ Pic(n - 1)' = Pic(n - 1) /\ NewlyShown(n - 1)' = NewlyShown(n - 1)
    BY VideoSame DEF DisplayedUpto, NewlyShown
  <2> QED BY <2>1, <2>2 DEF CountInv, DisplayedUpto
<1>2. KeptInv(n)'
  <2>1. KeptInv(n)
    OBVIOUS
  <2>2. ToShow(n)' = ToShow(n) /\ \A d : Pic(d)' = Pic(d)
    BY VideoSame DEF ToShow
  <2>3. {Pic(d).number : d \in ToShow(n)}' = {Pic(d).number : d \in ToShow(n)}
    BY <2>2
  <2> QED BY <2>1, <2>3 DEF KeptInv, Descends, Range
<1> QED BY <1>1, <1>2

\* A step that leaves pictures, ring and kept buffers alone.
LEMMA StreamFrame ==
    ASSUME FlowTypes, QueueInv, RingInv, StreamInv, UNCHANGED <<video, unit, ring, metadata, undisplayed, shown, packetized>>,
           Owed' = Owed, packer' = "shows" => packer = "shows", PrefixInv', ShownPackets' = ShownPackets, SentSame, NeedsInv'
    PROVE  StreamInv'
<1>1. PICK h \in 0..Len(video.pictures) : Sent(h) /\ StreamAt(h)
  BY DEF StreamInv
<1>2. PICK k \in 0..Len(video.pictures) : Sent(k) /\ Sent(k)'
  BY DEF SentSame
<1>3. h = k
  BY <1>1, <1>2, SentUnique
<1>4. CountInv(h + unit)' /\ KeptInv(h + unit)'
  BY <1>1, CountKeptSame DEF StreamAt
<1>6. EntriesInv(h)'
  BY <1>1, VideoSame DEF StreamAt, EntriesInv
<1>7. MetadataInv'
  BY VideoSame DEF StreamInv, MetadataInv, Shows
<1>8. \E a \in (0..Len(video.pictures))' : Sent(a)' /\ StreamAt(a)'
  BY <1>2, <1>3, <1>4, <1>6 DEF StreamAt
<1> QED BY <1>7, <1>8 DEF StreamInv

\* An interval from zero has one end.
LEMMA IntervalEnd ==
    ASSUME NEW m \in Nat, NEW n \in Nat, 0..(m - 1) = 0..(n - 1)
    PROVE  m = n
<1>1. ASSUME m < n
      PROVE  FALSE
  <2>1. m \in 0..(n - 1) /\ m \notin 0..(m - 1)
    BY <1>1
  <2> QED BY <2>1
<1>2. ASSUME n < m
      PROVE  FALSE
  <2>1. n \in 0..(m - 1) /\ n \notin 0..(n - 1)
    BY <1>2
  <2> QED BY <2>1
<1> QED BY <1>1, <1>2

\* The kept pictures of a unit are its hidden ones, but alternative references,
\* each once.
LEMMA KeptSeq ==
    ASSUME FlowTypes, NEW h \in Nat, Sent(h), NEW frames \in 1..Size, h..(h + frames - 1) \subseteq packetized
    PROVE  LET q == Kept(frames)
           IN  /\ DOMAIN q = 1..Len(q) /\ Len(q) \in Nat
               /\ Range(q) = {d \in h..(h + frames - 2) : ~Pic(d).alt} /\ IsInjective(q)
<1>1. Size \in Nat \ {0} /\ frames \in Nat
  BY SettingsOK
<1> DEFINE H == h..(h + frames - 2)
           K == {d \in H : ~Pic(d).alt}
           c == Cardinality(K)
<1>2. HiddenFrames(frames) = H
  <2>1. \A i \in 0..(frames - 2) : i \in 0..(Size - 1) /\ h + i \in packetized
    BY <1>1
  <2>2. \A i \in 0..(frames - 2) : Entry(i).pic = h + i
    BY <2>1, EntryOK
  <2>3. HiddenFrames(frames) = {h + i : i \in 0..(frames - 2)}
    BY <2>2 DEF HiddenFrames
  <2>4. ASSUME NEW j \in H
        PROVE  j \in {h + i : i \in 0..(frames - 2)}
    <3>1. j - h \in 0..(frames - 2) /\ h + (j - h) = j
      BY <1>1
    <3> QED BY <3>1
  <2>5. \A i \in 0..(frames - 2) : h + i \in H
    BY <1>1
  <2> HIDE DEF H
  <2> QED BY <2>3, <2>4, <2>5
<1>3. IsFiniteSet(K)
  <2> DEFINE b == h + frames - 2
  <2>1. b \in Int /\ h \in Int
    BY <1>1
  <2>2. IsFiniteSet(h..b)
    <3> HIDE DEF b
    <3> QED BY <2>1, FS_Interval, Zenon
  <2>3. IsFiniteSet(H)
    BY <2>2
  <2> HIDE DEF H
  <2> QED BY <2>3, FS_Subset
<1>4. c \in Nat
  <2> HIDE DEF K
  <2> QED BY <1>3, FS_CardinalityType
<1>5. Kept(frames) = SetToSeq(K)
  BY <1>2 DEF Kept
<1> HIDE DEF c
<1>6. Kept(frames) \in [1..c -> K] /\ IsInjective(Kept(frames))
  <2> HIDE DEF K
  <2>1. ExistsBijection(1..c, K)
    BY <1>3, FS_CardinalityType DEF c
  <2>2. \E f \in [1..c -> K] : IsInjective(f)
    BY <2>1, Zenon DEF ExistsBijection, Bijection, Injection
  <2> QED BY <1>5, <2>2, Zenon DEF SetToSeq, c
<1>7. Kept(frames) \in Surjection(1..c, K)
  <2>1. Kept(frames) \in Injection(1..c, K)
    BY <1>6, Zenon DEF Injection
  <2>2. IsFiniteSet(1..c) /\ Cardinality(1..c) = Cardinality(K)
    <3>1. 1 \in Int /\ c \in Int
      BY <1>4
    <3>2. Cardinality(1..c) = IF 1 > c THEN 0 ELSE c - 1 + 1
      BY <3>1, FS_Interval, Zenon
    <3>3. IsFiniteSet(1..c)
      BY <3>1, FS_Interval, Zenon
    <3>4. Cardinality(1..c) = c
      BY <1>4, <3>2
    <3> QED BY <3>3, <3>4 DEF c
  <2> HIDE DEF K
  <2> QED BY <1>3, <2>1, <2>2, FS_Injection
<1> DEFINE q == Kept(frames)
<1> HIDE DEF q
<1>8. q \in [1..c -> K] /\ IsInjective(q) /\ q \in Surjection(1..c, K)
  BY <1>6, <1>7 DEF q
<1> HIDE DEF K
<1>9. DOMAIN q = 1..c /\ Len(q) = c
  BY <1>4, <1>8
<1>10. {q[i] : i \in DOMAIN q} = K
  <2>1. \A d \in K : \E i \in 1..c : q[i] = d
    BY <1>8, Zenon DEF Surjection
  <2> QED BY <1>8, <1>9, <2>1
<1>11. Range(q) = K /\ IsInjective(q)
  BY <1>8, <1>10 DEF Range
<1> QED BY <1>4, <1>9, <1>11 DEF q, K

\* The picture that ends a unit is the next to display, and its entry carries its
\* packet's metadata.
LEMMA UnitIsNext ==
    ASSUME FlowTypes, QueueInv, RingInv, PrefixInv, NEW h \in 0..Len(video.pictures), Sent(h), CountInv(h + unit), EntriesInv(h), SendUnit
    PROVE  LET frames == FramesInNextUnit
               e      == h + frames - 1
           IN  /\ unit = 0 /\ Owed = 0 /\ frames \in 1..Size /\ e \in Pictures
               /\ h..e \subseteq packetized /\ Pic(e).show /\ \A k \in h..(e - 1) : ~Pic(k).show
               /\ Pic(e).number = ShownPackets
               /\ Entry(frames - 1).pic = e /\ Entry(frames - 1).metadata = Tag(ShownPackets)
<1> DEFINE frames == FramesInNextUnit
           e == h + frames - 1
           m == ShownPackets
<1>1. h \in Nat /\ Size \in Nat \ {0} /\ video.last \in Nat
  BY SettingsOK
<1>2. packer = "looks" /\ frames > 0 /\ unit = 0 /\ Owed = 0
  BY DEF SendUnit, RingInv, Owed
<1>3. /\ frames \in 1..Size /\ h..(h + frames - 1) \subseteq packetized /\ Pic(h + frames - 1).show
      /\ \A k \in 0..(frames - 2) : ~Pic(h + k).show
  BY <1>1, <1>2, UnitOK
<1>4. m \in Nat
  BY <1>1 DEF PrefixInv
<1> HIDE DEF frames, m
<1>5. e \in packetized /\ e \in Pictures /\ e \in Nat /\ e >= h /\ h..e \subseteq packetized /\ Pic(e).show
  <2>1. e \in h..(h + frames - 1) /\ e >= h /\ e \in Nat
    BY <1>1, <1>3
  <2> QED BY <1>3, <2>1 DEF FlowTypes
<1>6. ASSUME NEW k \in h..(e - 1)
      PROVE  ~Pic(k).show
  <2>1. k - h \in 0..(frames - 2) /\ h + (k - h) = k
    BY <1>1, <1>3
  <2> QED BY <1>3, <2>1
<1>7. DisplayedUpto(h) = 0..(m - 1)
  <2>1. DisplayedBefore(video.pictures, (h + unit) + 1) = 0..(ShownPackets + Owed - 1)
    BY DEF CountInv
  <2> QED BY <1>1, <1>2, <1>4, <2>1 DEF DisplayedUpto, m
<1>8. DisplayedUpto(e) = DisplayedUpto(h)
  BY <1>1, <1>5, <1>6, DisplayHidden
<1>9. DisplayedUpto(e) = 0..(Pic(e).number - 1) /\ Pic(e).number \in Nat
  BY <1>5, OrderOK, PictureOK
<1>10. Pic(e).number = m
  BY <1>4, <1>7, <1>8, <1>9, IntervalEnd
<1>11. frames - 1 \in 0..(Size - 1) /\ h + (frames - 1) = e
  BY <1>1, <1>3
<1>12. Entry(frames - 1).pic = e /\ Entry(frames - 1) = ring[SlotOf(e)]
  BY <1>1, <1>5, <1>11, EntryOK
<1>13. Entry(frames - 1).metadata = Tag(m)
  BY <1>5, <1>10, <1>12 DEF EntriesInv
<1> QED BY <1>2, <1>3, <1>5, <1>6, <1>10, <1>12, <1>13 DEF frames, m

\* Sorting what is kept already together with more, all of them different.
LEMMA MergeSorted ==
    ASSUME NEW q, IsQueue(q), NEW r, IsQueue(r), NEW A \in SUBSET Nat, NEW B \in SUBSET Nat, A \cap B = {},
           Range(q) = A, Range(r) = B, IsInjective(q), IsInjective(r), NEW s, s = SortedByPts(q \o r)
    PROVE  Descends(s) /\ Range(s) = A \cup B
<1>0. /\ {q[i] : i \in DOMAIN q} = A /\ {r[i] : i \in DOMAIN r} = B
      /\ \A i, j \in DOMAIN q : q[i] = q[j] => i = j
      /\ \A i, j \in DOMAIN r : r[i] = r[j] => i = j
  BY DEF Range, IsInjective
<1>1. PICK u, v, c : u = Len(q) /\ v = Len(r) /\ c = q \o r
  OBVIOUS
<1>2. IsQueue(c) /\ u \in Nat /\ v \in Nat
  <2>1. IsQueue(q \o r)
    BY QueueConcat, Zenon
  <2>2. Len(q) \in Nat /\ Len(r) \in Nat
    BY Zenon DEF IsQueue
  <2> QED BY ONLY <1>1, <2>1, <2>2
<1>3. /\ DOMAIN c = 1..(u + v) /\ DOMAIN q = 1..u /\ DOMAIN r = 1..v
      /\ \A i \in 1..u : c[i] = q[i]
      /\ \A i \in 1..v : c[u + i] = r[i]
      /\ \A i \in (u + 1)..(u + v) : i - u \in 1..v /\ c[i] = r[i - u]
  BY <1>1, ConcatMembers
<1>4. \A i \in 1..u : q[i] \in A
  BY <1>0, <1>3
<1>5. \A i \in 1..v : r[i] \in B
  BY <1>0, <1>3
<1>6. \A i \in DOMAIN c : i \in 1..u \/ (i \in (u + 1)..(u + v) /\ i \in Int)
  BY <1>2, <1>3
<1>7. \A i \in DOMAIN c : /\ i \in 1..u => c[i] = q[i] /\ c[i] \in A
                          /\ i \notin 1..u => i - u \in 1..v /\ c[i] = r[i - u] /\ c[i] \in B
  BY <1>3, <1>4, <1>5, <1>6
<1>8. \A x \in A \cup B : \E i \in DOMAIN c : c[i] = x
  <2>1. ASSUME NEW x \in A
        PROVE  \E i \in DOMAIN c : c[i] = x
    <3>1. PICK i \in 1..u : q[i] = x
      BY <1>0, <1>3
    <3> QED BY <1>2, <1>3, <3>1
  <2>2. ASSUME NEW x \in B
        PROVE  \E i \in DOMAIN c : c[i] = x
    <3>1. PICK i \in 1..v : r[i] = x
      BY <1>0, <1>3
    <3>2. u + i \in DOMAIN c /\ c[u + i] = x
      BY <1>2, <1>3, <3>1
    <3> QED BY <3>2
  <2> QED BY <2>1, <2>2
<1>9. Range(c) = A \cup B
  <2>1. \A x \in Range(c) : x \in A \cup B
    BY <1>7 DEF Range
  <2>2. \A x \in A \cup B : x \in Range(c)
    BY <1>8 DEF Range
  <2> QED BY <2>1, <2>2
<1>10. \A i \in DOMAIN c : c[i] \in Nat
  BY <1>7
<1>11. ASSUME NEW i \in DOMAIN c, NEW j \in DOMAIN c, c[i] = c[j]
       PROVE  i = j
  <2>1. CASE i \in 1..u /\ j \in 1..u
    BY <1>0, <1>3, <1>7, <1>11, <2>1
  <2>2. CASE i \notin 1..u /\ j \notin 1..u
    <3>1. i - u \in 1..v /\ j - u \in 1..v /\ r[i - u] = r[j - u]
      BY <1>7, <1>11, <2>2
    <3>2. i - u = j - u
      BY <1>0, <1>3, <3>1
    <3> QED BY <1>2, <1>6, <2>2, <3>2
  <2>3. CASE i \in 1..u /\ j \notin 1..u
    BY <1>7, <1>11, <2>3
  <2>4. CASE i \notin 1..u /\ j \in 1..u
    BY <1>7, <1>11, <2>4
  <2> QED BY <2>1, <2>2, <2>3, <2>4
<1>12. s = SortedByPts(c)
  BY <1>1
<1>13. Range(c) = A \cup B /\ IsInjective(c)
  BY <1>9, <1>11 DEF IsInjective
<1>14. Range(c) \subseteq Nat
  BY <1>13
<1> QED BY <1>2, <1>12, <1>13, <1>14, SortedDescends

\* The buffers kept after a unit is sent.
LEMMA SendUnitKeeps ==
    ASSUME FlowTypes, QueueInv, RingInv, PrefixInv, NEW h \in 0..Len(video.pictures), Sent(h), CountInv(h + unit), EntriesInv(h),
           KeptInv(h + unit), SendUnit, ShownPackets' = ShownPackets + 1, NEW n \in Nat, n = h + FramesInNextUnit
    PROVE  KeptInv(n)'
<1> DEFINE frames == FramesInNextUnit
           e == h + frames - 1
           m == ShownPackets
<1>1. /\ unit = 0 /\ frames \in 1..Size /\ e \in Pictures
      /\ h..e \subseteq packetized /\ Pic(e).show /\ \A k \in h..(e - 1) : ~Pic(k).show
      /\ Pic(e).number = m
  BY UnitIsNext
<1>2. m \in Nat /\ h \in Nat /\ Size \in Nat \ {0} /\ frames \in Nat
  BY <1>1, SettingsOK DEF PrefixInv
<1>3. packetized \subseteq Pictures
  BY DEF FlowTypes
<1>4. undisplayed' = IF frames > 1
                     THEN SortedByPts(undisplayed \o [i \in DOMAIN Kept(frames) |-> Pic(Kept(frames)[i]).number])
                     ELSE undisplayed
  BY DEF SendUnit
<1>5. ToShow(n)' = {d \in 0..(n - 1) : Waits(Pic(d)) /\ Pic(d).number >= m + 1}
  BY VideoSame DEF ToShow, SendUnit
<1> HIDE DEF frames, m
<1>6. h..(h + frames - 1) \subseteq packetized /\ e \in Nat
  BY <1>1, <1>2
<1> DEFINE Old == {d \in 0..(h - 1) : Waits(Pic(d)) /\ Pic(d).number >= m}
           New == {d \in h..(h + frames - 2) : ~Pic(d).alt}
<1>7. Descends(undisplayed)
  BY <1>1 DEF KeptInv
<1>8. Range(undisplayed) = {Pic(d).number : d \in Old}
  <2>1. h + unit = h
    BY <1>1, <1>2
  <2>2. ToShow(h) = Old
    BY DEF ToShow, m
  <2> HIDE DEF Old
  <2> QED BY <2>1, <2>2 DEF KeptInv
<1>9. \A d \in 0..e : d \in Pictures /\ d \in Nat /\ Pic(d).number \in Nat
  <2>1. \A d \in 0..e : d \in Pictures
    BY <1>1, <1>6, SettingsOK DEF Pictures
  <2> QED BY <2>1, PictureOK
<1>10. Old \subseteq 0..e /\ New \subseteq 0..e /\ \A d \in Old : Waits(Pic(d))
  BY <1>1, <1>2
<1>11. ASSUME NEW d \in New
       PROVE  Waits(Pic(d)) /\ d < e /\ Pic(d).number > m
  <2>1. d \in h..(e - 1) /\ d \in Pictures
    BY <1>2, <1>9, <1>10
  <2>2. Waits(Pic(d))
    BY <1>1, <2>1 DEF Waits
  <2>3. d < e /\ \A k \in d..(e - 1) : ~Pic(k).show
    BY <1>1, <1>2, <2>1
  <2>4. Pic(d).number > Pic(e).number
    BY <1>1, <2>1, <2>2, <2>3, HiddenOrder
  <2> QED BY <1>1, <2>2, <2>3, <2>4
<1>12. \A d \in Old : Pic(d).number # m
  BY <1>1, <1>9, <1>10, HiddenOrder
<1>13. ToShow(n)' = Old \cup New
  <2>1. ToShow(n)' = {d \in 0..(n - 1) : Waits(Pic(d)) /\ Pic(d).number >= m + 1} /\ n - 1 = e
    BY <1>2, <1>5 DEF frames
  <2>2. ASSUME NEW d \in 0..e, Waits(Pic(d)), Pic(d).number >= m + 1
        PROVE  d \in Old \cup New
    <3>1. Pic(d).number \in Nat
      BY <1>9
    <3>2. d # e
      BY <1>1, <2>2 DEF Waits
    <3>3. d \in 0..(h - 1) \/ d \in h..(h + frames - 2)
      BY <1>2, <2>2, <3>2
    <3> QED BY <1>2, <2>2, <3>1, <3>3 DEF Waits
  <2>3. ASSUME NEW d \in Old \cup New
        PROVE  d \in 0..e /\ Waits(Pic(d)) /\ Pic(d).number >= m + 1
    <3>1. d \in 0..e /\ Pic(d).number \in Nat /\ Waits(Pic(d))
      BY <1>9, <1>10, <1>11
    <3>2. Pic(d).number >= m + 1
      BY <1>2, <1>11, <1>12, <3>1
    <3> QED BY <3>1, <3>2
  <2> HIDE DEF Old, New
  <2> QED BY <2>1, <2>2, <2>3
<1> DEFINE q == Kept(frames)
           more == [i \in DOMAIN q |-> Pic(q[i]).number]
<1>14. DOMAIN q = 1..Len(q) /\ Len(q) \in Nat /\ Range(q) = New /\ IsInjective(q)
  BY <1>1, <1>2, <1>6, KeptSeq
<1> HIDE DEF Old, New, q
<1>15. Old \cap New = {}
  BY <1>2 DEF Old, New
<1>16. \A d, c \in Old \cup New : d # c => Pic(d).number # Pic(c).number
  <2>1. \A d \in Old \cup New : d \in Pictures /\ Waits(Pic(d))
    BY <1>9, <1>10, <1>11
  <2> QED BY <2>1, OrderOK
<1>17. Descends(undisplayed') /\ Range(undisplayed') = {Pic(d).number : d \in Old \cup New}
  <2>1. CASE frames > 1
    <3>1. more = [i \in 1..Len(q) |-> more[i]] /\ DOMAIN more = 1..Len(q) /\ \A i \in 1..Len(q) : more[i] = Pic(q[i]).number
      BY <1>14
    <3>2. undisplayed' = SortedByPts(undisplayed \o more)
      BY <1>4, <2>1 DEF q
    <3> HIDE DEF more
    <3>3. IsQueue(more) /\ Len(more) = Len(q)
      BY <1>14, <3>1, QueueOfFunction
    <3> DEFINE A == {Pic(d).number : d \in Old}
               B == {Pic(d).number : d \in New}
    <3>4. DOMAIN more = 1..Len(q) /\ DOMAIN undisplayed = 1..Len(undisplayed) /\ Len(undisplayed) \in Nat
      BY <3>1, QueueIsSeq DEF QueueInv, IsQueue
    <3>5. Range(undisplayed) = A
      BY <1>8
    <3>6. Range(more) = B
      <4>1. {q[i] : i \in DOMAIN q} = New
        BY <1>14 DEF Range
      <4> QED BY <1>14, <3>1, <3>4, <4>1 DEF Range
    <3>7. A \in SUBSET Nat /\ B \in SUBSET Nat
      BY <1>9, <1>10
    <3>8. A \cap B = {}
      BY <1>15, <1>16
    <3>9. IsInjective(undisplayed)
      <4> SUFFICES ASSUME NEW i \in DOMAIN undisplayed, NEW j \in DOMAIN undisplayed, undisplayed[i] = undisplayed[j]
                   PROVE  i = j
        BY DEF IsInjective
      <4>1. undisplayed[i] \in Nat /\ i \in Int /\ j \in Int
        <5>1. undisplayed[i] \in Range(undisplayed)
          BY DEF Range
        <5>2. undisplayed[i] \in Nat
          BY <3>5, <3>7, <5>1
        <5> QED BY <3>4, <5>2
      <4> QED BY <1>7, <4>1 DEF Descends
    <3>10. IsInjective(more)
      <4> SUFFICES ASSUME NEW i \in DOMAIN more, NEW j \in DOMAIN more, more[i] = more[j]
                   PROVE  i = j
        BY DEF IsInjective
      <4>1. q[i] \in New /\ q[j] \in New /\ Pic(q[i]).number = Pic(q[j]).number
        BY <1>14, <3>1, <3>4 DEF Range
      <4>2. q[i] = q[j]
        BY <1>16, <4>1
      <4> QED BY <1>14, <3>4, <4>2 DEF IsInjective
    <3> HIDE DEF A, B
    <3>11. Descends(undisplayed') /\ Range(undisplayed') = A \cup B
      <4>1. IsQueue(undisplayed)
        BY DEF QueueInv
      <4> QED BY <3>2, <3>3, <3>5, <3>6, <3>7, <3>8, <3>9, <3>10, <4>1, MergeSorted
    <3>12. A \cup B = {Pic(d).number : d \in Old \cup New}
      BY DEF A, B
    <3> QED BY <3>11, <3>12
  <2>2. CASE ~(frames > 1)
    <3>1. undisplayed' = undisplayed
      BY <1>4, <2>2
    <3>2. New = {}
      <4>1. h..(h + frames - 2) = {}
        BY <1>1, <1>2, <2>2
      <4> QED BY <4>1 DEF New
    <3>3. Old \cup New = Old
      BY <3>2
    <3> QED BY <1>7, <1>8, <3>1, <3>3
  <2> QED BY <2>1, <2>2
<1>18. \A d : Pic(d)' = Pic(d)
  BY VideoSame DEF SendUnit
<1>19. {Pic(d).number : d \in ToShow(n)}' = {Pic(d).number : d \in Old \cup New}
  BY <1>13, <1>18
<1>20. KeptInv(n)' <=> Descends(undisplayed') /\ Range(undisplayed') = {Pic(d).number : d \in ToShow(n)}'
  BY DEF KeptInv, Descends, Range
<1> QED BY <1>17, <1>19, <1>20

\* Sending a unit posts the packet of its shown picture.
LEMMA SendUnitStream ==
    ASSUME FlowTypes, QueueInv, RingInv, StreamInv, SendUnit
    PROVE  StreamInv' /\ Stream!Show
<1>1. PICK h \in 0..Len(video.pictures) : Sent(h) /\ CountInv(h + unit) /\ KeptInv(h + unit) /\ EntriesInv(h)
  BY DEF StreamInv, StreamAt
<1>2. PrefixInv /\ MetadataInv /\ NeedsInv
  BY DEF StreamInv
<1> DEFINE frames == FramesInNextUnit
           e == h + frames - 1
           m == ShownPackets
<1>3. /\ unit = 0 /\ Owed = 0 /\ frames \in 1..Size /\ e \in Pictures
      /\ h..e \subseteq packetized /\ Pic(e).show /\ Pic(e).number = m
      /\ Entry(frames - 1).pic = e /\ Entry(frames - 1).metadata = Tag(m)
  BY <1>1, <1>2, UnitIsNext
<1>4. h \in Nat /\ Size \in Nat /\ m \in Nat /\ e \in Nat /\ video.last \in Nat
  BY <1>2, <1>3, SettingsOK, PictureOK DEF PrefixInv
<1>5. /\ unit' = frames
      /\ stream' = Append(stream, Packet(Pic(Entry(frames - 1).pic).number, Pic(Entry(frames - 1).pic).number, Entry(frames - 1).metadata))
      /\ packer' = IF Pic(Entry(frames - 1).pic).existing THEN "shows" ELSE "counts"
      /\ UNCHANGED <<video, started, packetized, ring, metadata, shown>>
  BY DEF SendUnit, Post, endVars
<1> HIDE DEF frames, m
<1>6. m <= video.last
  <2>1. m \in Displayed(Pic(e)) /\ Displayed(Pic(e)) \subseteq 0..video.last
    BY <1>3, OrderOK DEF Displayed
  <2> QED BY <2>1
<1>7. stream' = Append(stream, Packet(m, m, Tag(m)))
  BY <1>3, <1>5
<1>8. PrefixInv' /\ ShownPackets' = m + 1 /\ Stream!Show
  BY <1>2, <1>5, <1>6, <1>7, PostPicture DEF m
<1>9. PICK n \in Nat : n = h + frames
  BY <1>3, <1>4
<1>10. KeptInv(n)'
  BY <1>1, <1>2, <1>8, <1>9, SendUnitKeeps DEF m, frames
<1>11. n = h + unit' /\ n - 1 = e /\ e + 1 = n
  BY <1>3, <1>4, <1>5, <1>9
<1>12. Sent(h)'
  <2>1. SentSame
    BY SendUnitRing
  <2>2. PICK k \in 0..Len(video.pictures) : Sent(k) /\ Sent(k)'
    BY <2>1 DEF SentSame
  <2> QED BY <1>1, <2>2, SentUnique
<1>13. Owed' = IF Pic(e).existing THEN 1 ELSE 0
  BY <1>3, <1>5 DEF Owed
<1>14. CountInv(n)'
  <2>1. DisplayedUpto(n) = DisplayedUpto(e) \cup Displayed(Pic(e)) /\ DisplayedUpto(e) = 0..(m - 1)
    BY <1>3, <1>11, DisplayStep, OrderOK
  <2>2. Displayed(Pic(e)) = IF Pic(e).existing THEN {m, m + 1} ELSE {m}
    BY <1>3 DEF Displayed
  <2>3. DisplayedUpto(n) = 0..(m + 1 + Owed' - 1)
    <3>1. CASE Pic(e).existing
      BY <1>4, <1>13, <2>1, <2>2, <3>1
    <3>2. CASE ~Pic(e).existing
      BY <1>4, <1>13, <2>1, <2>2, <3>2
    <3> QED BY <3>1, <3>2
  <2>4. DisplayedBefore(video.pictures, n + 1)' = DisplayedUpto(n)
    BY <1>5 DEF DisplayedUpto, DisplayedBefore, Displayed
  <2>5. shown = m
    BY <1>1, <1>3 DEF CountInv, m
  <2>6. NewlyShown(n - 1)' = IF Pic(e).existing THEN 2 ELSE 1
    BY <1>5, <1>11, VideoSame DEF NewlyShown
  <2>7. shown' + NewlyShown(n - 1)' = m + 1 + Owed'
    BY <1>4, <1>5, <1>13, <2>5, <2>6
  <2>8. unit' > 0 /\ unit' # 0
    BY <1>3, <1>4, <1>5
  <2>9. Pic(n - 1)'.show /\ (packer' = "shows" => Pic(n - 1)'.existing)
    BY <1>3, <1>5, <1>11, VideoSame
  <2> QED BY <1>8, <2>3, <2>4, <2>7, <2>8, <2>9 DEF CountInv
<1>15. EntriesInv(h)' /\ MetadataInv' /\ NeedsInv'
  <2>1. EntriesInv(h)'
    BY <1>1, <1>5, VideoSame DEF EntriesInv
  <2>2. MetadataInv'
    BY <1>2, <1>5, VideoSame DEF MetadataInv, Shows
  <2>3. NeedsInv'
    BY <1>2, <1>5, VideoSame DEF NeedsInv
  <2> QED BY <2>1, <2>2, <2>3
<1>16. StreamAt(h)'
  <2> USE <1>10, <1>14, <1>15
  <2>1. StreamAt(h)' <=> (CountInv(h + unit) /\ KeptInv(h + unit) /\ EntriesInv(h))'
    BY DEF StreamAt
  <2>2. CountInv(h + unit)'
    BY <1>11 DEF CountInv
  <2>3. KeptInv(h + unit)'
    BY <1>11 DEF KeptInv, ToShow
  <2> QED BY <2>1, <2>2, <2>3
<1> QED BY <1>5, <1>8, <1>12, <1>15, <1>16 DEF StreamInv

\* The buffer kept for the longest time is the one of the picture that the header
\* of the picture just sent shows.
LEMMA OldestKept ==
    ASSUME FlowTypes, QueueInv, PrefixInv, NeedsInv, NEW n \in Nat, n - 1 \in Pictures, n - 1 \in packetized,
           CountInv(n), KeptInv(n), unit > 0, packer = "shows"
    PROVE  /\ Pic(n - 1).existing /\ Pic(n - 1).number + 1 = ShownPackets /\ ShownPackets <= video.last
           /\ undisplayed # <<>> /\ Last(undisplayed) = ShownPackets /\ Descends(Front(undisplayed))
           /\ Range(Front(undisplayed)) = Range(undisplayed) \ {ShownPackets}
<1> DEFINE e == n - 1
           m == ShownPackets
<1>1. m \in Nat /\ video.last \in Nat /\ e \in Nat /\ Pic(e).number \in Nat
  BY SettingsOK, PictureOK DEF PrefixInv
<1>2. Pic(e).show /\ Pic(e).existing /\ Owed = 1
  BY DEF CountInv, Owed
<1> HIDE DEF m
<1>3. DisplayedUpto(n) = 0..m
  <2>1. m + Owed - 1 = m
    BY <1>1, <1>2
  <2> QED BY <2>1 DEF CountInv, DisplayedUpto, m
<1>4. DisplayedUpto(n) = 0..(Pic(e).number + 1)
  <2>1. DisplayedUpto(e + 1) = DisplayedUpto(e) \cup Displayed(Pic(e)) /\ DisplayedUpto(e) = 0..(Pic(e).number - 1)
    BY <1>2, DisplayStep, OrderOK
  <2>2. Displayed(Pic(e)) = {Pic(e).number, Pic(e).number + 1} /\ e + 1 = n
    BY <1>2 DEF Displayed
  <2>3. PICK k \in Nat : k = Pic(e).number
    BY <1>1
  <2>4. DisplayedUpto(n) = 0..(k - 1) \cup {k, k + 1}
    BY <2>1, <2>2, <2>3
  <2>5. 0..(k - 1) \cup {k, k + 1} = 0..(k + 1)
    OBVIOUS
  <2> QED BY <2>3, <2>4, <2>5
<1>5. Pic(e).number + 1 = m
  <2>1. 0..((m + 1) - 1) = 0..((Pic(e).number + 2) - 1)
    BY <1>1, <1>3, <1>4
  <2> QED BY <1>1, <2>1, IntervalEnd
<1>6. m <= video.last
  <2>1. m \in Displayed(Pic(e)) /\ Displayed(Pic(e)) \subseteq 0..video.last
    BY <1>2, <1>5, OrderOK DEF Displayed
  <2> QED BY <2>1
<1>7. PICK d \in Pic(e).needs : d \in Pictures /\ Waits(Pic(d)) /\ Pic(d).number = m
  BY <1>2, <1>5, OrderOK
<1>8. d \in ToShow(n)
  <2>1. d \in 0..(e - 1) /\ d \in Nat
    BY <1>7, PictureOK
  <2>2. d \in 0..(n - 1)
    BY <1>1, <2>1
  <2> QED BY <1>1, <1>7, <2>2 DEF ToShow, m
<1>9. \A c \in ToShow(n) : Pic(c).number \in Nat /\ Pic(c).number >= m
  <2>1. \A c \in 0..(n - 1) : c \in Pictures
    <3>1. e <= Len(video.pictures) - 1 /\ Len(video.pictures) \in Nat
      BY SettingsOK DEF Pictures
    <3> QED BY <1>1, <3>1 DEF Pictures
  <2> QED BY <2>1, PictureOK DEF ToShow, m
<1> DEFINE R == {Pic(c).number : c \in ToShow(n)}
<1>10. Range(undisplayed) = R /\ Descends(undisplayed)
  BY DEF KeptInv
<1>11. R \subseteq Nat /\ m \in R /\ \A x \in R : x >= m
  BY <1>7, <1>8, <1>9
<1> HIDE DEF R
<1>12. IsQueue(undisplayed)
  BY DEF QueueInv
<1>13. /\ undisplayed # <<>> /\ Last(undisplayed) = m /\ Descends(Front(undisplayed))
       /\ Range(Front(undisplayed)) = Range(undisplayed) \ {m}
  BY <1>10, <1>11, <1>12, FrontDescends
<1> QED BY <1>2, <1>5, <1>6, <1>13 DEF m

\* The header that shows a hidden picture posts that picture's packet.
LEMMA ShowExistingStream ==
    ASSUME FlowTypes, QueueInv, RingInv, StreamInv, ShowExisting
    PROVE  StreamInv' /\ Stream!Show
<1>1. PICK h \in 0..Len(video.pictures) : Sent(h) /\ CountInv(h + unit) /\ KeptInv(h + unit) /\ EntriesInv(h)
  BY DEF StreamInv, StreamAt
<1>2. PrefixInv /\ MetadataInv /\ NeedsInv
  BY DEF StreamInv
<1>3. h \in Nat /\ Size \in Nat /\ unit \in 1..Size /\ video.last \in Nat /\ packer = "shows"
  BY SettingsOK DEF RingInv, ShowExisting
<1>4. PICK n \in Nat : n = h + unit
  BY <1>3
<1> DEFINE e == n - 1
           m == ShownPackets
<1>5. e \in packetized /\ e \in Pictures /\ e \in Nat /\ e >= h
  <2>1. h..(h + unit - 1) \subseteq packetized
    BY <1>1 DEF Sent
  <2>2. e \in h..(h + unit - 1)
    BY <1>3, <1>4
  <2> QED BY <1>3, <2>1, <2>2 DEF FlowTypes
<1>6. /\ Pic(e).existing /\ Pic(e).number + 1 = m /\ m <= video.last
      /\ undisplayed # <<>> /\ Last(undisplayed) = m /\ Descends(Front(undisplayed))
      /\ Range(Front(undisplayed)) = Range(undisplayed) \ {m}
  <2>1. CountInv(n) /\ KeptInv(n)
    BY <1>1, <1>4
  <2> QED BY <1>2, <1>3, <1>5, <2>1, OldestKept
<1>7. Entry(unit - 1).pic = e /\ Entry(unit - 1).next = Tag(m)
  <2>1. unit - 1 \in 0..(Size - 1) /\ h + (unit - 1) = e
    BY <1>3, <1>4
  <2>2. Entry(unit - 1).pic = e /\ Entry(unit - 1) = ring[SlotOf(e)]
    BY <1>1, <1>3, <1>5, <2>1, EntryOK
  <2> QED BY <1>1, <1>5, <1>6, <2>2 DEF EntriesInv
<1>8. /\ stream' = Append(stream, Packet(Last(undisplayed), Pic(Entry(unit - 1).pic).number + 1, Entry(unit - 1).next))
      /\ undisplayed' = Front(undisplayed) /\ packer' = "counts"
      /\ UNCHANGED <<video, started, packetized, ring, metadata, shown, unit>>
  BY <1>6 DEF ShowExisting, Post, endVars
<1> HIDE DEF m
<1>9. stream' = Append(stream, Packet(m, m, Tag(m)))
  BY <1>6, <1>7, <1>8
<1>10. PrefixInv' /\ ShownPackets' = m + 1 /\ Stream!Show /\ m \in Nat
  <2>1. PrefixInv' /\ ShownPackets' = m + 1 /\ Stream!Show
    BY <1>2, <1>6, <1>8, <1>9, PostPicture DEF m
  <2> QED BY <1>2, <1>3, <2>1 DEF m, PrefixInv
<1>11. Sent(h)'
  <2>1. SentSame
    BY ShowExistingRing
  <2>2. PICK k \in 0..Len(video.pictures) : Sent(k) /\ Sent(k)'
    BY <2>1 DEF SentSame
  <2> QED BY <1>1, <2>2, SentUnique
<1>12. CountInv(n)'
  <2>1. Owed = 1 /\ Owed' = 0
    BY <1>3, <1>8 DEF Owed
  <2>2. DisplayedBefore(video.pictures, n + 1)' = DisplayedBefore(video.pictures, n + 1)
    BY <1>8 DEF DisplayedBefore, Displayed
  <2>3. NewlyShown(n - 1)' = NewlyShown(n - 1) /\ Pic(n - 1)' = Pic(n - 1)
    BY <1>8, VideoSame DEF NewlyShown
  <2>4. m + Owed = (m + 1) + Owed'
    BY <1>10, <2>1
  <2>5. CountInv(n)
    BY <1>1, <1>4
  <2>6. /\ DisplayedBefore(video.pictures, n + 1)' = 0..(ShownPackets' + Owed' - 1)
        /\ Pic(n - 1)'.show /\ shown + NewlyShown(n - 1)' = ShownPackets' + Owed'
    <3>1. ShownPackets' + Owed' = ShownPackets + Owed
      BY <1>10, <2>4 DEF m
    <3>2. DisplayedBefore(video.pictures, n + 1) = 0..(ShownPackets + Owed - 1)
      BY <2>5 DEF CountInv
    <3>3. Pic(n - 1).show /\ shown + NewlyShown(n - 1) = ShownPackets + Owed
      BY <1>3, <2>5 DEF CountInv
    <3>4. Pic(n - 1)'.show
      BY <2>3, <3>3
    <3>5. shown + NewlyShown(n - 1)' = ShownPackets' + Owed'
      BY <2>3, <3>1, <3>3
    <3>6. DisplayedBefore(video.pictures, n + 1)' = 0..(ShownPackets' + Owed' - 1)
      <4>1. DisplayedUpto(n)' = DisplayedUpto(n) /\ DisplayedUpto(n) = 0..(ShownPackets + Owed - 1)
        BY <1>8, <3>2, VideoSame DEF DisplayedUpto
      <4>2. DisplayedUpto(n)' = 0..(ShownPackets' + Owed' - 1)
        <5>1. ShownPackets' + Owed' - 1 = m /\ ShownPackets + Owed - 1 = m
          BY <1>10, <2>1 DEF m
        <5> QED BY <4>1, <5>1
      <4> QED BY <4>2, Zenon DEF DisplayedUpto
    <3> QED BY <3>4, <3>5, <3>6
  <2>7. ~(unit' = 0) /\ shown' = shown /\ ~(packer' = "shows")
    BY <1>3, <1>8
  <2> QED BY <2>6, <2>7 DEF CountInv
<1>13. KeptInv(n)'
  <2>1. Range(undisplayed) = {Pic(d).number : d \in ToShow(n)}
    BY <1>1, <1>4 DEF KeptInv
  <2>2. ToShow(n) = {d \in 0..(n - 1) : Waits(Pic(d)) /\ Pic(d).number >= m}
    BY DEF ToShow, m
  <2>3. ToShow(n)' = {d \in 0..(n - 1) : Waits(Pic(d)) /\ Pic(d).number >= m + 1}
    BY <1>8, <1>10, VideoSame DEF ToShow
  <2>4. \A d \in 0..(n - 1) : Pic(d).number \in Nat
    <3>1. \A c \in 0..(n - 1) : c \in Pictures
      <4>1. e <= Len(video.pictures) - 1 /\ Len(video.pictures) \in Nat
        BY <1>5, SettingsOK DEF Pictures
      <4> QED BY <4>1 DEF Pictures
    <3> QED BY <3>1, PictureOK
  <2>5. \A d \in ToShow(n) : d \in ToShow(n)' <=> Pic(d).number # m
    BY <1>10, <2>2, <2>3, <2>4
  <2>6. ToShow(n)' \subseteq ToShow(n)
    BY <1>10, <2>2, <2>3, <2>4
  <2>7. \A d : Pic(d)' = Pic(d)
    BY <1>8, VideoSame
  <2>8. {Pic(d).number : d \in ToShow(n)}' = {Pic(d).number : d \in ToShow(n)} \ {m}
    <3>1. {Pic(d).number : d \in ToShow(n)}' = {Pic(d).number : d \in ToShow(n)'}
      BY <2>7
    <3> QED BY <2>5, <2>6, <3>1
  <2>9. Range(undisplayed') = {Pic(d).number : d \in ToShow(n)}' /\ Descends(undisplayed')
    BY <1>6, <1>8, <2>1, <2>8
  <2> QED BY <2>9 DEF KeptInv, Descends, Range
<1>14. EntriesInv(h)' /\ MetadataInv' /\ NeedsInv'
  <2>1. EntriesInv(h)'
    BY <1>1, <1>8, VideoSame DEF EntriesInv
  <2>2. MetadataInv'
    BY <1>2, <1>8, VideoSame DEF MetadataInv, Shows
  <2>3. NeedsInv'
    BY <1>2, <1>8, VideoSame DEF NeedsInv
  <2> QED BY <2>1, <2>2, <2>3
<1>15. StreamAt(h)'
  <2>1. StreamAt(h)' <=> (CountInv(h + unit) /\ KeptInv(h + unit) /\ EntriesInv(h))'
    BY DEF StreamAt
  <2>2. n = h + unit'
    BY <1>4, <1>8
  <2>3. CountInv(h + unit)'
    BY <1>12, <2>2 DEF CountInv
  <2>4. KeptInv(h + unit)'
    BY <1>13, <2>2 DEF KeptInv, ToShow
  <2> QED BY <1>14, <2>1, <2>3, <2>4
<1> QED BY <1>8, <1>10, <1>11, <1>14, <1>15 DEF StreamInv

\* The pictures of a unit are counted once its packets are posted.
LEMMA CountShownStream ==
    ASSUME FlowTypes, QueueInv, RingInv, StreamInv, CountShown
    PROVE  StreamInv'
<1>1. PICK h \in 0..Len(video.pictures) : Sent(h) /\ CountInv(h + unit) /\ KeptInv(h + unit) /\ EntriesInv(h)
  BY DEF StreamInv, StreamAt
<1>2. PrefixInv /\ MetadataInv /\ NeedsInv
  BY DEF StreamInv
<1>3. h \in Nat /\ Size \in Nat /\ unit \in 1..Size /\ packer = "counts"
  BY SettingsOK DEF RingInv, CountShown
<1>4. PICK n \in 0..Len(video.pictures) : n = h + unit /\ Sent(n)'
  <2>1. PICK g, k \in 0..Len(video.pictures) : Sent(g) /\ k = g + unit /\ Sent(k)'
    BY CountShownRing
  <2>2. g = h
    BY <1>1, <2>1, SentUnique
  <2> QED BY <2>1, <2>2
<1>5. /\ UNCHANGED <<video, stream, started, packetized, metadata, undisplayed>>
      /\ unit' = 0 /\ packer' = "looks" /\ shown' = shown + NewlyShown(Entry(unit - 1).pic)
      /\ ring' = [i \in Slot |-> IF \E j \in 0..(unit - 1) : i = (head + j) % Size THEN NoEntry ELSE ring[i]]
  BY DEF CountShown, endVars
<1>6. PrefixInv' /\ ShownPackets' = ShownPackets
  BY <1>2, <1>5, StreamSame
<1>7. Owed = 0 /\ Owed' = 0
  BY <1>3, <1>5 DEF Owed
<1>8. Entry(unit - 1).pic = n - 1
  <2>1. h + (unit - 1) \in h..(h + unit - 1) /\ unit - 1 \in 0..(Size - 1)
    BY <1>3
  <2>2. h + (unit - 1) \in packetized
    BY <1>1, <2>1 DEF Sent
  <2>3. h + (unit - 1) = n - 1
    BY <1>3, <1>4
  <2> QED BY <1>1, <1>3, <2>1, <2>2, <2>3, EntryOK
<1>9. CountInv(n)'
  <2>1. CountInv(n) /\ unit > 0
    BY <1>1, <1>3, <1>4
  <2>2. DisplayedBefore(video.pictures, n + 1)' = DisplayedBefore(video.pictures, n + 1)
    BY <1>5 DEF DisplayedBefore, Displayed
  <2>3. shown' = ShownPackets + Owed
    BY <1>5, <1>8, <2>1 DEF CountInv
  <2>4. shown' = ShownPackets'
    <3>1. ShownPackets \in Int
      BY <1>2, SettingsOK DEF PrefixInv
    <3> QED BY <1>6, <1>7, <2>3, <3>1
  <2>5. DisplayedBefore(video.pictures, n + 1)' = 0..(ShownPackets' + Owed' - 1)
    BY <1>6, <1>7, <2>1, <2>2 DEF CountInv
  <2>6. ~(unit' > 0)
    BY <1>5
  <2> QED BY <2>4, <2>5, <2>6 DEF CountInv
<1>10. KeptInv(n)'
  <2>1. KeptInv(n)
    BY <1>1, <1>4
  <2>2. ToShow(n)' = ToShow(n) /\ \A d : Pic(d)' = Pic(d)
    BY <1>5, <1>6, VideoSame DEF ToShow
  <2>3. {Pic(d).number : d \in ToShow(n)}' = {Pic(d).number : d \in ToShow(n)}
    BY <2>2
  <2> QED BY <1>5, <2>1, <2>3 DEF KeptInv, Descends, Range
<1>11. EntriesInv(n)'
  <2> SUFFICES ASSUME NEW d \in packetized, d >= n
               PROVE  /\ Pic(d).show => ring'[SlotOf(d)].metadata = Tag(Pic(d).number)
                      /\ Pic(d).existing => ring'[SlotOf(d)].next = Tag(Pic(d).number + 1)
    BY <1>5, VideoSame DEF EntriesInv
  <2>1. ring'[SlotOf(d)].pic = d /\ d \in Nat
    <3>1. ring'[SlotOf(d)].pic = d
      BY <1>4, <1>5, VideoSame DEF Sent
    <3> QED BY <3>1, PictureOK DEF FlowTypes
  <2>2. SlotOf(d) \in Slot
    BY <2>1, SettingsOK DEF SlotOf, Slot
  <2>3. ring'[SlotOf(d)] = ring[SlotOf(d)]
    <3>1. ring'[SlotOf(d)] = NoEntry \/ ring'[SlotOf(d)] = ring[SlotOf(d)]
      BY <1>5, <2>2
    <3>2. NoEntry.pic # d
      BY <2>1 DEF NoEntry, None
    <3> QED BY <2>1, <3>1, <3>2
  <2>4. d >= h
    BY <1>3, <1>4, <2>1
  <2> QED BY <1>1, <2>3, <2>4 DEF EntriesInv
<1>12. MetadataInv' /\ NeedsInv'
  <2>1. MetadataInv'
    BY <1>2, <1>5, VideoSame DEF MetadataInv, Shows
  <2>2. NeedsInv'
    BY <1>2, <1>5, VideoSame DEF NeedsInv
  <2> QED BY <2>1, <2>2
<1>13. StreamAt(n)'
  <2>1. n + unit' = n
    BY <1>3, <1>4, <1>5
  <2>2. CountInv(n + unit)'
    BY <1>9, <2>1 DEF CountInv
  <2>3. KeptInv(n + unit)'
    BY <1>10, <2>1 DEF KeptInv, ToShow
  <2> QED BY <1>11, <2>2, <2>3 DEF StreamAt
<1> QED BY <1>4, <1>5, <1>6, <1>12, <1>13 DEF StreamInv

\* Whoever finds that all pictures are counted posts the end.
LEMMA AllShown ==
    ASSUME FlowTypes, QueueInv, RingInv, StreamInv, EndInv, unit = 0, shown = video.last + 1
    PROVE  ShownPackets = video.last + 1
<1>1. PICK h \in 0..Len(video.pictures) : CountInv(h + unit)
  BY DEF StreamInv, StreamAt
<1> QED BY <1>1 DEF CountInv

LEMMA LeaveStream ==
    ASSUME FlowTypes, QueueInv, RingInv, StreamInv, EndInv, Leave
    PROVE  StreamInv' /\ (Stream!End \/ UNCHANGED stream)
<1>1. /\ UNCHANGED <<video, started, unit, ring, metadata, undisplayed, shown, packetized>>
      /\ packer = "looks" /\ packer' = "waits"
  BY DEF Leave, ringVars
<1>2. PrefixInv /\ NeedsInv
  BY DEF StreamInv
<1>3. NeedsInv' /\ Owed' = Owed /\ SentSame
  <2>1. NeedsInv'
    BY <1>1, <1>2, VideoSame DEF NeedsInv
  <2>2. Owed' = Owed
    BY <1>1 DEF Owed
  <2> QED BY <2>1, <2>2, LeaveRing
<1>4. CASE eos
  <2>1. ~Ended /\ shown = video.last + 1 /\ unit = 0
    BY <1>1, <1>4 DEF EndInv, RingInv
  <2>2. stream' = Append(stream, Stream!EndOfStream)
    BY <1>4 DEF Leave, Post
  <2>3. PrefixInv' /\ ShownPackets' = ShownPackets /\ Stream!End
    BY <1>1, <1>2, <2>1, <2>2, AllShown, PostEnd
  <2>4. StreamInv'
    BY <1>1, <1>3, <2>3, StreamFrame
  <2> QED BY <2>3, <2>4
<1>5. CASE ~eos
  <2>1. stream' = stream
    BY <1>5 DEF Leave
  <2>2. PrefixInv' /\ ShownPackets' = ShownPackets
    BY <1>1, <1>2, <2>1, StreamSame
  <2>3. StreamInv'
    BY <1>1, <1>3, <2>2, StreamFrame
  <2> QED BY <2>1, <2>3
<1> QED BY <1>4, <1>5

LEMMA SignalEndStream ==
    ASSUME FlowTypes, QueueInv, RingInv, StreamInv, EndInv, SignalEnd
    PROVE  StreamInv' /\ (Stream!End \/ UNCHANGED stream)
<1>1. /\ UNCHANGED <<video, started, unit, ring, metadata, undisplayed, shown, packetized, packer>>
      /\ coordinator = "terminates"
  BY DEF SignalEnd, ringVars
<1>2. PrefixInv /\ NeedsInv
  BY DEF StreamInv
<1>3. NeedsInv' /\ Owed' = Owed /\ SentSame
  <2>1. NeedsInv'
    BY <1>1, <1>2, VideoSame DEF NeedsInv
  <2>2. Owed' = Owed
    BY <1>1 DEF Owed
  <2> QED BY <2>1, <2>2, SignalEndRing
<1>4. lock = "coordination" /\ ~Ended /\ unit = 0 /\ terminating = video.last
  <2>1. lock = "coordination" /\ ~Ended /\ terminating = video.last /\ ~(packer \in {"looks", "shows", "counts"})
    BY <1>1 DEF EndInv
  <2>2. ~(unit > 0) /\ unit \in 0..Size /\ Size \in Nat
    BY <2>1, SettingsOK DEF RingInv
  <2> QED BY <2>1, <2>2
<1>5. CASE shown = terminating + 1
  <2>1. stream' = Append(stream, Stream!EndOfStream)
    BY <1>5 DEF SignalEnd, Post
  <2>2. shown = video.last + 1
    BY <1>4, <1>5
  <2>3. PrefixInv' /\ ShownPackets' = ShownPackets /\ Stream!End
    BY <1>1, <1>2, <1>4, <2>1, <2>2, AllShown, PostEnd
  <2>4. StreamInv'
    BY <1>1, <1>3, <2>3, StreamFrame
  <2> QED BY <2>3, <2>4
<1>6. CASE ~(shown = terminating + 1)
  <2>1. stream' = stream
    BY <1>6 DEF SignalEnd
  <2>2. PrefixInv' /\ ShownPackets' = ShownPackets
    BY <1>1, <1>2, <2>1, StreamSame
  <2>3. StreamInv'
    BY <1>1, <1>3, <2>2, StreamFrame
  <2> QED BY <2>1, <2>3
<1> QED BY <1>5, <1>6

\* A hidden picture does not meet, in the entry of its number, the metadata of
\* one that waits to be shown.
LEMMA MetadataRoom ==
    ASSUME FlowTypes, OrderInv, NEW d \in started \ packetized, ~Pic(d).show,
           NEW c \in packetized, NEW s \in Pictures \ packetized, Waits(Pic(c)), Shows(video.pictures, s + 1, c + 1)
    PROVE  SlotOf(Pic(c).number) # SlotOf(Pic(d).number)
<1>1. MetadataIsGone(video, packetized, d)
  BY OvertakingOK
<1>2. s \in 0..(Len(video.pictures) - 1) /\ s \notin packetized
  BY DEF Pictures
<1> QED BY <1>1, <1>2 DEF MetadataIsGone, Pic, SlotOf, Size

\* Writing a picture leaves the metadata of each hidden one where its header will
\* look for it, and takes what it shows itself.
LEMMA WriteMetadata ==
    ASSUME FlowTypes, OrderInv, MetadataInv, NeedsInv, NEW d \in started \ packetized, Write(d)
    PROVE  /\ MetadataInv'
           /\ Pic(d).existing => MetadataKept(d)[SlotOf(ShownNext(d))] = Tag(Pic(d).number + 1)
<1>1. /\ packetized' = packetized \cup {d} /\ video' = video
      /\ metadata' = IF Pic(d).existing THEN [MetadataKept(d) EXCEPT ![SlotOf(ShownNext(d))] = None] ELSE MetadataKept(d)
  BY DEF Write
<1>2. d \in Pictures /\ d \in Nat /\ packetized \subseteq started /\ started \subseteq Pictures /\ (Pic(d).existing => Pic(d).show)
  BY OrderOK, PictureOK DEF FlowTypes
<1>3. DOMAIN metadata = Slot /\ \A c \in Pictures : c \in Nat /\ Pic(c).number \in Nat /\ SlotOf(Pic(c).number) \in Slot
  <2>1. \A n \in Nat : SlotOf(n) \in Slot
    BY SettingsOK DEF SlotOf, Slot
  <2> QED BY <2>1, PictureOK DEF MetadataInv
<1>4. ASSUME Pic(d).existing
      PROVE  /\ MetadataKept(d) = metadata
             /\ \E e \in packetized : /\ e \in Pictures /\ e < d /\ Waits(Pic(e)) /\ Pic(e).number = Pic(d).number + 1
                                      /\ Shows(video.pictures, d + 1, e + 1)
                                      /\ metadata[SlotOf(Pic(e).number)] = Tag(Pic(e).number)
  <2>1. PICK e \in Pic(d).needs : e \in Pictures /\ Waits(Pic(e)) /\ Pic(e).number = Pic(d).number + 1
    BY <1>2, <1>4, OrderOK
  <2>2. e \in packetized /\ e < d
    <3>1. e \in packetized /\ e \in 0..(d - 1)
      BY <1>2, <2>1, PictureOK DEF NeedsInv
    <3> QED BY <1>2, <3>1
  <2>3. Shows(video.pictures, d + 1, e + 1)
    BY <1>2, <1>4, <2>1, PictureOK DEF Shows
  <2>4. metadata[SlotOf(Pic(e).number)] = Tag(Pic(e).number)
    BY <1>2, <2>1, <2>2, <2>3 DEF MetadataInv
  <2> QED BY <1>2, <1>4, <2>1, <2>2, <2>3, <2>4 DEF MetadataKept
<1>5. Pic(d).existing => MetadataKept(d)[SlotOf(ShownNext(d))] = Tag(Pic(d).number + 1)
  BY <1>4 DEF ShownNext
<1>6. DOMAIN metadata' = Slot
  BY <1>1, <1>3 DEF MetadataKept
<1>7. ASSUME NEW c \in packetized \cup {d}, NEW s \in Pictures \ (packetized \cup {d}),
             Waits(Pic(c)), Shows(video.pictures, s + 1, c + 1)
      PROVE  metadata'[SlotOf(Pic(c).number)] = Tag(Pic(c).number)
  <2>1. c \in Pictures /\ c \in started /\ SlotOf(Pic(c).number) \in Slot /\ s \in Pictures \ packetized /\ s # d
    BY <1>2, <1>3
  <2>2. d \in Pictures \ packetized /\ (c # d => c \in packetized)
    BY <1>2
  <2>3. CASE ~Pic(d).show
    <3>1. metadata' = [metadata EXCEPT ![SlotOf(Pic(d).number)] = Tag(Pic(d).number)]
      BY <1>1, <1>2, <2>3 DEF MetadataKept, InputMetadata, Tag
    <3>2. CASE c = d
      BY <1>3, <2>1, <3>1, <3>2
    <3>3. CASE c # d
      <4>1. SlotOf(Pic(c).number) # SlotOf(Pic(d).number)
        BY <1>7, <2>1, <2>2, <2>3, <3>3, MetadataRoom
      <4>2. metadata'[SlotOf(Pic(c).number)] = metadata[SlotOf(Pic(c).number)]
        BY <1>3, <2>1, <3>1, <4>1
      <4> QED BY <1>7, <2>1, <2>2, <3>3, <4>2 DEF MetadataInv
    <3> QED BY <3>2, <3>3
  <2>4. CASE Pic(d).show /\ ~Pic(d).existing
    <3>1. metadata' = metadata /\ c # d
      BY <1>1, <1>7, <2>4 DEF MetadataKept, Waits
    <3> QED BY <1>7, <2>1, <2>2, <3>1 DEF MetadataInv
  <2>5. CASE Pic(d).existing
    <3>1. PICK e \in packetized : e \in Pictures /\ e < d /\ Waits(Pic(e)) /\ Pic(e).number = Pic(d).number + 1
                                  /\ Shows(video.pictures, d + 1, e + 1)
      BY <1>4, <2>5
    <3>2. metadata' = [metadata EXCEPT ![SlotOf(Pic(e).number)] = None] /\ c # d
      BY <1>1, <1>2, <1>4, <1>7, <2>5, <3>1 DEF ShownNext, Waits
    <3>3. c # e
      <4>1. Pic(s).existing /\ Pic(s).number + 1 = Pic(c).number /\ Pic(s).number \in Nat /\ Pic(d).number \in Nat /\ Pic(s).show
        <5>1. Pic(s) = video.pictures[s + 1] /\ Pic(c) = video.pictures[c + 1]
          BY <2>1, PictureOK
        <5>2. Pic(s).existing /\ Pic(s).number + 1 = Pic(c).number
          BY <1>7, <5>1 DEF Shows
        <5>3. Pic(s).show
          BY <2>1, <5>2, OrderOK
        <5> QED BY <1>2, <1>3, <2>1, <5>2, <5>3
      <4> QED BY <1>2, <2>1, <2>5, <3>1, <4>1, ShownByOne
    <3>4. c \in packetized
      BY <2>2, <3>2
    <3>5. SlotOf(Pic(c).number) # SlotOf(Pic(e).number)
      BY <1>7, <2>1, <2>2, <3>1, <3>3, <3>4 DEF MetadataInv
    <3>6. metadata'[SlotOf(Pic(c).number)] = metadata[SlotOf(Pic(c).number)]
      BY <1>3, <2>1, <3>2, <3>5
    <3> QED BY <1>7, <2>1, <2>2, <3>2, <3>6 DEF MetadataInv
  <2> QED BY <1>2, <2>3, <2>4, <2>5
<1>8. ASSUME NEW c \in packetized \cup {d}, NEW e \in packetized \cup {d}, c # e,
             NEW s \in Pictures \ (packetized \cup {d}), NEW t \in Pictures \ (packetized \cup {d}),
             Waits(Pic(c)), Shows(video.pictures, s + 1, c + 1), Waits(Pic(e)), Shows(video.pictures, t + 1, e + 1)
      PROVE  SlotOf(Pic(c).number) # SlotOf(Pic(e).number)
  <2>1. s \in Pictures \ packetized /\ t \in Pictures \ packetized /\ ~Pic(c).show /\ ~Pic(e).show
    BY <1>8 DEF Waits
  <2>2. CASE c \in packetized /\ e \in packetized
    BY <1>8, <2>1, <2>2 DEF MetadataInv
  <2>3. CASE c = d
    <3>1. e \in packetized
      BY <1>8, <2>3
    <3>2. SlotOf(Pic(e).number) # SlotOf(Pic(d).number)
      BY <1>8, <2>1, <2>3, <3>1, MetadataRoom
    <3> QED BY <2>3, <3>2
  <2>4. CASE e = d
    <3>1. c \in packetized
      BY <1>8, <2>4
    <3>2. SlotOf(Pic(c).number) # SlotOf(Pic(d).number)
      BY <1>8, <2>1, <2>4, <3>1, MetadataRoom
    <3> QED BY <2>4, <3>2
  <2> QED BY <2>2, <2>3, <2>4
<1>9. MetadataInv'
  <2>1. \A c \in packetized', s \in Pictures \ packetized' :
           Waits(Pic(c)) /\ Shows(video.pictures, s + 1, c + 1) => metadata'[SlotOf(Pic(c).number)] = Tag(Pic(c).number)
    BY <1>1, <1>7
  <2>2. \A c, e \in packetized', s, t \in Pictures \ packetized' :
           /\ c # e /\ Waits(Pic(c)) /\ Shows(video.pictures, s + 1, c + 1)
           /\ Waits(Pic(e)) /\ Shows(video.pictures, t + 1, e + 1)
           => SlotOf(Pic(c).number) # SlotOf(Pic(e).number)
    BY <1>1, <1>8
  <2> QED BY <1>1, <1>6, <2>1, <2>2, VideoSame DEF MetadataInv, Shows
<1> QED BY <1>5, <1>9

\* A picture's entry carries the metadata of the packets that it will become.
LEMMA WriteStream ==
    ASSUME FlowTypes, OrderInv, QueueInv, RingInv, StreamInv, NEW d \in started \ packetized, Write(d)
    PROVE  StreamInv'
<1>1. PICK h \in 0..Len(video.pictures) : Sent(h) /\ CountInv(h + unit) /\ KeptInv(h + unit) /\ EntriesInv(h)
  BY DEF StreamInv, StreamAt
<1>2. PrefixInv /\ MetadataInv /\ NeedsInv
  BY DEF StreamInv
<1>3. /\ UNCHANGED <<video, stream, started, unit, undisplayed, shown>> /\ packetized' = packetized \cup {d}
      /\ packer = "waits" /\ packer' = "written"
      /\ ring' = [ring EXCEPT ![SlotOf(d)] =
                  [pic |-> d,
                   metadata |-> IF Pic(d).show THEN InputMetadata(d) ELSE None,
                   next |-> IF Pic(d).existing THEN MetadataKept(d)[SlotOf(ShownNext(d))] ELSE None]]
  BY DEF Write, Arrives, endVars
<1>4. PrefixInv' /\ ShownPackets' = ShownPackets
  BY <1>2, <1>3, StreamSame
<1>5. Owed' = Owed
  BY <1>3 DEF Owed
<1>6. CountInv(h + unit)' /\ KeptInv(h + unit)'
  BY <1>1, <1>3, <1>4, <1>5, CountKeptSame
<1>7. Sent(h)'
  <2>1. SentSame
    BY WriteRing
  <2>2. PICK k \in 0..Len(video.pictures) : Sent(k) /\ Sent(k)'
    BY <2>1 DEF SentSame
  <2> QED BY <1>1, <2>2, SentUnique
<1>8. MetadataInv' /\ (Pic(d).existing => MetadataKept(d)[SlotOf(ShownNext(d))] = Tag(Pic(d).number + 1))
  BY <1>2, WriteMetadata
<1>9. \A c \in packetized \cup {d} : c \in Nat
  BY PictureOK DEF FlowTypes
<1>10. EntriesInv(h)'
  <2> SUFFICES ASSUME NEW c \in packetized \cup {d}, c >= h
               PROVE  /\ Pic(c).show => ring'[SlotOf(c)].metadata = Tag(Pic(c).number)
                      /\ Pic(c).existing => ring'[SlotOf(c)].next = Tag(Pic(c).number + 1)
    BY <1>3, VideoSame DEF EntriesInv
  <2>1. SlotOf(d) \in Slot /\ DOMAIN ring = Slot
    <3>1. d \in Nat /\ Size \in Nat \ {0}
      BY <1>9, SettingsOK
    <3> QED BY <3>1, Remainder DEF SlotOf, Slot, RingInv
  <2>2. CASE c = d
    BY <1>3, <1>8, <2>1, <2>2 DEF InputMetadata, Tag
  <2>3. CASE c # d
    <3>1. ring'[SlotOf(c)].pic = c
      BY <1>3, <1>7, VideoSame DEF Sent
    <3>2. ring'[SlotOf(d)].pic = d
      BY <1>3, <2>1
    <3>3. SlotOf(c) # SlotOf(d)
      BY <2>3, <3>1, <3>2
    <3>4. ring'[SlotOf(c)] = ring[SlotOf(c)]
      BY <1>3, <3>3
    <3> QED BY <1>1, <2>3, <3>4 DEF EntriesInv
  <2> QED BY <2>2, <2>3
<1>11. NeedsInv'
  BY <1>2, <1>3, VideoSame DEF NeedsInv
<1> QED BY <1>3, <1>4, <1>6, <1>7, <1>8, <1>10, <1>11 DEF StreamInv, StreamAt

\* What concerns neither the stream nor what will be posted.
LEMMA QuietStream ==
    ASSUME FlowTypes, QueueInv, RingInv, StreamInv, SentSame, NeedsInv',
           UNCHANGED <<video, unit, ring, metadata, undisplayed, shown, packetized, stream>>,
           packer' = "shows" <=> packer = "shows"
    PROVE  StreamInv' /\ UNCHANGED stream
<1>1. PrefixInv' /\ ShownPackets' = ShownPackets
  BY StreamSame DEF StreamInv
<1>2. Owed' = Owed
  BY DEF Owed
<1> QED BY <1>1, <1>2, StreamFrame

-----------------------------------------------------------------------------
(* The refinement.                                                          *)

\* Nothing is posted yet.
LEMMA StreamInit == Init => StreamInv /\ Stream!Init
<1> SUFFICES ASSUME Init
             PROVE  StreamInv /\ Stream!Init
  OBVIOUS
<1>1. IInv
  BY InitOK
<1>2. FlowTypes /\ QueueInv /\ RingInv
  BY <1>1 DEF IInv, FlowInv
<1>3. /\ stream = <<>> /\ started = {} /\ packetized = {} /\ unit = 0 /\ shown = 0 /\ packer = "waits" /\ undisplayed = <<>>
      /\ metadata = [i \in Slot |-> None] /\ head = 0
  BY DEF Init
<1>4. video.last \in Nat /\ Len(video.pictures) \in Nat /\ Size \in Nat \ {0}
  BY <1>2, SettingsOK
<1>5. ~Ended /\ ShownPackets = 0 /\ Owed = 0
  BY <1>3 DEF Ended, ShownPackets, Owed
<1>6. PrefixInv /\ MetadataInv /\ NeedsInv
  BY <1>3, <1>4, <1>5 DEF PrefixInv, MetadataInv, NeedsInv
<1>7. PICK h \in 0..Len(video.pictures) : Sent(h)
  BY <1>2 DEF RingInv
<1>8. h = 0
  <2>1. 0..(h - 1) = {} /\ h \in Nat
    BY <1>3, <1>4, <1>7 DEF Sent
  <2>2. h > 0 => 0 \in 0..(h - 1)
    BY <2>1
  <2> QED BY <2>1, <2>2
<1>9. h + unit = 0
  BY <1>3, <1>8
<1>10. CountInv(0)
  <2>1. DisplayedBefore(video.pictures, 0 + 1) = {}
    BY DEF DisplayedBefore
  <2>2. 0..(ShownPackets + Owed - 1) = {}
    BY <1>5
  <2> QED BY <1>3, <1>5, <2>1, <2>2 DEF CountInv
<1>11. KeptInv(0)
  <2>1. ToShow(0) = {}
    BY DEF ToShow
  <2>2. Range(undisplayed) = {} /\ Descends(undisplayed)
    BY <1>3 DEF Range, Descends
  <2> QED BY <2>1, <2>2 DEF KeptInv
<1>12. EntriesInv(h)
  BY <1>3 DEF EntriesInv
<1>13. StreamAt(h)
  BY <1>9, <1>10, <1>11, <1>12 DEF StreamAt
<1> QED BY <1>3, <1>6, <1>7, <1>13 DEF StreamInv, Stream!Init

\* Every step keeps what holds of the stream, and posts the next packet promised
\* or nothing.
LEMMA StreamNext ==
    ASSUME IInv, StreamInv, [Next]_vars
    PROVE  StreamInv' /\ (Stream!Next \/ UNCHANGED stream)
<1>1. FlowInv /\ FlowTypes /\ OrderInv /\ QueueInv /\ RingInv /\ EndInv /\ NeedsInv
  BY DEF IInv, FlowInv, StreamInv
<1>2. ASSUME NEW d \in Pictures, Start(d)
      PROVE  StreamInv' /\ UNCHANGED stream
  <2>1. /\ UNCHANGED <<video, packetized, ring, head, undisplayed, unit, shown, metadata, packer, free, output, taken, stream>>
        /\ started' = started \cup {d} /\ Pic(d).needs \subseteq packetized
    BY <1>2 DEF Start, ringVars, endVars, appVars
  <2>2. NeedsInv'
    BY <1>1, <2>1, VideoSame DEF NeedsInv
  <2>3. SentSame
    BY <1>1, <2>1, RingFrame
  <2> QED BY <1>1, <2>1, <2>2, <2>3, QuietStream
<1>3. ASSUME UNCHANGED <<video, started, packetized, ring, unit, undisplayed, metadata, shown, stream>>, SentSame,
             packer' = "shows" <=> packer = "shows"
      PROVE  StreamInv' /\ UNCHANGED stream
  <2>1. NeedsInv'
    BY <1>1, <1>3, VideoSame DEF NeedsInv
  <2> QED BY <1>1, <1>3, <2>1, QuietStream
<1>4. ASSUME UNCHANGED <<video, started, packetized, ring, head, unit, undisplayed, metadata, shown, packer, free, output, taken, stream>>
      PROVE  StreamInv' /\ UNCHANGED stream
  <2>1. SentSame
    BY <1>1, <1>4, RingFrame
  <2> QED BY <1>3, <1>4, <2>1
<1>5. ASSUME NEW d \in Pictures, FilterPicture(d)
      PROVE  StreamInv' /\ UNCHANGED stream
  BY <1>4, <1>5 DEF FilterPicture, ringVars, endVars, appVars
<1>6. ASSUME NEW d \in Pictures, Recode(d)
      PROVE  StreamInv' /\ UNCHANGED stream
  BY <1>4, <1>6 DEF Recode, ringVars, endVars, appVars
<1>7. ASSUME NEW d \in Pictures, Write(d)
      PROVE  StreamInv' /\ UNCHANGED stream
  <2>1. d \in started \ packetized
    BY <1>1, <1>7, WriteFlow
  <2>2. UNCHANGED stream
    BY <1>7 DEF Write
  <2> QED BY <1>1, <1>7, <2>1, <2>2, WriteStream
<1>8. ASSUME Enter
      PROVE  StreamInv' /\ UNCHANGED stream
  <2>1. UNCHANGED <<video, started, packetized, ring, unit, undisplayed, metadata, shown, stream>> /\ packer = "written" /\ packer' = "looks"
    BY <1>8 DEF Enter, ringVars
  <2>2. SentSame
    BY <1>1, <1>8, EnterRing
  <2> QED BY <1>3, <2>1, <2>2
<1>9. SendUnit => StreamInv' /\ Stream!Show
  BY <1>1, SendUnitStream
<1>10. ShowExisting => StreamInv' /\ (Stream!Show \/ UNCHANGED stream)
  BY <1>1, ShowExistingStream
<1>11. CountShown => StreamInv' /\ UNCHANGED stream
  BY <1>1, CountShownStream DEF CountShown
<1>12. Leave => StreamInv' /\ (Stream!End \/ UNCHANGED stream)
  BY <1>1, LeaveStream
<1>13. TerminateSequence => StreamInv' /\ UNCHANGED stream
  BY <1>4 DEF TerminateSequence, ringVars, appVars
<1>14. SignalEnd => StreamInv' /\ (Stream!End \/ UNCHANGED stream)
  BY <1>1, SignalEndStream
<1>15. ASSUME GetPacket
       PROVE  StreamInv' /\ UNCHANGED stream
  <2>1. UNCHANGED <<video, started, packetized, ring, unit, undisplayed, metadata, shown, packer, stream>>
    BY <1>15 DEF GetPacket, ringVars, endVars
  <2>2. SentSame
    BY <1>1, <1>15, GetPacketRing
  <2> QED BY <1>3, <2>1, <2>2
<1>16. ASSUME ReleaseOutBuffer
       PROVE  StreamInv' /\ UNCHANGED stream
  <2>1. UNCHANGED <<video, started, packetized, ring, unit, undisplayed, metadata, shown, packer, stream>>
    BY <1>16 DEF ReleaseOutBuffer, ringVars, endVars
  <2>2. SentSame
    BY <1>1, <1>16, ReleaseRing
  <2> QED BY <1>3, <2>1, <2>2
<1>17. UNCHANGED vars => StreamInv' /\ UNCHANGED stream
  BY <1>4 DEF vars, ringVars, endVars, appVars
<1> QED BY <1>2, <1>5, <1>6, <1>7, <1>8, <1>9, <1>10, <1>11, <1>12, <1>13, <1>14, <1>15, <1>16, <1>17
        DEF Next, Packetize, Coordinate, Application, Stream!Next

\* What packetization has posted is at all times the beginning of what it should,
\* and what it will need for the rest is in the ring (packetization_process.c:
\* 580-886): the buffers kept are those of the hidden pictures not shown yet, and
\* the metadata of each waits where the header that shows it looks for it.
THEOREM StreamInvariance == Spec => []StreamInv
<1>1. Init => StreamInv
  BY StreamInit
<1>2. IInv /\ StreamInv /\ [Next]_vars => StreamInv'
  BY StreamNext
<1> QED BY <1>1, <1>2, Invariance, PTL DEF Spec

\* The application never receives anything but the packets OutputStream promises:
\* every picture once, in display order, in a packet that carries its time and its
\* own metadata, and after all of them one end, whichever of the two threads
\* signals it (packetization_process.c:749-934, resource_coordination_process.c:
\* 932-959).
THEOREM StreamRefinement == Spec => Stream!Safety
<1>1. Init => Stream!Init
  BY StreamInit
<1>2. IInv /\ StreamInv /\ [Next]_vars => [Stream!Next]_<<Promised, stream>>
  <2> SUFFICES ASSUME IInv, StreamInv, [Next]_vars
               PROVE  [Stream!Next]_<<Promised, stream>>
    OBVIOUS
  <2>1. Stream!Next \/ UNCHANGED stream
    BY StreamNext
  <2>2. video' = video
    BY DEF Next, Packetize, Coordinate, Application, vars, Start, FilterPicture, Recode, Write, Enter, SendUnit, ShowExisting,
           CountShown, Leave, TerminateSequence, SignalEnd, GetPacket, ReleaseOutBuffer
  <2>3. Promised' = Promised
    BY <2>2 DEF Promised, Tag, Packet
  <2> QED BY <2>1, <2>3
<1> QED BY <1>1, <1>2, Invariance, StreamInvariance, PTL DEF Spec, Stream!Safety, Promised, Tag
=============================================================================
