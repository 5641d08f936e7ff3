------------------------- MODULE PictureManagerProofs -------------------------
(***************************************************************************)
(* For any video and any sizes of the pools and lists: the types,          *)
(* ListHasRoom, ReferencesAreKept, ConsecutiveIsExact and                  *)
(* NothingStartableIsLeft are invariants of the picture manager.           *)
(*                                                                         *)
(* None is inductive alone, and each needs others.  That no reference is   *)
(* dropped too early rests on consecutive_dec_order being exact: an entry  *)
(* goes when the picture that overwrites it is not later than              *)
(* consecutive_dec_order, and then nobody who refers to it is still to     *)
(* start.  That it is exact rests on the heap never being full, hence on   *)
(* the reach of the scan.  That live counts keep a wrapper rests on their  *)
(* being the number of pictures that predict from it.  That the scan may   *)
(* go on without looking back rests on the first picture being started     *)
(* before any other, as pmgr_dec_order would go back otherwise.            *)
(***************************************************************************)
EXTENDS PictureManager, TLAPS, FiniteSetTheorems, NaturalsInduction, WellFoundedInduction

\* A picture demux result.
Msg(type, p) == [type |-> type, pic |-> p]

\* p waits in the picture manager's fifo.
Mailed(p) == \E k \in DOMAIN inbox : inbox[k] = Msg("INPUT", p)

\* p has a place in the input list, an entry in the reference list.
InList(p) == \E i \in DOMAIN inputs : inputs[i] = p
Listed(p) == \E i \in DOMAIN refs : refs[i].pic = p

\* What is encoded does not change, and the released pictures are computed from it.
VideoInv ==
    /\ \E v \in Videos : scs = v.scs /\ gop = v.gop
    /\ released = ReleasedPics(gop)

\* Pictures are sent in decode order.
SentInv == \A p \in Pictures : stage[p] = "unsent" <=> sent <= p

\* What a message says of its picture is so.
Says(m) ==
    /\ m.type = "INPUT" => stage[m.pic] = "waiting" /\ ~InList(m.pic) /\ ~Listed(m.pic)
    /\ m.type \in {"REFERENCE", "FEEDBACK"} => Started(m.pic)
    /\ m.type = "SUPERRES" => stage[m.pic] = "coded again"

\* A picture comes once, in decode order, and asks once to be coded again.
Ordered(s) ==
    /\ \A k, l \in DOMAIN s : s[k] = s[l] /\ s[k].type \in {"INPUT", "SUPERRES"} => k = l
    /\ \A k, l \in DOMAIN s : k < l /\ s[k].type = "INPUT" /\ s[l].type = "INPUT" => s[k].pic < s[l].pic
MailInv == (\A k \in DOMAIN inbox : Says(inbox[k])) /\ Ordered(inbox)

\* A waiting picture is in the fifo or once in the input list, and those that
\* have a parent picture control set are no more than there are.
OpenPictures == {p \in Pictures : stage[p] \in Underway \cup {"waiting"}}
InputInv ==
    /\ \A i \in DOMAIN inputs : inputs[i] # Unlisted =>
          stage[inputs[i]] = "waiting" /\ (IsRef(inputs[i]) => Listed(inputs[i]))
    /\ \A i, j \in DOMAIN inputs : inputs[i] = inputs[j] /\ inputs[i] # Unlisted => i = j
    /\ \A p \in Pictures : stage[p] = "waiting" => InList(p) \/ Mailed(p)
    /\ Cardinality(OpenPictures) <= Parents

\* The reference list: what is in it, and the credits that are left.
Entered == {p \in Pictures : Listed(p) \/ (Mailed(p) /\ IsRef(p))}
EntryInv ==
    /\ \A i, j \in DOMAIN refs : refs[i].pic = refs[j].pic /\ refs[i].pic # Unlisted => i = j
    /\ \A i \in DOMAIN refs :
          LET p == refs[i].pic
              q == refs[i].lastRef
          IN  /\ p = Unlisted => refs[i] = NoRef
              /\ p # Unlisted =>
                    /\ IsRef(p) /\ stage[p] # "unsent"
                    /\ refs[i].available => Started(p)
                    /\ q # Never => q \in Pictures /\ Started(q) /\ p \in released[q]
CreditInv == credits + Cardinality(Entered) = ListLength

\* A picture that is still to start finds the references that have started in
\* the list; one that started was right to.
KeptInv ==
    \A p \in Pictures : \A r \in Needs(p) :
        IF Started(p) THEN Started(r) ELSE Started(r) => Listed(r)

\* The live count of a reference: one for its entry, and one for each picture
\* that predicts from it.
Holding(p) == stage[p] \in {"coding", "filtered", "coded again"} \/ (stage[p] = "coded" /\ Recodes(p) > 0)
HoldersOf(r) == {p \in Pictures : r \in Needs(p) /\ Holding(p)}
Nominal(r) == IF Listed(r) /\ Started(r) THEN 1 ELSE 0
LiveInv == \A r \in Pictures : live[r] = Nominal(r) + Cardinality(HoldersOf(r))

\* The order of starting: the count is exact, and the heap reaches no farther than
\* its guard lets pictures start.
OrderInv ==
    /\ ConsecutiveIsExact
    /\ \A p \in heap : ~DecOrder => p <= consecutive + RefBuffers - RefFrames
    /\ DecOrder \/ PmDecOrder => heap = {}
    /\ PmDecOrder => pmgrDecOrder = consecutive
    /\ DecOrder => decodeOrder <= consecutive + 1

\* Until the first picture is started nothing else is, or could be.
FirstInv ==
    ~Started(0) =>
        /\ \A p \in Pictures : ~Started(p)
        /\ \A i \in DOMAIN inputs : inputs[i] # Unlisted => inputs[i] = 0 /\ cursor = 1
        /\ consecutive = 0 /\ pmgrDecOrder = 0 /\ decodeOrder = 0

\* The scan leaves no picture behind that could be started.
ScanInv ==
    \A i \in DOMAIN inputs :
        (cursor = 0 \/ i < cursor) /\ inputs[i] # Unlisted => ~Startable(inputs[i])

\* The inductive invariant: the parts above, each needed by the induction of another.
IInv ==
    /\ VideoInv /\ TypeOK /\ SentInv /\ MailInv /\ InputInv /\ EntryInv /\ CreditInv
    /\ KeptInv /\ LiveInv /\ OrderInv /\ FirstInv /\ ScanInv

-----------------------------------------------------------------------------
(* Helpers.                                                                 *)

\* A set of natural numbers has a least element, and Least chooses it.
LEMMA LeastOK ==
    ASSUME NEW S \in SUBSET Nat, S # {}
    PROVE  Least(S) \in S /\ \A y \in S : Least(S) <= y
<1>1. PICK x \in S : \A y \in S : ~(<<y, x>> \in OpToRel(<, Nat))
  BY NatLessThanWellFounded, WFMin, Zenon
<1>2. \A y \in S : ~(y < x)
  BY <1>1, Zenon DEF OpToRel
<1>3. \A y \in S : x <= y
  BY <1>2
<1> QED BY <1>3 DEF Least

\* The last of the orders that follow n without a gap is before the first gap.
LEMMA LastConsecutiveOK ==
    ASSUME NEW n \in Nat, NEW b \in Nat, NEW S \in SUBSET ((n + 1)..b)
    PROVE  LET m == LastConsecutive(n, S)
           IN  m \in Nat /\ m >= n /\ m \in {n} \cup S /\ (n + 1)..m \subseteq S /\ m + 1 \notin S
<1> DEFINE gaps == {m \in Nat : m >= n /\ m + 1 \notin S}
           first == Least(gaps)
           last == LastConsecutive(n, S)
<1>1. n + b \in gaps
  OBVIOUS
<1>2. first \in gaps /\ \A y \in gaps : first <= y
  BY <1>1, LeastOK
<1> HIDE DEF first
<1>3. (n + 1)..first \subseteq S
  <2> SUFFICES ASSUME NEW k \in (n + 1)..first, k \notin S PROVE FALSE
    OBVIOUS
  <2>1. k - 1 \in gaps /\ k - 1 < first
    BY <1>2
  <2> QED BY <1>2, <2>1
<1>4. first \in {n} \cup S /\ first + 1 \notin S
  BY <1>2, <1>3
<1>5. last \in {n} \cup S /\ (n + 1)..last \subseteq S /\ last + 1 \notin S
  BY <1>3, <1>4 DEF LastConsecutive
<1> HIDE DEF last
<1>6. last \in Nat /\ last >= n
  BY <1>5
<1> QED BY <1>5, <1>6, Zenon DEF last

\* What the assumptions say of the video that is encoded.
LEMMA SettingsOK ==
    ASSUME VideoInv
    PROVE  /\ Never \in Nat \ {0} /\ Pictures = 0..(Never - 1) /\ IsFiniteSet(Pictures)
           /\ RefFrames \in Nat \ {0} /\ RefBuffers \in Nat \ {0}
           /\ ListLength \in Nat \ {0} /\ Parents \in Nat \ {0}
           /\ DecOrder \in BOOLEAN /\ PmDecOrder \in BOOLEAN
           /\ DecOrder \/ (RefBuffers > RefFrames /\ RefBuffers - RefFrames <= Parents + 1)
           /\ \A p \in Pictures : Recodes(p) \in Nat
           /\ Needs(0) = {}
<1>1. IsConfiguration(scs) /\ IsStructure(gop)
  BY VideosAssumption, Zenon DEF VideoInv
<1>2. Cardinality(DOMAIN gop) \in Nat \ {0}
  BY <1>1, FS_CardinalityType, FS_EmptySet DEF IsStructure
<1>3. /\ Never \in Nat \ {0} /\ Pictures = 0..(Never - 1) /\ IsFiniteSet(Pictures)
      /\ \A p \in Pictures : Recodes(p) \in Nat
      /\ Needs(0) = {}
  BY <1>1, <1>2 DEF IsStructure, Never, Pictures, Recodes, Needs
<1> QED BY <1>1, <1>3 DEF IsConfiguration, RefFrames, RefBuffers, ListLength, Parents, DecOrder, PmDecOrder

\* A picture predicts from earlier pictures that others may refer to.
LEMMA NeedsOK ==
    ASSUME VideoInv, NEW p \in Pictures, NEW r \in Needs(p)
    PROVE  r \in Pictures /\ r < p /\ IsRef(r)
<1>1. IsStructure(gop)
  BY VideosAssumption, Zenon DEF VideoInv
<1>2. Never \in Nat \ {0} /\ Pictures = 0..(Never - 1) /\ Needs(0) = {}
  BY SettingsOK
<1>3. p > 0 /\ p - 1 \in Pictures /\ r \in DpbAfter(gop)[p - 1]
  BY <1>1, <1>2 DEF IsStructure, Needs, Pictures
<1>4. r \in 0..(p - 1) /\ \E s \in gop[r].refresh : TRUE
  BY <1>3 DEF DpbAfter, Pictures
<1> QED BY <1>2, <1>4 DEF IsRef

\* Once a picture has overwritten the last slot of another, no later picture
\* predicts from that one: it never comes back to the buffer.
LEMMA ReleasedOK ==
    ASSUME VideoInv, NEW q \in Pictures, NEW r \in released[q], NEW p \in Pictures, r \in Needs(p)
    PROVE  p <= q
<1>1. IsStructure(gop) /\ released = ReleasedPics(gop)
  BY VideosAssumption, Zenon DEF VideoInv
<1>2. Never \in Nat \ {0} /\ Pictures = 0..(Never - 1) /\ Needs(0) = {}
  BY SettingsOK
<1>3. q > 0 /\ r \in DpbAfter(gop)[q - 1] /\ r \notin DpbAfter(gop)[q]
  BY <1>1, <1>2 DEF ReleasedPics, Pictures
<1>4. p > 0 /\ p - 1 \in Pictures /\ r \in DpbAfter(gop)[p - 1]
  BY <1>1, <1>2 DEF IsStructure, Needs, Pictures
<1>5. r \in 0..(q - 1) /\ \A s \in gop[r].refresh : \E k \in (r + 1)..q : s \in gop[k].refresh
  <2>1. q - 1 \in DOMAIN gop /\ q \in DOMAIN gop
    BY <1>2, <1>3 DEF Pictures
  <2>2. r \in 0..(q - 1)
    BY <1>3, <2>1 DEF DpbAfter
  <2>3. r \in 0..q
    BY <1>2, <2>2
  <2>4. ~\E s \in gop[r].refresh : \A k \in (r + 1)..q : s \notin gop[k].refresh
    BY <1>3, <2>1, <2>3, Zenon DEF DpbAfter
  <2> QED BY <2>2, <2>4
<1>6. PICK s \in gop[r].refresh : \A k \in (r + 1)..(p - 1) : s \notin gop[k].refresh
  BY <1>4 DEF DpbAfter, Pictures
<1>7. PICK k \in (r + 1)..q : s \in gop[k].refresh
  BY <1>5
<1> QED BY <1>2, <1>5, <1>6, <1>7

\* What a receiver finds in the fifo, and what it leaves there.
LEMMA FifoTail ==
    ASSUME NEW s \in Seq(Messages), s # <<>>
    PROVE  /\ Len(s) \in Nat /\ DOMAIN s = 1..Len(s) /\ 1 \in DOMAIN s
           /\ Head(s) = s[1] /\ s[1] \in Messages
           /\ Tail(s) \in Seq(Messages) /\ DOMAIN Tail(s) = 1..(Len(s) - 1)
           /\ \A k \in DOMAIN Tail(s) : k + 1 \in DOMAIN s /\ Tail(s)[k] = s[k + 1]
           /\ \A k \in DOMAIN s : k # 1 => k - 1 \in DOMAIN Tail(s) /\ Tail(s)[k - 1] = s[k]
OBVIOUS

\* Every message of the fifo is about a picture.
LEMMA FifoMember ==
    ASSUME NEW s \in Seq(Messages), NEW k \in DOMAIN s
    PROVE  s[k] \in Messages /\ s[k].pic \in Pictures
<1>1. s[k] \in Messages
  OBVIOUS
<1> QED BY <1>1 DEF Messages

\* What a sender adds to the fifo.
LEMMA FifoAppend ==
    ASSUME NEW s \in Seq(Messages), NEW m \in Messages
    PROVE  /\ Len(s) \in Nat /\ DOMAIN s = 1..Len(s)
           /\ Append(s, m) \in Seq(Messages) /\ DOMAIN Append(s, m) = 1..(Len(s) + 1)
           /\ Append(s, m)[Len(s) + 1] = m
           /\ \A k \in DOMAIN s : Append(s, m)[k] = s[k]
OBVIOUS

\* The entry that is found for a picture is its entry.
LEMMA EntryOfOK ==
    ASSUME TypeOK, VideoInv, NEW p \in Pictures
    PROVE  \/ EntryOf(p) = 0 /\ ~Listed(p)
           \/ EntryOf(p) \in DOMAIN refs /\ EntryOf(p) # 0 /\ refs[EntryOf(p)].pic = p /\ Listed(p)
<1> DEFINE found == {i \in DOMAIN refs : refs[i].pic = p}
<1>1. ListLength \in Nat /\ DOMAIN refs = 1..ListLength
  BY SettingsOK DEF TypeOK
<1>2. found \in SUBSET Nat
  BY <1>1
<1>3. CASE found = {}
  BY <1>3 DEF EntryOf, Listed
<1>4. CASE found # {}
  <2>1. Least(found) \in found
    BY <1>2, <1>4, LeastOK
  <2>2. EntryOf(p) = Least(found)
    BY <1>4 DEF EntryOf
  <2> HIDE DEF found
  <2>3. EntryOf(p) \in found
    BY <2>1, <2>2
  <2> QED BY <2>3, <1>1 DEF found, Listed
<1> QED BY <1>3, <1>4

\* And there is no other.
LEMMA EntryOfUnique ==
    ASSUME TypeOK, VideoInv, EntryInv, NEW p \in Pictures, NEW i \in DOMAIN refs, refs[i].pic = p
    PROVE  EntryOf(p) = i
<1>1. EntryOf(p) \in DOMAIN refs /\ refs[EntryOf(p)].pic = p
  BY EntryOfOK DEF Listed
<1>2. p # Unlisted
  BY SettingsOK DEF Unlisted
<1> QED BY <1>1, <1>2 DEF EntryInv

\* The first picture may be started as soon as it is in the input list.
LEMMA FirstIsStartable ==
    ASSUME TypeOK, VideoInv, FirstInv, ~Started(0)
    PROVE  Startable(0)
BY SettingsOK DEF FirstInv, Startable, WithinReach

\* A free place of the input list, when there is one, is found.
LEMMA FreeInputOK ==
    ASSUME TypeOK, VideoInv, FreeInputs # {}
    PROVE  Least(FreeInputs) \in DOMAIN inputs /\ inputs[Least(FreeInputs)] = Unlisted
<1>1. FreeInputs \in SUBSET Nat
  BY SettingsOK DEF TypeOK, FreeInputs
<1>2. Least(FreeInputs) \in FreeInputs
  BY <1>1, LeastOK
<1> QED BY <1>2 DEF FreeInputs

\* And so is a free entry of the reference list.
LEMMA FreeEntryOK ==
    ASSUME TypeOK, VideoInv, \E i \in DOMAIN refs : refs[i] = NoRef
    PROVE  FreeEntry \in DOMAIN refs /\ refs[FreeEntry] = NoRef
<1> DEFINE free == {i \in DOMAIN refs : refs[i] = NoRef}
<1>0. ListLength \in Nat /\ DOMAIN refs = 1..ListLength
  BY SettingsOK DEF TypeOK
<1>1. free \in SUBSET Nat /\ free # {}
  BY <1>0
<1>2. Least(free) \in free
  BY <1>1, LeastOK
<1>3. FreeEntry = Least(free)
  BY <1>1 DEF FreeEntry
<1> HIDE DEF free
<1>4. FreeEntry \in free
  BY <1>2, <1>3
<1> QED BY <1>4 DEF free

\* The candidate that is started is one, and none comes before it.
LEMMA CandidateOK ==
    ASSUME TypeOK, VideoInv, Candidates # {}
    PROVE  Least(Candidates) \in Candidates /\ \A j \in Candidates : Least(Candidates) <= j
<1>1. Candidates \in SUBSET Nat
  BY SettingsOK DEF TypeOK, Candidates
<1> QED BY <1>1, LeastOK

\* A table of n different members of a set that leaves one out: there are more
\* than n.
LEMMA MoreThanFit ==
    ASSUME NEW n \in Nat, NEW f, NEW U, IsFiniteSet(U), \A i \in 1..n : f[i] \in U,
           \A i, j \in 1..n : f[i] = f[j] => i = j,
           NEW x \in U, \A i \in 1..n : f[i] # x
    PROVE  Cardinality(U) > n
<1> DEFINE g == [i \in 1..n |-> f[i]]
           rest == U \ {x}
<1>1. g \in Injection(1..n, rest)
  BY DEF Injection, IsInjective
<1>2. IsFiniteSet(rest) /\ Cardinality(rest) = Cardinality(U) - 1
  BY FS_RemoveElement
<1>3. Cardinality(1..n) <= Cardinality(rest)
  BY <1>1, <1>2, FS_Injection
<1>4. Cardinality(U) \in Nat /\ Cardinality(1..n) = n
  BY FS_Interval, FS_CardinalityType
<1> HIDE DEF rest
<1> QED BY <1>2, <1>3, <1>4

\* Different members have different images: there are as many of them.
LEMMA AsManyImages ==
    ASSUME NEW S, IsFiniteSet(S), NEW f, \A i, j \in S : f[i] = f[j] => i = j
    PROVE  IsFiniteSet({f[i] : i \in S}) /\ Cardinality({f[i] : i \in S}) = Cardinality(S)
<1> DEFINE g == [i \in S |-> f[i]]
           T == {f[i] : i \in S}
<1>1. g \in Bijection(S, T)
  BY DEF Bijection, Injection, Surjection, IsInjective
<1>2. ExistsBijection(S, T)
  BY <1>1 DEF ExistsBijection
<1> HIDE DEF T
<1>3. IsFiniteSet(T) /\ Cardinality(T) = Cardinality(S)
  BY <1>2, FS_Bijection
<1> QED BY <1>3 DEF T

-----------------------------------------------------------------------------
(* What the invariant says: the properties follow from it.                  *)

\* The sets that are counted are finite.
LEMMA CountsOK ==
    ASSUME VideoInv
    PROVE  /\ IsFiniteSet(OpenPictures) /\ IsFiniteSet(Entered)
           /\ \A r \in Pictures : IsFiniteSet(HoldersOf(r))
           /\ Cardinality(OpenPictures) \in Nat /\ Cardinality(Entered) \in Nat
           /\ \A r \in Pictures : Cardinality(HoldersOf(r)) \in Nat
<1>1. IsFiniteSet(Pictures)
  BY SettingsOK
<1>2. OpenPictures \subseteq Pictures /\ Entered \subseteq Pictures /\ \A r \in Pictures : HoldersOf(r) \subseteq Pictures
  BY DEF OpenPictures, Entered, HoldersOf
<1>3. IsFiniteSet(OpenPictures) /\ IsFiniteSet(Entered) /\ \A r \in Pictures : IsFiniteSet(HoldersOf(r))
  BY <1>1, <1>2, FS_Subset
<1> QED BY <1>3, FS_CardinalityType

\* The parent control sets bound the input list and the credits the reference
\* list: a picture in the fifo has its place.
LEMMA RoomOK ==
    ASSUME IInv
    PROVE  ListHasRoom
<1>1. VideoInv /\ TypeOK /\ MailInv /\ InputInv /\ EntryInv /\ CreditInv
  BY DEF IInv
<1> SUFFICES ASSUME Receives("INPUT")
             PROVE  FreeInputs # {} /\ (IsRef(Head(inbox).pic) => \E i \in DOMAIN refs : refs[i] = NoRef)
  BY DEF ListHasRoom
<1> DEFINE p == Head(inbox).pic
<1>2. inbox \in Seq(Messages) /\ inbox # <<>> /\ Head(inbox).type = "INPUT"
  BY <1>1 DEF TypeOK, Receives
<1>3. 1 \in DOMAIN inbox /\ inbox[1] = Head(inbox) /\ Head(inbox) \in Messages
  BY <1>2, FifoTail
<1>4. p \in Pictures /\ inbox[1] = Msg("INPUT", p) /\ inbox[1].type = "INPUT" /\ inbox[1].pic = p
  BY <1>2, <1>3 DEF Messages, Msg
<1> HIDE DEF p
<1>5. stage[p] = "waiting" /\ ~InList(p) /\ ~Listed(p) /\ Mailed(p)
  BY <1>1, <1>3, <1>4 DEF MailInv, Says, Msg, Mailed
<1>6. FreeInputs # {}
  <2> SUFFICES ASSUME FreeInputs = {} PROVE FALSE
    OBVIOUS
  <2>1. Parents \in Nat /\ DOMAIN inputs = 1..Parents /\ \A i \in 1..Parents : inputs[i] \in Pictures
    BY <1>1, SettingsOK DEF TypeOK, FreeInputs
  <2>2. \A i \in 1..Parents : inputs[i] \in OpenPictures /\ inputs[i] # p
    BY <1>1, <1>5, <2>1 DEF InputInv, OpenPictures, FreeInputs, InList
  <2>3. \A i, j \in 1..Parents : inputs[i] = inputs[j] => i = j
    BY <1>1, <2>1 DEF InputInv, FreeInputs
  <2>4. p \in OpenPictures /\ IsFiniteSet(OpenPictures) /\ Cardinality(OpenPictures) \in Nat
    BY <1>1, <1>4, <1>5, CountsOK DEF OpenPictures
  <2>5. Cardinality(OpenPictures) > Parents
    BY <2>1, <2>2, <2>3, <2>4, MoreThanFit
  <2> QED BY <1>1, <2>1, <2>4, <2>5 DEF InputInv
<1>7. ASSUME IsRef(p) PROVE \E i \in DOMAIN refs : refs[i] = NoRef
  <2> SUFFICES ASSUME \A i \in DOMAIN refs : refs[i] # NoRef PROVE FALSE
    OBVIOUS
  <2> DEFINE pic == [i \in DOMAIN refs |-> refs[i].pic]
  <2>1. ListLength \in Nat /\ DOMAIN refs = 1..ListLength
    BY <1>1, SettingsOK DEF TypeOK
  <2>2. \A i \in 1..ListLength : refs[i].pic \in Pictures /\ refs[i].pic # Unlisted
    BY <1>1, <2>1 DEF TypeOK, EntryInv, Entries
  <2>3. \A i \in 1..ListLength : pic[i] \in Entered /\ pic[i] # p
    BY <1>5, <2>1, <2>2 DEF Entered, Listed
  <2>4. \A i, j \in 1..ListLength : pic[i] = pic[j] => i = j
    BY <1>1, <2>1, <2>2 DEF EntryInv
  <2>5. p \in Entered /\ IsFiniteSet(Entered) /\ Cardinality(Entered) \in Nat
    BY <1>1, <1>4, <1>5, <1>7, CountsOK DEF Entered
  <2> HIDE DEF pic
  <2>6. Cardinality(Entered) > ListLength
    BY <2>1, <2>3, <2>4, <2>5, MoreThanFit
  <2>7. credits \in Nat
    BY <1>1, <2>1 DEF TypeOK
  <2> QED BY <1>1, <2>1, <2>5, <2>6, <2>7 DEF CreditInv
<1> QED BY <1>6, <1>7 DEF p

\* The live counts keep the wrappers that are predicted from.
LEMMA KeptOK ==
    ASSUME IInv
    PROVE  ReferencesAreKept
<1>1. VideoInv /\ TypeOK /\ SentInv /\ KeptInv /\ LiveInv
  BY DEF IInv
<1> SUFFICES ASSUME NEW p \in Pictures, NEW r \in Needs(p)
             PROVE  /\ stage[p] = "waiting" => stage[r] = "waiting" \/ (EntryOf(r) # 0 /\ live[r] > 0)
                    /\ stage[p] \in {"coding", "filtered", "coded again"} => live[r] > 0
  BY DEF ReferencesAreKept
<1>2. r \in Pictures /\ r < p
  BY <1>1, NeedsOK
<1>3. live[r] = Nominal(r) + Cardinality(HoldersOf(r)) /\ Cardinality(HoldersOf(r)) \in Nat /\ IsFiniteSet(HoldersOf(r))
  BY <1>1, <1>2, CountsOK DEF LiveInv
<1>4. ASSUME stage[p] = "waiting", stage[r] # "waiting" PROVE EntryOf(r) # 0 /\ live[r] > 0
  <2>1. stage[r] # "unsent"
    BY <1>1, <1>2, <1>4, SettingsOK DEF SentInv, TypeOK
  <2>2. Started(r) /\ ~Started(p)
    BY <1>1, <1>2, <1>4, <2>1 DEF TypeOK, Started, Stages, Underway
  <2>3. Listed(r)
    BY <1>1, <2>2 DEF KeptInv
  <2> QED BY <1>1, <1>2, <1>3, <2>2, <2>3, EntryOfOK DEF Nominal
<1>5. ASSUME stage[p] \in {"coding", "filtered", "coded again"} PROVE live[r] > 0
  <2>1. p \in HoldersOf(r)
    BY <1>5 DEF HoldersOf, Holding
  <2>2. Cardinality(HoldersOf(r)) > 0
    BY <1>3, <2>1, FS_EmptySet
  <2> QED BY <1>3, <2>2 DEF Nominal
<1> QED BY <1>4, <1>5

\* And the scan ends with nothing left behind.
LEMMA ScanOK ==
    ASSUME IInv
    PROVE  NothingStartableIsLeft
BY DEF IInv, ScanInv, NothingStartableIsLeft

-----------------------------------------------------------------------------
(* The beginning.                                                           *)

\* Nothing was sent: the invariant holds.
LEMMA InitOK ==
    ASSUME Init
    PROVE  IInv
<1>1. VideoInv
  BY DEF Init, VideoInv
<1>2. /\ Never \in Nat \ {0} /\ Pictures = 0..(Never - 1) /\ ListLength \in Nat \ {0} /\ Parents \in Nat \ {0}
      /\ \A p \in Pictures : Recodes(p) \in Nat
  BY <1>1, SettingsOK
<1>3. TypeOK
  <2>1. NoRef \in Entries
    BY DEF NoRef, Entries
  <2>2. \E v \in Videos : scs = v.scs /\ gop = v.gop
    BY DEF Init
  <2>3. inbox \in Seq(Messages) /\ refs \in [1..ListLength -> Entries]
    BY <2>1 DEF Init
  <2>4. /\ sent \in 0..Never /\ credits \in 0..ListLength /\ consecutive \in Pictures
        /\ pmgrDecOrder \in Pictures /\ decodeOrder \in 0..Never /\ cursor \in 0..(Parents + 1)
    <3>1. sent = 0 /\ credits = ListLength /\ consecutive = 0 /\ pmgrDecOrder = 0 /\ decodeOrder = 0 /\ cursor = 0
      BY DEF Init
    <3> QED BY <1>2, <3>1
  <2>5. /\ heap \subseteq Pictures /\ eos \in BOOLEAN /\ inputs \in [1..Parents -> Pictures \cup {Unlisted}]
        /\ stage \in [Pictures -> Stages] /\ recodes \in [Pictures -> Nat] /\ live \in [Pictures -> Nat]
    BY DEF Init, Stages
  <2> QED BY <2>2, <2>3, <2>4, <2>5 DEF TypeOK
<1>4. /\ DOMAIN inbox = {} /\ DOMAIN inputs = 1..Parents /\ DOMAIN refs = 1..ListLength
      /\ \A i \in DOMAIN inputs : inputs[i] = Unlisted
      /\ \A i \in DOMAIN refs : refs[i] = NoRef /\ refs[i].pic = Unlisted
      /\ \A p \in Pictures : stage[p] = "unsent" /\ p # Unlisted
  BY <1>2 DEF Init, NoRef, Unlisted
<1>5. \A p \in Pictures : ~Started(p) /\ ~Listed(p) /\ ~Mailed(p) /\ ~Holding(p)
  BY <1>4 DEF Started, Underway, Listed, Mailed, Holding
<1>6. Entered = {} /\ OpenPictures = {} /\ \A r \in Pictures : HoldersOf(r) = {}
  BY <1>4, <1>5 DEF Entered, OpenPictures, HoldersOf, Underway
<1>7. SentInv
  BY <1>2, <1>4 DEF Init, SentInv
<1>8. MailInv
  BY <1>4 DEF MailInv, Ordered
<1>9. InputInv
  BY <1>2, <1>4, <1>6, FS_EmptySet DEF InputInv
<1>10. EntryInv
  BY <1>4 DEF EntryInv
<1>11. CreditInv
  BY <1>2, <1>6, FS_EmptySet DEF CreditInv, Init
<1>12. KeptInv
  BY <1>1, <1>5, NeedsOK DEF KeptInv
<1>13. LiveInv
  <2>1. \A r \in Pictures : Cardinality(HoldersOf(r)) = 0 /\ Nominal(r) = 0 /\ live[r] = 0
    BY <1>5, <1>6, FS_EmptySet DEF Nominal, Init
  <2> QED BY <2>1 DEF LiveInv
<1>14. OrderInv
  BY <1>2, <1>5 DEF OrderInv, ConsecutiveIsExact, Init
<1>15. FirstInv
  BY <1>4, <1>5 DEF FirstInv, Init
<1>3a. ScanInv
  BY <1>4 DEF ScanInv
<1> QED BY <1>1, <1>3, <1>7, <1>8, <1>9, <1>10, <1>11, <1>12, <1>13, <1>14, <1>15, <1>3a DEF IInv

-----------------------------------------------------------------------------
(* The steps.                                                               *)

\* No step changes the video or the settings.
LEMMA SameVideo ==
    ASSUME VideoInv, UNCHANGED video
    PROVE  /\ VideoInv' /\ scs' = scs /\ gop' = gop /\ released' = released
           /\ Pictures' = Pictures /\ Never' = Never
           /\ Parents' = Parents /\ ListLength' = ListLength /\ RefBuffers' = RefBuffers /\ RefFrames' = RefFrames
           /\ DecOrder' = DecOrder /\ PmDecOrder' = PmDecOrder
           /\ Messages' = Messages /\ Entries' = Entries
           /\ \A p : Needs(p)' = Needs(p) /\ IsRef(p)' = IsRef(p) /\ Recodes(p)' = Recodes(p)
<1>1. scs' = scs /\ gop' = gop /\ released' = released
  BY DEF video
<1>2. VideoInv'
  BY <1>1 DEF VideoInv, ReleasedPics, DpbAfter
<1>3. Pictures' = Pictures /\ Never' = Never
  BY <1>1 DEF Pictures, Never
<1>4. Messages' = Messages /\ Entries' = Entries
  BY <1>3 DEF Messages, Entries
<1> QED BY <1>1, <1>2, <1>3, <1>4 DEF Parents, ListLength, RefBuffers, RefFrames, DecOrder, PmDecOrder, Needs, IsRef, Recodes

\* The entry found for a picture after a step is its entry, too.
LEMMA EntryOfNext ==
    (TypeOK /\ VideoInv => \A p \in Pictures :
        \/ EntryOf(p) = 0 /\ ~Listed(p)
        \/ EntryOf(p) \in DOMAIN refs /\ EntryOf(p) # 0 /\ refs[EntryOf(p)].pic = p /\ Listed(p))'
<1>1. TypeOK /\ VideoInv => \A p \in Pictures :
        \/ EntryOf(p) = 0 /\ ~Listed(p)
        \/ EntryOf(p) \in DOMAIN refs /\ EntryOf(p) # 0 /\ refs[EntryOf(p)].pic = p /\ Listed(p)
  BY EntryOfOK
<1> QED BY <1>1, PTL

\* The sets that are counted stay finite.
LEMMA CountsNext ==
    (VideoInv =>
        /\ IsFiniteSet(OpenPictures) /\ IsFiniteSet(Entered)
        /\ \A r \in Pictures : IsFiniteSet(HoldersOf(r))
        /\ Cardinality(OpenPictures) \in Nat /\ Cardinality(Entered) \in Nat
        /\ \A r \in Pictures : Cardinality(HoldersOf(r)) \in Nat)'
<1>1. VideoInv =>
        /\ IsFiniteSet(OpenPictures) /\ IsFiniteSet(Entered)
        /\ \A r \in Pictures : IsFiniteSet(HoldersOf(r))
        /\ Cardinality(OpenPictures) \in Nat /\ Cardinality(Entered) \in Nat
        /\ \A r \in Pictures : Cardinality(HoldersOf(r)) \in Nat
  BY CountsOK
<1> QED BY <1>1, PTL

\* A picture becomes usable as a reference only by a change of its entry.
LEMMA UsableStays ==
    ASSUME TypeOK, TypeOK', VideoInv, EntryInv, UNCHANGED video,
           \A j \in DOMAIN refs : refs'[j].available /\ refs'[j].updated /\ refs'[j].pic # Unlisted =>
               refs[j].pic = refs'[j].pic /\ refs[j].available /\ refs[j].updated,
           NEW r \in Pictures, Usable(EntryOf(r))'
    PROVE  Usable(EntryOf(r))
<1> DEFINE i == EntryOf(r)'
<1>1. VideoInv' /\ Pictures' = Pictures /\ ListLength' = ListLength /\ r # Unlisted
  BY SameVideo, SettingsOK DEF Unlisted
<1>2. i # 0 /\ refs'[i].available /\ refs'[i].updated
  BY DEF Usable
<1>3. i \in DOMAIN refs' /\ refs'[i].pic = r
  BY <1>1, <1>2, EntryOfNext
<1>4. i \in DOMAIN refs
  BY <1>1, <1>3 DEF TypeOK
<1> HIDE DEF i
<1>5. refs[i].pic = r /\ refs[i].available /\ refs[i].updated
  BY <1>1, <1>2, <1>3, <1>4
<1>6. EntryOf(r) = i
  BY <1>4, <1>5, EntryOfUnique
<1> QED BY <1>2, <1>5, <1>6 DEF Usable

\* And then it is startable only if it was, as long as no order is advanced.
LEMMA StartableStays ==
    ASSUME VideoInv, UNCHANGED <<video, consecutive, decodeOrder>>, PmDecOrder => pmgrDecOrder' = pmgrDecOrder,
           \A r \in Pictures : Usable(EntryOf(r))' => Usable(EntryOf(r)),
           NEW p \in Pictures, Startable(p)'
    PROVE  Startable(p)
<1>1. /\ DecOrder' = DecOrder /\ PmDecOrder' = PmDecOrder /\ RefBuffers' = RefBuffers /\ RefFrames' = RefFrames
      /\ Needs(p)' = Needs(p)
  BY SameVideo
<1>2. (DecOrder => p = decodeOrder) /\ (PmDecOrder => p = 0 \/ p = pmgrDecOrder + 1) /\ WithinReach(p)
  BY <1>1 DEF Startable, WithinReach
<1>3. \A r \in Needs(p) : Usable(EntryOf(r))
  BY <1>1, NeedsOK DEF Startable
<1> QED BY <1>2, <1>3 DEF Startable

\* Another result for a started picture: the fifo says of it what is so.
LEMMA ResultSent ==
    ASSUME TypeOK, MailInv, NEW p \in Pictures, Started(p), stage[p] # "coded again",
           NEW s \in Underway \cup {"done"}, stage' = [stage EXCEPT ![p] = s], UNCHANGED <<inputs, refs>>,
           DOMAIN inbox \subseteq DOMAIN inbox', \A k \in DOMAIN inbox : inbox'[k] = inbox[k],
           \A k \in DOMAIN inbox' \ DOMAIN inbox : inbox'[k].type \in {"REFERENCE", "FEEDBACK"} /\ inbox'[k].pic = p
    PROVE  MailInv' /\ \A q : Mailed(q)' <=> Mailed(q)
<1>1. \A q : (InList(q)' <=> InList(q)) /\ (Listed(q)' <=> Listed(q))
  BY DEF InList, Listed
<1>2. \A k \in DOMAIN inbox : inbox[k] \in Messages /\ inbox[k].pic \in Pictures
  BY FifoMember DEF TypeOK
<1>3. \A q \in Pictures : q # p => stage'[q] = stage[q] /\ (Started(q)' <=> Started(q))
  BY DEF TypeOK, Started
<1>4. stage'[p] = s /\ Started(p)' /\ stage[p] # "waiting"
  BY DEF TypeOK, Started, Underway
<1>5. \A k \in DOMAIN inbox' : inbox'[k].type \in {"INPUT", "SUPERRES"} => k \in DOMAIN inbox /\ inbox'[k] = inbox[k]
  OBVIOUS
<1>6. ASSUME NEW m, Says(m), m.pic \in Pictures PROVE Says(m)'
  BY <1>1, <1>3, <1>4, <1>6 DEF Says
<1>7. \A k \in DOMAIN inbox' : Says(inbox[k])'
  <2> SUFFICES ASSUME NEW k \in DOMAIN inbox' PROVE Says(inbox[k])'
    OBVIOUS
  <2>1. CASE k \in DOMAIN inbox
    BY <1>2, <1>6, <2>1 DEF MailInv
  <2>2. CASE k \notin DOMAIN inbox
    <3>1. inbox'[k].type \in {"REFERENCE", "FEEDBACK"} /\ inbox'[k].pic = p
      BY <2>2
    <3> QED BY <1>4, <3>1 DEF Says
  <2> QED BY <2>1, <2>2
<1>8. Ordered(inbox)'
  BY <1>5 DEF MailInv, Ordered
<1>9. \A q : Mailed(q)' <=> Mailed(q)
  <2>1. \A q : Msg("INPUT", q).type = "INPUT"
    BY DEF Msg
  <2> QED BY <1>5, <2>1 DEF Mailed
<1> QED BY <1>7, <1>8, <1>9 DEF MailInv

\* The live counts follow a picture that lets go of its references.
LEMMA HoldersCounted ==
    ASSUME VideoInv, TypeOK, LiveInv, UNCHANGED video, NEW p \in Pictures,
           \A q \in Pictures : q # p => (Holding(q)' <=> Holding(q)),
           \A r \in Pictures : Nominal(r)' = Nominal(r),
           \/ (Holding(p)' <=> Holding(p)) /\ live' = live
           \/ Holding(p) /\ ~Holding(p)' /\ live' = Hold(p, -1)
    PROVE  LiveInv' /\ live' \in [Pictures -> Nat]
<1>1. Pictures' = Pictures /\ \A q : Needs(q)' = Needs(q)
  BY SameVideo
<1> SUFFICES ASSUME NEW r \in Pictures
             PROVE  live'[r] = Nominal(r)' + Cardinality(HoldersOf(r))' /\ live'[r] \in Nat
  <2>1. live' = [r \in Pictures |-> live'[r]]
    BY DEF TypeOK, Hold
  <2> QED BY <1>1, <2>1, Zenon DEF LiveInv
<1>2. live[r] = Nominal(r) + Cardinality(HoldersOf(r)) /\ live[r] \in Nat /\ Nominal(r) \in 0..1
  BY DEF LiveInv, TypeOK, Nominal
<1>3. IsFiniteSet(HoldersOf(r)) /\ Cardinality(HoldersOf(r)) \in Nat
  BY CountsOK
<1>4. CASE (Holding(p)' <=> Holding(p)) /\ live' = live
  <2>1. HoldersOf(r)' = HoldersOf(r)
    BY <1>1, <1>4 DEF HoldersOf
  <2> QED BY <1>2, <1>4, <2>1
<1>5. CASE Holding(p) /\ ~Holding(p)' /\ live' = Hold(p, -1)
  <2>1. HoldersOf(r)' = HoldersOf(r) \ {p}
    BY <1>1, <1>5 DEF HoldersOf
  <2>2. Cardinality(HoldersOf(r))' = Cardinality(HoldersOf(r)) - (IF r \in Needs(p) THEN 1 ELSE 0)
    <3>1. p \in HoldersOf(r) <=> r \in Needs(p)
      BY <1>5 DEF HoldersOf
    <3>2. Cardinality(HoldersOf(r) \ {p}) = IF p \in HoldersOf(r) THEN Cardinality(HoldersOf(r)) - 1 ELSE Cardinality(HoldersOf(r))
      BY <1>3, FS_RemoveElement
    <3> QED BY <1>3, <2>1, <3>1, <3>2
  <2>3. live'[r] = live[r] - (IF r \in Needs(p) THEN 1 ELSE 0)
    BY <1>2, <1>5 DEF Hold
  <2>4. Cardinality(HoldersOf(r))' \in Nat
    BY <1>3, <2>1, FS_RemoveElement, FS_CardinalityType
  <2> QED BY <1>2, <1>3, <2>2, <2>3, <2>4
<1> QED BY <1>4, <1>5

\* A started picture goes through a pass of its coding: what the picture manager
\* knows is left alone, but for the fifo.
LEMMA PassOK ==
    ASSUME IInv, NEW p \in Pictures, stage[p] \in Underway,
           NEW s \in Underway \cup {"done"}, stage' = [stage EXCEPT ![p] = s],
           UNCHANGED <<video, sent, credits, startState, refs, decodeOrder, cursor, eos>>,
           recodes' \in [Pictures -> Nat], inbox' \in Seq(Messages),
           MailInv', \A q : Mailed(q)' <=> Mailed(q),
           \/ (Holding(p)' <=> Holding(p)) /\ live' = live
           \/ Holding(p) /\ ~Holding(p)' /\ live' = Hold(p, -1)
    PROVE  IInv'
<1>1. /\ VideoInv /\ TypeOK /\ SentInv /\ MailInv /\ InputInv /\ EntryInv /\ CreditInv
      /\ KeptInv /\ LiveInv /\ OrderInv /\ FirstInv /\ ScanInv
  BY DEF IInv
<1>2. /\ VideoInv' /\ scs' = scs /\ gop' = gop /\ released' = released
      /\ Pictures' = Pictures /\ Never' = Never /\ Parents' = Parents /\ ListLength' = ListLength
      /\ RefBuffers' = RefBuffers /\ RefFrames' = RefFrames /\ DecOrder' = DecOrder /\ PmDecOrder' = PmDecOrder
      /\ Messages' = Messages /\ Entries' = Entries
      /\ \A q : Needs(q)' = Needs(q) /\ IsRef(q)' = IsRef(q) /\ Recodes(q)' = Recodes(q)
  BY <1>1, SameVideo
<1>3. /\ inputs' = inputs /\ refs' = refs /\ sent' = sent /\ credits' = credits /\ cursor' = cursor /\ eos' = eos
      /\ consecutive' = consecutive /\ heap' = heap /\ pmgrDecOrder' = pmgrDecOrder /\ decodeOrder' = decodeOrder
  BY DEF startState
<1>4. \A q : InList(q)' = InList(q) /\ Listed(q)' = Listed(q)
  BY <1>3 DEF InList, Listed
<1>5. \A q \in Pictures : q # p => stage'[q] = stage[q]
  BY <1>1 DEF TypeOK
<1>6. stage'[p] = s /\ stage[p] \notin {"unsent", "waiting"} /\ s \notin {"unsent", "waiting"}
  BY <1>1 DEF TypeOK, Underway
<1>7. \A q \in Pictures : (Started(q)' <=> Started(q)) /\ Nominal(q)' = Nominal(q)
  BY <1>1, <1>4, <1>5 DEF Started, Nominal, TypeOK
<1>8. LiveInv' /\ live' \in [Pictures -> Nat]
  <2>1. \A q \in Pictures : q # p => (Holding(q)' <=> Holding(q))
    BY <1>2, <1>5 DEF Holding
  <2> QED BY <1>1, <1>7, <2>1, HoldersCounted
<1>9. TypeOK'
  BY <1>1, <1>2, <1>3, <1>8 DEF TypeOK, Stages, Underway
<1>10. SentInv'
  BY <1>1, <1>2, <1>3, <1>5, <1>6 DEF SentInv
<1>11. InputInv'
  <2>1. OpenPictures' \subseteq OpenPictures
    BY <1>2, <1>5 DEF OpenPictures
  <2>2. Cardinality(OpenPictures') <= Cardinality(OpenPictures)
    BY <1>1, <2>1, CountsOK, FS_Subset
  <2>3. Cardinality(OpenPictures') <= Parents
    <3>1. Cardinality(OpenPictures') \in Nat /\ Cardinality(OpenPictures) \in Nat /\ Cardinality(OpenPictures) <= Parents
      BY <1>1, <1>2, CountsOK, CountsNext DEF InputInv
    <3>2. Parents \in Nat
      BY <1>1, SettingsOK
    <3> QED BY <2>2, <3>1, <3>2
  <2>4. \A i \in DOMAIN inputs : inputs[i] # Unlisted => stage'[inputs[i]] = "waiting" /\ (IsRef(inputs[i]) => Listed(inputs[i]))
    BY <1>1, <1>5, <1>6 DEF InputInv, TypeOK
  <2> QED BY <1>1, <1>2, <1>3, <1>4, <1>5, <1>6, <2>3, <2>4 DEF InputInv
<1>12. EntryInv'
  BY <1>1, <1>2, <1>3, <1>5, <1>6, <1>7 DEF EntryInv, TypeOK, Entries
<1>13. CreditInv'
  <2>1. Entered' = Entered
    BY <1>2, <1>4 DEF Entered
  <2> QED BY <1>1, <1>2, <1>3, <2>1 DEF CreditInv
<1>14. KeptInv'
  BY <1>1, <1>2, <1>4, <1>7, NeedsOK DEF KeptInv
<1>15. OrderInv'
  BY <1>1, <1>2, <1>3, <1>7 DEF OrderInv, ConsecutiveIsExact
<1>3a. FirstInv'
  <2>1. 0 \in Pictures
    BY <1>1, SettingsOK
  <2> QED BY <1>1, <1>2, <1>3, <1>7, <2>1 DEF FirstInv
<1>17. ScanInv'
  <2>1. \A r \in Pictures : Usable(EntryOf(r))' => Usable(EntryOf(r))
    BY <1>1, <1>3, <1>9, UsableStays
  <2>2. \A q \in Pictures : Startable(q)' => Startable(q)
    BY <1>1, <1>3, <2>1, StartableStays
  <2> QED BY <1>1, <1>3, <2>2 DEF ScanInv, TypeOK
<1> QED BY <1>2, <1>8, <1>9, <1>10, <1>11, <1>12, <1>13, <1>14, <1>15, <1>3a, <1>17 DEF IInv

\* Restoration is done with a picture.
LEMMA FilterOK ==
    ASSUME IInv, NEW p \in Pictures, Filter(p)
    PROVE  IInv'
<1>1. TypeOK /\ VideoInv /\ MailInv /\ inbox \in Seq(Messages)
  BY DEF IInv, TypeOK
<1>2. /\ stage[p] = "coding" /\ stage' = [stage EXCEPT ![p] = "filtered"]
      /\ inbox' = IF IsRef(p) /\ Recodes(p) = 0 THEN Append(inbox, [type |-> "REFERENCE", pic |-> p]) ELSE inbox
      /\ UNCHANGED <<video, sent, credits, startState, refs, decodeOrder, cursor, eos>>
      /\ recodes' = recodes /\ live' = live
  BY DEF Filter
<1>3. /\ inbox' \in Seq(Messages) /\ DOMAIN inbox \subseteq DOMAIN inbox'
      /\ \A k \in DOMAIN inbox : inbox'[k] = inbox[k]
      /\ \A k \in DOMAIN inbox' \ DOMAIN inbox : inbox'[k].type \in {"REFERENCE", "FEEDBACK"} /\ inbox'[k].pic = p
  <2> DEFINE m == [type |-> "REFERENCE", pic |-> p]
  <2>1. m \in Messages /\ m.type \in {"REFERENCE", "FEEDBACK"} /\ m.pic = p
    BY DEF Messages
  <2> HIDE DEF m
  <2>2. CASE inbox' = inbox
    BY <1>1, <2>2
  <2>3. CASE inbox' = Append(inbox, m)
    BY <1>1, <2>1, <2>3, FifoAppend
  <2> QED BY <1>2, <2>2, <2>3 DEF m
<1>4. MailInv' /\ \A q : Mailed(q)' <=> Mailed(q)
  <2>1. Started(p) /\ stage[p] # "coded again" /\ "filtered" \in Underway \cup {"done"} /\ UNCHANGED <<inputs, refs>>
    BY <1>2 DEF Started, Underway, startState
  <2> QED BY <1>1, <1>2, <1>3, <2>1, ResultSent
<1>5. Holding(p)' <=> Holding(p)
  BY <1>1, <1>2, SameVideo DEF Holding, TypeOK
<1>6. stage[p] \in Underway /\ "filtered" \in Underway \cup {"done"} /\ recodes' \in [Pictures -> Nat]
  BY <1>1, <1>2 DEF Underway, TypeOK
<1> QED BY <1>2, <1>3, <1>4, <1>5, <1>6, PassOK

\* Entropy coding lets go of the references.
LEMMA CodeEntropyOK ==
    ASSUME IInv, NEW p \in Pictures, CodeEntropy(p)
    PROVE  IInv'
<1>1. TypeOK /\ VideoInv /\ MailInv /\ inbox \in Seq(Messages)
  BY DEF IInv, TypeOK
<1>2. /\ stage[p] = "filtered" /\ stage' = [stage EXCEPT ![p] = "coded"]
      /\ live' = IF Recodes(p) = 0 THEN Hold(p, -1) ELSE live
      /\ UNCHANGED <<video, sent, credits, startState, refs, decodeOrder, cursor, eos>>
      /\ recodes' = recodes /\ inbox' = inbox
  BY DEF CodeEntropy
<1>3. stage[p] \in Underway /\ "coded" \in Underway \cup {"done"} /\ recodes' \in [Pictures -> Nat]
  BY <1>1, <1>2 DEF Underway, TypeOK
<1>4. MailInv' /\ \A q : Mailed(q)' <=> Mailed(q)
  <2>1. Started(p) /\ stage[p] # "coded again" /\ UNCHANGED <<inputs, refs>>
    BY <1>2 DEF Started, Underway, startState
  <2> QED BY <1>1, <1>2, <1>3, <2>1, ResultSent
<1>5. \/ (Holding(p)' <=> Holding(p)) /\ live' = live
      \/ Holding(p) /\ ~Holding(p)' /\ live' = Hold(p, -1)
  <2>1. gop' = gop /\ Recodes(p) \in Nat /\ stage'[p] = "coded"
    BY <1>1, <1>2, SameVideo, SettingsOK DEF TypeOK
  <2>2. Holding(p) /\ (Holding(p)' <=> Recodes(p) > 0)
    BY <1>2, <2>1 DEF Holding, Recodes
  <2> QED BY <1>2, <2>1, <2>2
<1> QED BY <1>1, <1>2, <1>3, <1>4, <1>5, PassOK

\* A picture asks to be coded again.
LEMMA RecodeOK ==
    ASSUME IInv, NEW p \in Pictures, Recode(p)
    PROVE  IInv'
<1> DEFINE m == [type |-> "SUPERRES", pic |-> p]
<1>1. TypeOK /\ VideoInv /\ MailInv /\ inbox \in Seq(Messages)
  BY DEF IInv, TypeOK
<1>2. /\ stage[p] = "coded" /\ stage' = [stage EXCEPT ![p] = "coded again"]
      /\ inbox' = Append(inbox, m)
      /\ UNCHANGED <<video, sent, credits, startState, refs, decodeOrder, cursor, eos>>
      /\ live' = live
  BY DEF Recode
<1>3. /\ stage[p] \in Underway /\ "coded again" \in Underway \cup {"done"}
      /\ inputs' = inputs /\ refs' = refs
  BY <1>2 DEF Underway, startState
<1>3a. recodes[p] < Recodes(p) /\ recodes' \in [Pictures -> Nat]
  <2>1. recodes[p] < Recodes(p) /\ recodes' = [recodes EXCEPT ![p] = recodes[p] + 1]
    BY DEF Recode
  <2>2. recodes \in [Pictures -> Nat]
    BY <1>1 DEF TypeOK
  <2> QED BY <2>1, <2>2
<1>4. m \in Messages /\ m.type = "SUPERRES" /\ m.pic = p
  BY DEF Messages
<1> HIDE DEF m
<1>5. /\ inbox' \in Seq(Messages) /\ Len(inbox) \in Nat /\ DOMAIN inbox = 1..Len(inbox)
      /\ DOMAIN inbox' = 1..(Len(inbox) + 1) /\ inbox'[Len(inbox) + 1] = m
      /\ \A k \in DOMAIN inbox : inbox'[k] = inbox[k]
  BY <1>1, <1>2, <1>4, FifoAppend
<1>6. \A q : (InList(q)' <=> InList(q)) /\ (Listed(q)' <=> Listed(q))
  BY <1>3 DEF InList, Listed
<1>7. \A k \in DOMAIN inbox : inbox[k] \in Messages /\ inbox[k].pic \in Pictures
  BY <1>1, FifoMember
<1>8. \A q \in Pictures : q # p => stage'[q] = stage[q]
  BY <1>1, <1>2 DEF TypeOK
<1>9. stage'[p] = "coded again"
  BY <1>1, <1>2 DEF TypeOK
<1>10. \A k \in DOMAIN inbox : inbox[k] # m
  BY <1>1, <1>2, <1>4 DEF MailInv, Says
<1>11. \A k \in DOMAIN inbox' : Says(inbox[k])'
  <2> SUFFICES ASSUME NEW k \in DOMAIN inbox' PROVE Says(inbox[k])'
    OBVIOUS
  <2>1. CASE k \in DOMAIN inbox
    <3>1. ASSUME NEW x, Says(x), x.pic \in Pictures PROVE Says(x)'
      BY <1>2, <1>6, <1>8, <1>9, <3>1 DEF Says, Started, Underway
    <3> QED BY <1>1, <1>5, <1>7, <2>1, <3>1 DEF MailInv
  <2>2. CASE k = Len(inbox) + 1
    BY <1>4, <1>5, <1>9, <2>2 DEF Says
  <2> QED BY <1>5, <2>1, <2>2
<1>12. Ordered(inbox)'
  BY <1>1, <1>4, <1>5, <1>10 DEF MailInv, Ordered
<1>13. \A q : Mailed(q)' <=> Mailed(q)
  <2>1. \A q : Msg("INPUT", q) # m
    BY <1>4 DEF Msg
  <2> QED BY <1>5, <2>1 DEF Mailed
<1>14. Holding(p)' <=> Holding(p)
  <2>1. Recodes(p) \in Nat /\ recodes[p] \in Nat
    BY <1>1, SettingsOK DEF TypeOK
  <2>2. Recodes(p) > 0
    BY <1>3a, <2>1
  <2> QED BY <1>2, <1>9, <2>2 DEF Holding
<1>15. MailInv'
  BY <1>11, <1>12 DEF MailInv
<1> QED BY <1>2, <1>3, <1>5, <1>13, <1>14, <1>15, <1>3a, PassOK

\* What a sender of several messages adds to the fifo.
LEMMA FifoConcat ==
    ASSUME NEW s \in Seq(Messages), NEW t \in Seq(Messages)
    PROVE  /\ s \o t \in Seq(Messages) /\ DOMAIN s \subseteq DOMAIN (s \o t)
           /\ \A k \in DOMAIN s : (s \o t)[k] = s[k]
           /\ \A k \in DOMAIN (s \o t) \ DOMAIN s : k - Len(s) \in DOMAIN t /\ (s \o t)[k] = t[k - Len(s)]
OBVIOUS

\* What is left in the fifo is in order, and after what was received.
LEMMA TailOrdered ==
    ASSUME NEW s \in Seq(Messages), s # <<>>, Ordered(s)
    PROVE  /\ Ordered(Tail(s))
           /\ \A k \in DOMAIN Tail(s) :
                 /\ s[1].type \in {"INPUT", "SUPERRES"} => Tail(s)[k] # s[1]
                 /\ s[1].type = "INPUT" /\ Tail(s)[k].type = "INPUT" => s[1].pic < Tail(s)[k].pic
<1> DEFINE t == Tail(s)
<1>1. 1 \in DOMAIN s /\ \A k \in DOMAIN t : k \in Nat /\ k >= 1 /\ k + 1 \in DOMAIN s /\ t[k] = s[k + 1]
  BY FifoTail
<1> HIDE DEF t
<1>2. ASSUME NEW k \in DOMAIN t, NEW l \in DOMAIN t
      PROVE  /\ t[k] = t[l] /\ t[k].type \in {"INPUT", "SUPERRES"} => k = l
             /\ k < l /\ t[k].type = "INPUT" /\ t[l].type = "INPUT" => t[k].pic < t[l].pic
  <2>1. k \in Nat /\ l \in Nat /\ k + 1 \in DOMAIN s /\ l + 1 \in DOMAIN s /\ t[k] = s[k + 1] /\ t[l] = s[l + 1]
    BY <1>1
  <2>2. s[k + 1] = s[l + 1] /\ s[k + 1].type \in {"INPUT", "SUPERRES"} => k + 1 = l + 1
    BY <2>1 DEF Ordered
  <2>3. k + 1 < l + 1 /\ s[k + 1].type = "INPUT" /\ s[l + 1].type = "INPUT" => s[k + 1].pic < s[l + 1].pic
    BY <2>1 DEF Ordered
  <2> QED BY <2>1, <2>2, <2>3
<1>3. ASSUME NEW k \in DOMAIN t
      PROVE  /\ s[1].type \in {"INPUT", "SUPERRES"} => t[k] # s[1]
             /\ s[1].type = "INPUT" /\ t[k].type = "INPUT" => s[1].pic < t[k].pic
  <2>1. k \in Nat /\ k >= 1 /\ k + 1 \in DOMAIN s /\ t[k] = s[k + 1] /\ 1 \in DOMAIN s
    BY <1>1
  <2>2. s[1].type \in {"INPUT", "SUPERRES"} /\ s[1] = s[k + 1] => 1 = k + 1
    BY <2>1 DEF Ordered
  <2>3. 1 < k + 1 /\ s[1].type = "INPUT" /\ s[k + 1].type = "INPUT" => s[1].pic < s[k + 1].pic
    BY <2>1 DEF Ordered
  <2> QED BY <2>1, <2>2, <2>3
<1>4. Ordered(t)
  BY <1>2 DEF Ordered
<1> QED BY <1>3, <1>4 DEF t

\* A received picture is no longer in the fifo, and all others are.
LEMMA MailedAfter ==
    ASSUME TypeOK, MailInv, inbox # <<>>, inbox' = Tail(inbox), NEW q
    PROVE  Mailed(q)' <=> Mailed(q) /\ Head(inbox) # Msg("INPUT", q)
<1>1. /\ inbox \in Seq(Messages) /\ inbox[1] = Head(inbox) /\ 1 \in DOMAIN inbox
      /\ \A k \in DOMAIN inbox' : k + 1 \in DOMAIN inbox /\ inbox'[k] = inbox[k + 1]
      /\ \A k \in DOMAIN inbox : k # 1 => k - 1 \in DOMAIN inbox' /\ inbox'[k - 1] = inbox[k]
  BY FifoTail DEF TypeOK
<1>2. Msg("INPUT", q).type = "INPUT"
  BY DEF Msg
<1>3. \A k \in DOMAIN inbox' : Head(inbox).type = "INPUT" => inbox'[k] # Head(inbox)
  BY <1>1, TailOrdered DEF MailInv
<1>4. ASSUME Mailed(q), Head(inbox) # Msg("INPUT", q) PROVE Mailed(q)'
  <2>1. PICK k \in DOMAIN inbox : inbox[k] = Msg("INPUT", q)
    BY <1>4 DEF Mailed
  <2>2. k # 1
    BY <1>1, <1>4, <2>1
  <2> QED BY <1>1, <2>1, <2>2 DEF Mailed
<1>5. ASSUME Mailed(q)' PROVE Mailed(q) /\ Head(inbox) # Msg("INPUT", q)
  <2>1. PICK k \in DOMAIN inbox' : inbox'[k] = Msg("INPUT", q)
    BY <1>5 DEF Mailed
  <2>2. inbox[k + 1] = Msg("INPUT", q) /\ k + 1 \in DOMAIN inbox
    BY <1>1, <2>1
  <2> QED BY <1>2, <1>3, <2>1, <2>2 DEF Mailed
<1> QED BY <1>4, <1>5

\* What packetization sends: results of this picture.
LEMMA ResultsOK ==
    ASSUME NEW p \in Pictures
    PROVE  /\ Results(p) \in Seq(Messages)
           /\ \A k \in DOMAIN Results(p) : Results(p)[k].type \in {"REFERENCE", "FEEDBACK"} /\ Results(p)[k].pic = p
<1> DEFINE Of(s) == /\ s \in Seq(Messages)
                    /\ \A k \in DOMAIN s : s[k].type \in {"REFERENCE", "FEEDBACK"} /\ s[k].pic = p
           reference == IF IsRef(p) /\ Recodes(p) > 0 THEN <<[type |-> "REFERENCE", pic |-> p]>> ELSE <<>>
           feedback == IF IsRef(p) \/ DecOrder THEN <<[type |-> "FEEDBACK", pic |-> p]>> ELSE <<>>
<1>1. Of(<<>>)
  OBVIOUS
<1>2. ASSUME NEW m \in Messages, m.type \in {"REFERENCE", "FEEDBACK"}, m.pic = p PROVE Of(<<m>>)
  BY <1>2
<1> HIDE DEF Of
<1>3. /\ [type |-> "REFERENCE", pic |-> p] \in Messages /\ [type |-> "FEEDBACK", pic |-> p] \in Messages
  BY DEF Messages
<1>4. Of(reference) /\ Of(feedback)
  BY <1>1, <1>2, <1>3
<1> HIDE DEF reference, feedback
<1>5. ASSUME NEW s, NEW t, Of(s), Of(t) PROVE Of(s \o t)
  BY <1>5, FifoConcat DEF Of
<1>6. Of(reference \o feedback)
  BY <1>4, <1>5
<1>7. Results(p) = reference \o feedback
  BY DEF Results, reference, feedback
<1> QED BY <1>6, <1>7 DEF Of

\* A picture is packetized.
LEMMA PacketizeOK ==
    ASSUME IInv, NEW p \in Pictures, Packetize(p)
    PROVE  IInv'
<1>1. TypeOK /\ VideoInv /\ MailInv /\ inbox \in Seq(Messages)
  BY DEF IInv, TypeOK
<1>2. /\ stage[p] = "coded" /\ stage' = [stage EXCEPT ![p] = "done"]
      /\ inbox' = inbox \o Results(p)
      /\ live' = IF Recodes(p) > 0 THEN Hold(p, -1) ELSE live
      /\ UNCHANGED <<video, sent, credits, startState, refs, decodeOrder, cursor, eos>>
      /\ recodes' = recodes
  BY DEF Packetize
<1>3. stage[p] \in Underway /\ "done" \in Underway \cup {"done"} /\ recodes' \in [Pictures -> Nat]
  BY <1>1, <1>2 DEF Underway, TypeOK
<1>4. /\ inbox' \in Seq(Messages) /\ DOMAIN inbox \subseteq DOMAIN inbox'
      /\ \A k \in DOMAIN inbox : inbox'[k] = inbox[k]
      /\ \A k \in DOMAIN inbox' \ DOMAIN inbox : inbox'[k].type \in {"REFERENCE", "FEEDBACK"} /\ inbox'[k].pic = p
  BY <1>1, <1>2, ResultsOK, FifoConcat
<1>5. MailInv' /\ \A q : Mailed(q)' <=> Mailed(q)
  <2>1. Started(p) /\ stage[p] # "coded again" /\ UNCHANGED <<inputs, refs>>
    BY <1>2 DEF Started, Underway, startState
  <2> QED BY <1>1, <1>2, <1>3, <1>4, <2>1, ResultSent
<1>6. \/ (Holding(p)' <=> Holding(p)) /\ live' = live
      \/ Holding(p) /\ ~Holding(p)' /\ live' = Hold(p, -1)
  <2>1. stage'[p] = "done"
    BY <1>1, <1>2 DEF TypeOK
  <2>2. ~Holding(p)' /\ (Holding(p) <=> Recodes(p) > 0)
    BY <1>2, <2>1 DEF Holding
  <2> QED BY <1>2, <2>2
<1> QED BY <1>2, <1>3, <1>4, <1>5, <1>6, PassOK

\* A picture is coded again.
LEMMA ReceiveSuperresOK ==
    ASSUME IInv, ReceiveSuperres
    PROVE  IInv'
<1>1. TypeOK /\ VideoInv /\ MailInv /\ inbox \in Seq(Messages) /\ inbox # <<>> /\ Head(inbox).type = "SUPERRES"
  BY DEF IInv, TypeOK, ReceiveSuperres, Receives
<1>2. /\ inbox[1] = Head(inbox) /\ 1 \in DOMAIN inbox /\ Head(inbox) \in Messages
      /\ inbox' = Tail(inbox) /\ inbox' \in Seq(Messages)
      /\ \A k \in DOMAIN inbox' : k + 1 \in DOMAIN inbox /\ inbox'[k] = inbox[k + 1]
      /\ \A k \in DOMAIN inbox : k # 1 => k - 1 \in DOMAIN inbox' /\ inbox'[k - 1] = inbox[k]
  BY <1>1, FifoTail DEF ReceiveSuperres
<1>3. PICK m \in Messages : m = Head(inbox)
  BY <1>2
<1>4. PICK p \in Pictures : p = m.pic
  BY DEF Messages
<1>5. /\ stage' = [stage EXCEPT ![p] = "coding"]
      /\ UNCHANGED <<video, sent, credits, startState, refs, decodeOrder, cursor, eos>>
      /\ recodes' = recodes /\ live' = live /\ inputs' = inputs /\ refs' = refs
  BY <1>3, <1>4 DEF ReceiveSuperres, startState
<1>6. stage[p] = "coded again"
  BY <1>1, <1>2, <1>3, <1>4 DEF MailInv, Says
<1>7. stage[p] \in Underway /\ "coding" \in Underway \cup {"done"} /\ recodes' \in [Pictures -> Nat]
  BY <1>1, <1>5, <1>6 DEF Underway, TypeOK
<1>8. \A q : (InList(q)' <=> InList(q)) /\ (Listed(q)' <=> Listed(q))
  BY <1>5 DEF InList, Listed
<1>9. (\A q \in Pictures : q # p => stage'[q] = stage[q]) /\ stage'[p] = "coding"
  BY <1>1, <1>5 DEF TypeOK
<1>10. Ordered(inbox') /\ \A k \in DOMAIN inbox' : inbox'[k] # m
  BY <1>1, <1>2, <1>3, TailOrdered DEF MailInv
<1>11. \A k \in DOMAIN inbox' : Says(inbox[k])'
  <2>1. ASSUME NEW x, Says(x), x.pic \in Pictures, ~(x.type = "SUPERRES" /\ x.pic = p) PROVE Says(x)'
    BY <1>6, <1>8, <1>9, <2>1 DEF Says, Started, Underway
  <2>2. ASSUME NEW x \in Messages, x.type = "SUPERRES", x.pic = p PROVE x = m
    BY <1>1, <1>3, <1>4, <2>2 DEF Messages
  <2>3. ASSUME NEW k \in DOMAIN inbox' PROVE Says(inbox[k])'
    <3>1. inbox'[k] = inbox[k + 1] /\ Says(inbox[k + 1]) /\ inbox'[k] \in Messages /\ inbox'[k].pic \in Pictures
      BY <1>1, <1>2, FifoMember DEF MailInv
    <3>2. ~(inbox'[k].type = "SUPERRES" /\ inbox'[k].pic = p)
      BY <1>10, <2>2, <3>1
    <3> QED BY <2>1, <3>1, <3>2
  <2> QED BY <2>3
<1>12. \A q : Mailed(q)' <=> Mailed(q)
  <2>1. \A q : Msg("INPUT", q) # m
    BY <1>1, <1>3 DEF Msg
  <2> QED BY <1>1, <1>2, <1>3, <2>1, MailedAfter
<1>13. Holding(p)' <=> Holding(p)
  BY <1>6, <1>9 DEF Holding
<1>14. MailInv'
  BY <1>10, <1>11 DEF MailInv
<1> QED BY <1>2, <1>5, <1>7, <1>12, <1>13, <1>14, PassOK

\* The picture decision sends the next picture.
LEMMA SendOK ==
    ASSUME IInv, SendPictureOut
    PROVE  IInv'
<1>1. /\ VideoInv /\ TypeOK /\ SentInv /\ MailInv /\ InputInv /\ EntryInv /\ CreditInv
      /\ KeptInv /\ LiveInv /\ OrderInv /\ FirstInv /\ ScanInv
  BY DEF IInv
<1>2. /\ VideoInv' /\ scs' = scs /\ gop' = gop /\ released' = released
      /\ Pictures' = Pictures /\ Never' = Never /\ Parents' = Parents /\ ListLength' = ListLength
      /\ RefBuffers' = RefBuffers /\ RefFrames' = RefFrames /\ DecOrder' = DecOrder /\ PmDecOrder' = PmDecOrder
      /\ Messages' = Messages /\ Entries' = Entries
      /\ \A q : Needs(q)' = Needs(q) /\ IsRef(q)' = IsRef(q) /\ Recodes(q)' = Recodes(q)
  BY <1>1, SameVideo DEF SendPictureOut
<1>3. PICK n \in Pictures : n = sent
  BY DEF SendPictureOut
<1>4. /\ inputs' = inputs /\ refs' = refs /\ cursor' = cursor /\ eos' = eos /\ recodes' = recodes /\ live' = live
      /\ consecutive' = consecutive /\ heap' = heap /\ pmgrDecOrder' = pmgrDecOrder /\ decodeOrder' = decodeOrder
      /\ sent' = n + 1 /\ stage' = [stage EXCEPT ![n] = "waiting"] /\ inbox' = Append(inbox, Msg("INPUT", n))
      /\ credits' = IF IsRef(n) THEN credits - 1 ELSE credits
      /\ IsRef(n) => credits > 0
      /\ Cardinality(OpenPictures) < Parents
  BY <1>3 DEF SendPictureOut, HasCredit, startState, Msg, OpenPictures
<1>5. /\ Never \in Nat /\ Pictures = 0..(Never - 1) /\ n # Unlisted /\ ListLength \in Nat /\ Parents \in Nat /\ 0 \in Pictures
      /\ n + 1 \in 0..Never /\ n \in Nat
  BY <1>1, SettingsOK DEF Unlisted
<1>6. stage[n] = "unsent" /\ stage'[n] = "waiting" /\ \A q \in Pictures : q # n => stage'[q] = stage[q]
  BY <1>1, <1>3, <1>4, <1>5 DEF SentInv, TypeOK
<1>7. \A q \in Pictures : (Started(q)' <=> Started(q)) /\ (Holding(q)' <=> Holding(q))
  BY <1>2, <1>6 DEF Started, Holding, Underway
<1>8. \A q : InList(q)' = InList(q) /\ Listed(q)' = Listed(q)
  BY <1>4 DEF InList, Listed
<1>9. ~InList(n) /\ ~Listed(n)
  BY <1>1, <1>5, <1>6 DEF InputInv, EntryInv, InList, Listed
<1>10. /\ inbox \in Seq(Messages) /\ Msg("INPUT", n) \in Messages /\ Msg("INPUT", n).type = "INPUT" /\ Msg("INPUT", n).pic = n
  BY <1>1 DEF TypeOK, Messages, Msg
<1>11. /\ inbox' \in Seq(Messages) /\ Len(inbox) \in Nat /\ DOMAIN inbox = 1..Len(inbox)
       /\ DOMAIN inbox' = 1..(Len(inbox) + 1) /\ inbox'[Len(inbox) + 1] = Msg("INPUT", n)
       /\ \A k \in DOMAIN inbox : inbox'[k] = inbox[k] /\ inbox[k] \in Messages /\ inbox[k].pic \in Pictures
  BY <1>4, <1>10, FifoAppend, FifoMember
<1>12. \A k \in DOMAIN inbox : inbox[k].type = "INPUT" => inbox[k].pic < n
  <2>1. \A q \in Pictures : stage[q] = "waiting" => q < n
    BY <1>1, <1>3, <1>5 DEF SentInv
  <2> QED BY <1>1, <1>11, <2>1 DEF MailInv, Says
<1>13. MailInv'
  <2>1. ASSUME NEW x, Says(x), x.pic \in Pictures PROVE Says(x)'
    BY <1>6, <1>7, <1>8, <2>1 DEF Says
  <2>2. ASSUME NEW k \in DOMAIN inbox' PROVE Says(inbox[k])'
    <3>1. CASE k \in DOMAIN inbox
      BY <1>1, <1>11, <2>1, <3>1 DEF MailInv
    <3>2. CASE k = Len(inbox) + 1
      BY <1>6, <1>8, <1>9, <1>10, <1>11, <3>2 DEF Says
    <3> QED BY <1>11, <3>1, <3>2
  <2>3. Ordered(inbox)'
    <3>1. \A k \in DOMAIN inbox : inbox[k] # Msg("INPUT", n)
      BY <1>5, <1>10, <1>11, <1>12
    <3> QED BY <1>1, <1>10, <1>11, <1>12, <3>1 DEF MailInv, Ordered
  <2> QED BY <2>2, <2>3 DEF MailInv
<1>14. \A q : Mailed(q)' <=> Mailed(q) \/ q = n
  <2>1. ASSUME NEW q, Mailed(q)' PROVE Mailed(q) \/ q = n
    BY <1>10, <1>11, <2>1 DEF Mailed, Msg
  <2>2. ASSUME NEW q, Mailed(q) PROVE Mailed(q)'
    BY <1>11, <2>2 DEF Mailed
  <2>3. Mailed(n)'
    BY <1>11 DEF Mailed
  <2> QED BY <2>1, <2>2, <2>3
<1>15. Entered' = IF IsRef(n) THEN Entered \cup {n} ELSE Entered
  BY <1>2, <1>8, <1>14 DEF Entered
<1>16. n \notin Entered
  <2>1. ~Mailed(n)
    <3>1. \A k \in DOMAIN inbox : inbox[k] # Msg("INPUT", n)
      BY <1>5, <1>10, <1>11, <1>12
    <3> QED BY <3>1 DEF Mailed
  <2> QED BY <1>9, <2>1 DEF Entered
<1>17. CreditInv'
  <2>1. IsFiniteSet(Entered) /\ Cardinality(Entered) \in Nat
    BY <1>1, CountsOK
  <2>2. Cardinality(Entered \cup {n}) = Cardinality(Entered) + 1
    BY <1>16, <2>1, FS_AddElement
  <2>3. Cardinality(Entered') = IF IsRef(n) THEN Cardinality(Entered) + 1 ELSE Cardinality(Entered)
    BY <1>15, <2>2
  <2>4. credits \in Nat /\ credits + Cardinality(Entered) = ListLength
    BY <1>1 DEF CreditInv, TypeOK
  <2> QED BY <1>2, <1>4, <1>5, <2>1, <2>3, <2>4 DEF CreditInv
<1>18. TypeOK'
  <2>1. credits' \in 0..ListLength
    BY <1>1, <1>4, <1>5 DEF TypeOK
  <2>2. stage' \in [Pictures -> Stages]
    BY <1>1, <1>4 DEF TypeOK, Stages
  <2> QED BY <1>1, <1>2, <1>4, <1>5, <1>11, <2>1, <2>2 DEF TypeOK
<1>19. SentInv'
  BY <1>1, <1>2, <1>3, <1>4, <1>5, <1>6 DEF SentInv
<1>20. InputInv'
  <2>1. IsFiniteSet(OpenPictures) /\ Cardinality(OpenPictures) \in Nat
    BY <1>1, CountsOK
  <2>2. OpenPictures' = OpenPictures \cup {n}
    BY <1>2, <1>6 DEF OpenPictures
  <2>3. Cardinality(OpenPictures') <= Parents
    <3>1. Cardinality(OpenPictures \cup {n}) <= Cardinality(OpenPictures) + 1
      BY <2>1, FS_AddElement
    <3>2. IsFiniteSet(OpenPictures \cup {n}) /\ Cardinality(OpenPictures \cup {n}) \in Nat
      BY <2>1, FS_AddElement, FS_CardinalityType
    <3> QED BY <1>4, <1>5, <2>1, <2>2, <3>1, <3>2
  <2>4. \A i \in DOMAIN inputs : inputs[i] # Unlisted => stage'[inputs[i]] = "waiting" /\ (IsRef(inputs[i]) => Listed(inputs[i]))
    BY <1>1, <1>6 DEF InputInv, TypeOK
  <2>5. \A q \in Pictures : stage'[q] = "waiting" => InList(q) \/ Mailed(q)'
    BY <1>1, <1>6, <1>14 DEF InputInv
  <2> QED BY <1>1, <1>2, <1>4, <1>8, <2>3, <2>4, <2>5 DEF InputInv
<1>21. EntryInv'
  BY <1>1, <1>2, <1>4, <1>6, <1>7 DEF EntryInv, TypeOK, Entries
<1>22. KeptInv'
  BY <1>1, <1>2, <1>7, <1>8, NeedsOK DEF KeptInv
<1>23. LiveInv'
  <2>1. \A r \in Pictures : HoldersOf(r)' = HoldersOf(r)
    BY <1>2, <1>7 DEF HoldersOf
  <2>2. \A r \in Pictures : Nominal(r)' = Nominal(r)
    BY <1>7, <1>8 DEF Nominal
  <2> QED BY <1>1, <1>2, <1>4, <2>1, <2>2 DEF LiveInv
<1>24. OrderInv'
  BY <1>1, <1>2, <1>4, <1>7 DEF OrderInv, ConsecutiveIsExact
<1>25. FirstInv'
  BY <1>1, <1>2, <1>4, <1>5, <1>7 DEF FirstInv
<1>26. ScanInv'
  <2>1. \A r \in Pictures : Usable(EntryOf(r))' => Usable(EntryOf(r))
    BY <1>1, <1>2, <1>4, <1>18, UsableStays DEF video
  <2>2. \A q \in Pictures : Startable(q)' => Startable(q)
    BY <1>1, <1>2, <1>4, <2>1, StartableStays DEF video
  <2> QED BY <1>1, <1>4, <2>2 DEF ScanInv, TypeOK
<1> QED BY <1>2, <1>13, <1>17, <1>18, <1>19, <1>20, <1>21, <1>22, <1>23, <1>24, <1>25, <1>26 DEF IInv

\* The picture manager takes in a picture.
LEMMA ReceiveInputOK ==
    ASSUME IInv, ReceiveInput
    PROVE  IInv'
<1>1. /\ VideoInv /\ TypeOK /\ SentInv /\ MailInv /\ InputInv /\ EntryInv /\ CreditInv
      /\ KeptInv /\ LiveInv /\ OrderInv /\ FirstInv /\ ScanInv
  BY DEF IInv
<1>2. /\ VideoInv' /\ scs' = scs /\ gop' = gop /\ released' = released
      /\ Pictures' = Pictures /\ Never' = Never /\ Parents' = Parents /\ ListLength' = ListLength
      /\ RefBuffers' = RefBuffers /\ RefFrames' = RefFrames /\ DecOrder' = DecOrder /\ PmDecOrder' = PmDecOrder
      /\ Messages' = Messages /\ Entries' = Entries
      /\ \A q : Needs(q)' = Needs(q) /\ IsRef(q)' = IsRef(q) /\ Recodes(q)' = Recodes(q)
  BY <1>1, SameVideo DEF ReceiveInput
<1>3. /\ inbox \in Seq(Messages) /\ inbox # <<>> /\ Head(inbox).type = "INPUT" /\ cursor = 0
  BY <1>1 DEF TypeOK, ReceiveInput, Receives
<1>4. /\ inbox[1] = Head(inbox) /\ 1 \in DOMAIN inbox /\ Head(inbox) \in Messages
      /\ inbox' = Tail(inbox) /\ inbox' \in Seq(Messages)
      /\ \A k \in DOMAIN inbox' : k + 1 \in DOMAIN inbox /\ inbox'[k] = inbox[k + 1]
  BY <1>3, FifoTail DEF ReceiveInput
<1>5. PICK p \in Pictures : p = Head(inbox).pic
  BY <1>4 DEF Messages
<1>6. /\ sent' = sent /\ credits' = credits /\ consecutive' = consecutive /\ heap' = heap /\ pmgrDecOrder' = pmgrDecOrder
      /\ decodeOrder' = decodeOrder /\ eos' = eos /\ stage' = stage /\ recodes' = recodes /\ live' = live /\ cursor' = 1
  BY DEF ReceiveInput, pictureState
<1>7. /\ p # Unlisted /\ ListLength \in Nat /\ Parents \in Nat /\ 0 \in Pictures /\ \A q \in Pictures : q \in Nat
      /\ DOMAIN inputs = 1..Parents /\ DOMAIN refs = 1..ListLength
  <2>1. ListLength \in Nat /\ Parents \in Nat /\ Never \in Nat \ {0} /\ Pictures = 0..(Never - 1)
    BY <1>1, SettingsOK
  <2>2. p # Unlisted /\ 0 \in Pictures /\ \A q \in Pictures : q \in Nat
    BY <2>1 DEF Unlisted
  <2>3. DOMAIN inputs = 1..Parents /\ DOMAIN refs = 1..ListLength
    BY <1>1 DEF TypeOK
  <2> QED BY <2>1, <2>2, <2>3
<1>8. stage[p] = "waiting" /\ ~InList(p) /\ ~Listed(p) /\ Head(inbox) = Msg("INPUT", p) /\ Mailed(p)
  <2>1. Head(inbox) = Msg("INPUT", p)
    BY <1>3, <1>4, <1>5 DEF Messages, Msg
  <2> QED BY <1>1, <1>3, <1>4, <1>5, <2>1 DEF MailInv, Says, Mailed
<1>9. FreeInputs # {} /\ (IsRef(p) => \E i \in DOMAIN refs : refs[i] = NoRef)
  BY <1>5, RoomOK DEF ListHasRoom, ReceiveInput
<1>10. PICK f \in DOMAIN inputs : inputs[f] = Unlisted /\ inputs' = [inputs EXCEPT ![f] = p]
  BY <1>1, <1>5, <1>9, FreeInputOK DEF ReceiveInput
<1>11. PICK e \in 0..ListLength :
          IF IsRef(p) THEN e \in DOMAIN refs /\ refs[e] = NoRef /\ refs' = [refs EXCEPT ![e] = NewRef(p)]
                      ELSE refs' = refs
  <2>1. CASE IsRef(p)
    <3>1. FreeEntry \in DOMAIN refs /\ refs[FreeEntry] = NoRef
      BY <1>1, <1>9, <2>1, FreeEntryOK
    <3>2. refs' = [refs EXCEPT ![FreeEntry] = NewRef(p)]
      BY <1>5, <2>1 DEF ReceiveInput
    <3>3. FreeEntry \in 0..ListLength
      BY <1>7, <3>1
    <3> QED BY <2>1, <3>1, <3>2, <3>3
  <2>2. CASE ~IsRef(p)
    BY <1>5, <1>7, <2>2 DEF ReceiveInput
  <2> QED BY <2>1, <2>2
<1>12. \A i \in DOMAIN inputs : inputs'[i] = IF i = f THEN p ELSE inputs[i]
  BY <1>1, <1>10 DEF TypeOK
<1>13. /\ refs' \in [1..ListLength -> Entries]
       /\ \A j \in DOMAIN refs : ~(IsRef(p) /\ j = e) => refs'[j] = refs[j]
       /\ IsRef(p) => /\ refs'[e].pic = p /\ ~refs'[e].available /\ refs'[e].lastRef = Never
                      /\ e \in DOMAIN refs /\ refs[e].pic = Unlisted
  <2>1. NewRef(p) \in Entries /\ NewRef(p).pic = p /\ ~NewRef(p).available /\ NewRef(p).lastRef = Never
    BY DEF NewRef, Entries
  <2>2. NoRef.pic = Unlisted
    BY DEF NoRef
  <2>3. refs \in [1..ListLength -> Entries]
    BY <1>1 DEF TypeOK
  <2> QED BY <1>11, <2>1, <2>2, <2>3
<1>14. \A q \in Pictures : (InList(q)' <=> InList(q) \/ q = p) /\ (Listed(q)' <=> Listed(q) \/ (q = p /\ IsRef(p)))
  <2>1. DOMAIN inputs' = DOMAIN inputs /\ DOMAIN refs' = DOMAIN refs
    BY <1>7, <1>10, <1>13
  <2>2. ASSUME NEW q \in Pictures PROVE InList(q)' <=> InList(q) \/ q = p
    <3>1. ASSUME InList(q)' PROVE InList(q) \/ q = p
      BY <1>12, <2>1, <3>1 DEF InList
    <3>2. ASSUME InList(q) PROVE InList(q)'
      <4>1. PICK i \in DOMAIN inputs : inputs[i] = q
        BY <3>2 DEF InList
      <4>2. q # Unlisted
        BY <1>7 DEF Unlisted
      <4>3. inputs'[i] = q
        BY <1>10, <1>12, <4>1, <4>2
      <4> QED BY <2>1, <4>3 DEF InList
    <3>3. InList(p)'
      BY <1>10, <1>12, <2>1 DEF InList
    <3> QED BY <3>1, <3>2, <3>3
  <2>3. ASSUME NEW q \in Pictures PROVE Listed(q)' <=> Listed(q) \/ (q = p /\ IsRef(p))
    <3>1. ASSUME Listed(q)' PROVE Listed(q) \/ (q = p /\ IsRef(p))
      BY <1>13, <2>1, <3>1 DEF Listed
    <3>2. ASSUME Listed(q) PROVE Listed(q)'
      <4>1. PICK i \in DOMAIN refs : refs[i].pic = q
        BY <3>2 DEF Listed
      <4>2. q # Unlisted
        BY <1>7 DEF Unlisted
      <4>3. refs'[i].pic = q
        BY <1>13, <4>1, <4>2
      <4> QED BY <2>1, <4>3 DEF Listed
    <3>3. IsRef(p) => Listed(p)'
      BY <1>13, <2>1 DEF Listed
    <3> QED BY <3>1, <3>2, <3>3
  <2> QED BY <2>2, <2>3
<1>15. \A q : Mailed(q)' <=> Mailed(q) /\ q # p
  <2>1. \A q : Msg("INPUT", q) = Msg("INPUT", p) <=> q = p
    BY DEF Msg
  <2> QED BY <1>1, <1>3, <1>4, <1>8, <2>1, MailedAfter
<1>16. \A q \in Pictures : (Started(q)' <=> Started(q)) /\ (Holding(q)' <=> Holding(q))
  BY <1>2, <1>6 DEF Started, Holding
<1>17. MailInv'
  <2>1. Ordered(inbox') /\ \A k \in DOMAIN inbox' : inbox'[k].type = "INPUT" => p < inbox'[k].pic
    BY <1>1, <1>3, <1>4, <1>5, TailOrdered DEF MailInv
  <2>2. ASSUME NEW x, Says(x), x.pic \in Pictures, x.type = "INPUT" => x.pic # p PROVE Says(x)'
    BY <1>6, <1>14, <1>16, <2>2 DEF Says
  <2>3. ASSUME NEW k \in DOMAIN inbox' PROVE Says(inbox[k])'
    <3>1. inbox'[k] = inbox[k + 1] /\ Says(inbox[k + 1]) /\ inbox'[k].pic \in Pictures
      BY <1>1, <1>4, FifoMember DEF MailInv
    <3>2. inbox'[k].type = "INPUT" => inbox'[k].pic # p
      BY <1>7, <2>1
    <3> QED BY <2>2, <3>1, <3>2
  <2> QED BY <2>1, <2>3 DEF MailInv
<1>18. TypeOK'
  <2>1. inputs' \in [1..Parents -> Pictures \cup {Unlisted}]
    BY <1>1, <1>10 DEF TypeOK
  <2>2. cursor' \in 0..(Parents + 1)
    BY <1>6, <1>7
  <2> QED BY <1>1, <1>2, <1>4, <1>6, <1>13, <2>1, <2>2 DEF TypeOK
<1>19. SentInv'
  BY <1>1, <1>2, <1>6 DEF SentInv
<1>20. InputInv'
  <2>1. OpenPictures' = OpenPictures
    BY <1>2, <1>6 DEF OpenPictures
  <2>2. DOMAIN inputs' = DOMAIN inputs
    BY <1>10
  <2>3. ASSUME NEW i \in DOMAIN inputs, NEW q, inputs'[i] = q, q # Unlisted
        PROVE  stage[q] = "waiting" /\ (IsRef(q) => Listed(q)')
    <3>1. CASE i = f
      <4>1. q = p
        BY <1>12, <2>3, <3>1
      <4> QED BY <1>8, <1>14, <4>1
    <3>2. CASE i # f
      <4>1. inputs[i] = q
        BY <1>12, <2>3, <3>2
      <4>2. q \in Pictures /\ stage[q] = "waiting" /\ (IsRef(q) => Listed(q))
        BY <1>1, <2>3, <4>1 DEF InputInv, TypeOK
      <4> QED BY <1>14, <4>2
    <3> QED BY <3>1, <3>2
  <2>4. \A i, j \in DOMAIN inputs : inputs'[i] = inputs'[j] /\ inputs'[i] # Unlisted => i = j
    BY <1>1, <1>8, <1>12 DEF InputInv, InList
  <2>5. \A q \in Pictures : stage[q] = "waiting" => InList(q)' \/ Mailed(q)'
    BY <1>1, <1>14, <1>15 DEF InputInv
  <2> QED BY <1>1, <1>2, <1>6, <2>1, <2>2, <2>3, <2>4, <2>5 DEF InputInv
<1>21. EntryInv'
  <2>1. DOMAIN refs' = DOMAIN refs
    BY <1>7, <1>13
  <2>2. \A i, j \in DOMAIN refs : refs'[i].pic = refs'[j].pic /\ refs'[i].pic # Unlisted => i = j
    BY <1>1, <1>8, <1>13 DEF EntryInv, Listed
  <2>3. ASSUME NEW i \in DOMAIN refs
        PROVE  /\ refs'[i].pic = Unlisted => refs'[i] = NoRef
               /\ refs'[i].pic # Unlisted =>
                     /\ IsRef(refs'[i].pic) /\ stage[refs'[i].pic] # "unsent"
                     /\ refs'[i].available => Started(refs'[i].pic)
                     /\ refs'[i].lastRef # Never =>
                          /\ refs'[i].lastRef \in Pictures /\ Started(refs'[i].lastRef)
                          /\ refs'[i].pic \in released[refs'[i].lastRef]
    <3>1. CASE IsRef(p) /\ i = e
      BY <1>7, <1>8, <1>13, <3>1
    <3>2. CASE ~(IsRef(p) /\ i = e)
      <4>1. refs'[i] = refs[i]
        BY <1>13, <3>2
      <4> QED BY <1>1, <4>1 DEF EntryInv
    <3> QED BY <3>1, <3>2
  <2>4. \A q : (Started(q)' <=> Started(q)) /\ (IsRef(q)' <=> IsRef(q))
    BY <1>2, <1>6 DEF Started
  <2> QED BY <1>2, <1>6, <2>1, <2>2, <2>3, <2>4 DEF EntryInv
<1>22. CreditInv'
  <2>1. Entered' = Entered
    BY <1>2, <1>8, <1>14, <1>15 DEF Entered
  <2> QED BY <1>1, <1>2, <1>6, <2>1 DEF CreditInv
<1>23. KeptInv'
  BY <1>1, <1>2, <1>14, <1>16, NeedsOK DEF KeptInv
<1>24. LiveInv'
  <2>1. \A r \in Pictures : HoldersOf(r)' = HoldersOf(r)
    BY <1>2, <1>16 DEF HoldersOf
  <2>2. ~Started(p)
    BY <1>8 DEF Started, Underway
  <2>3. \A r \in Pictures : Nominal(r)' = Nominal(r)
    BY <1>14, <1>16, <2>2 DEF Nominal
  <2> QED BY <1>1, <1>2, <1>6, <2>1, <2>3 DEF LiveInv
<1>25. OrderInv'
  BY <1>1, <1>2, <1>6, <1>16 DEF OrderInv, ConsecutiveIsExact
<1>26. FirstInv'
  <2> SUFFICES ASSUME ~Started(0)' PROVE /\ \A q \in Pictures : ~Started(q)
                                         /\ \A i \in DOMAIN inputs : inputs'[i] # Unlisted => inputs'[i] = 0
                                         /\ consecutive = 0 /\ pmgrDecOrder = 0 /\ decodeOrder = 0
    BY <1>2, <1>6, <1>10, <1>16 DEF FirstInv
  <2>1. /\ ~Started(0) /\ \A q \in Pictures : ~Started(q)
        /\ \A i \in DOMAIN inputs : inputs[i] = Unlisted
        /\ consecutive = 0 /\ pmgrDecOrder = 0 /\ decodeOrder = 0
    BY <1>1, <1>3, <1>7, <1>16 DEF FirstInv
  <2>2. stage[0] = "waiting"
    <3>1. sent > 0
      BY <1>1, <1>7, <1>8 DEF SentInv, TypeOK
    <3>2. stage[0] # "unsent" /\ stage[0] \in Stages
      BY <1>1, <1>7, <3>1 DEF SentInv, TypeOK
    <3> QED BY <2>1, <3>2 DEF Stages, Started, Underway
  <2>3. Mailed(0)
    BY <1>1, <1>7, <2>1, <2>2 DEF InputInv, InList, Unlisted
  <2>4. p = 0
    <3>1. PICK k \in DOMAIN inbox : inbox[k] = Msg("INPUT", 0)
      BY <2>3 DEF Mailed
    <3>2. inbox[k].type = "INPUT" /\ inbox[k].pic = 0 /\ k \in Nat /\ k >= 1
      BY <1>3, <3>1, FifoTail DEF Msg
    <3>3. k > 1 => p < 0
      BY <1>1, <1>3, <1>4, <1>5, <3>2 DEF MailInv, Ordered
    <3> QED BY <1>4, <1>5, <1>7, <3>2, <3>3
  <2> QED BY <1>12, <2>1, <2>4
<1>27. ScanInv'
  BY <1>6, <1>7, <1>10 DEF ScanInv
<1> QED BY <1>2, <1>17, <1>18, <1>19, <1>20, <1>21, <1>22, <1>23, <1>24, <1>25, <1>26, <1>27 DEF IInv

\* The picture manager takes in what became of a picture: its entry is marked, and
\* the scan begins.
LEMMA ReceiveResultOK ==
    ASSUME IInv, inbox # <<>>, Head(inbox).type \in {"REFERENCE", "FEEDBACK"}, cursor = 0,
           inbox' = Tail(inbox), cursor' = 1,
           UNCHANGED <<video, sent, credits, startState, eos, pictureState>>,
           refs' \in [1..ListLength -> Entries],
           \A j \in DOMAIN refs :
               /\ refs'[j].pic = refs[j].pic /\ refs'[j].lastRef = refs[j].lastRef
               /\ refs[j].pic = Unlisted => refs'[j] = refs[j]
               /\ refs'[j].available => refs[j].available \/ refs[j].pic = Head(inbox).pic,
           \/ decodeOrder' = decodeOrder
           \/ decodeOrder = Head(inbox).pic /\ decodeOrder' = decodeOrder + 1
    PROVE  IInv'
<1>1. /\ VideoInv /\ TypeOK /\ SentInv /\ MailInv /\ InputInv /\ EntryInv /\ CreditInv
      /\ KeptInv /\ LiveInv /\ OrderInv /\ FirstInv /\ ScanInv
  BY DEF IInv
<1>2. /\ VideoInv' /\ scs' = scs /\ gop' = gop /\ released' = released
      /\ Pictures' = Pictures /\ Never' = Never /\ Parents' = Parents /\ ListLength' = ListLength
      /\ RefBuffers' = RefBuffers /\ RefFrames' = RefFrames /\ DecOrder' = DecOrder /\ PmDecOrder' = PmDecOrder
      /\ Messages' = Messages /\ Entries' = Entries
      /\ \A q : Needs(q)' = Needs(q) /\ IsRef(q)' = IsRef(q) /\ Recodes(q)' = Recodes(q)
  BY <1>1, SameVideo
<1>3. /\ inbox \in Seq(Messages) /\ inbox[1] = Head(inbox) /\ 1 \in DOMAIN inbox /\ Head(inbox) \in Messages
      /\ inbox' \in Seq(Messages)
      /\ \A k \in DOMAIN inbox' : k + 1 \in DOMAIN inbox /\ inbox'[k] = inbox[k + 1]
  BY <1>1, FifoTail DEF TypeOK
<1>4. PICK p \in Pictures : p = Head(inbox).pic
  BY <1>3 DEF Messages
<1>5. /\ sent' = sent /\ credits' = credits /\ consecutive' = consecutive /\ heap' = heap /\ pmgrDecOrder' = pmgrDecOrder
      /\ eos' = eos /\ stage' = stage /\ recodes' = recodes /\ live' = live /\ inputs' = inputs
  BY DEF startState, pictureState
<1>6. /\ Never \in Nat /\ Pictures = 0..(Never - 1) /\ 0 \in Pictures /\ Parents \in Nat
      /\ DOMAIN inputs = 1..Parents /\ DOMAIN refs = 1..ListLength /\ DOMAIN refs' = DOMAIN refs
  <2>1. Never \in Nat \ {0} /\ Pictures = 0..(Never - 1) /\ Parents \in Nat
    BY <1>1, SettingsOK
  <2>2. DOMAIN inputs = 1..Parents /\ DOMAIN refs = 1..ListLength /\ DOMAIN refs' = DOMAIN refs
    BY <1>1 DEF TypeOK
  <2> QED BY <2>1, <2>2
<1>7. Started(p)
  BY <1>1, <1>3, <1>4 DEF MailInv, Says
<1>8. \A q : InList(q)' = InList(q) /\ (Listed(q)' <=> Listed(q)) /\ (Started(q)' <=> Started(q))
  BY <1>5, <1>6 DEF InList, Listed, Started
<1>9. \A q \in Pictures : Holding(q)' <=> Holding(q)
  BY <1>2, <1>5 DEF Holding
<1>10. \A q : Mailed(q)' <=> Mailed(q)
  <2>1. \A q : Msg("INPUT", q) # Head(inbox)
    BY DEF Msg
  <2> QED BY <1>1, <2>1, MailedAfter
<1>11. MailInv'
  <2>1. Ordered(inbox')
    BY <1>1, <1>3, TailOrdered DEF MailInv
  <2>2. ASSUME NEW x, Says(x) PROVE Says(x)'
    BY <1>5, <1>8, <2>2 DEF Says
  <2>3. ASSUME NEW k \in DOMAIN inbox' PROVE Says(inbox[k])'
    BY <1>1, <1>3, <2>2 DEF MailInv
  <2> QED BY <2>1, <2>3 DEF MailInv
<1>12. TypeOK'
  <2>1. decodeOrder' \in 0..Never
    BY <1>1, <1>4, <1>6 DEF TypeOK
  <2>2. cursor' \in 0..(Parents + 1)
    BY <1>6
  <2> QED BY <1>1, <1>2, <1>3, <1>5, <2>1, <2>2 DEF TypeOK
<1>13. SentInv'
  BY <1>1, <1>2, <1>5 DEF SentInv
<1>14. InputInv'
  <2>1. OpenPictures' = OpenPictures
    BY <1>2, <1>5 DEF OpenPictures
  <2> QED BY <1>1, <1>2, <1>5, <1>8, <1>10, <2>1 DEF InputInv
<1>15. EntryInv'
  <2>1. \A i, j \in DOMAIN refs : refs'[i].pic = refs'[j].pic /\ refs'[i].pic # Unlisted => i = j
    BY <1>1 DEF EntryInv
  <2>2. ASSUME NEW i \in DOMAIN refs
        PROVE  /\ refs'[i].pic = Unlisted => refs'[i] = NoRef
               /\ refs'[i].pic # Unlisted =>
                     /\ IsRef(refs'[i].pic) /\ stage[refs'[i].pic] # "unsent"
                     /\ refs'[i].available => Started(refs[i].pic)
                     /\ refs'[i].lastRef # Never =>
                          /\ refs'[i].lastRef \in Pictures /\ Started(refs[i].lastRef)
                          /\ refs'[i].pic \in released[refs'[i].lastRef]
    BY <1>1, <1>4, <1>7 DEF EntryInv
  <2> QED BY <1>2, <1>5, <1>6, <1>8, <2>1, <2>2 DEF EntryInv
<1>16. CreditInv'
  <2>1. Entered' = Entered
    BY <1>2, <1>8, <1>10 DEF Entered
  <2> QED BY <1>1, <1>2, <1>5, <2>1 DEF CreditInv
<1>17. KeptInv'
  BY <1>1, <1>2, <1>8, NeedsOK DEF KeptInv
<1>18. LiveInv'
  <2>1. \A r \in Pictures : HoldersOf(r)' = HoldersOf(r)
    BY <1>2, <1>9 DEF HoldersOf
  <2>2. \A r \in Pictures : Nominal(r)' = Nominal(r)
    BY <1>8 DEF Nominal
  <2> QED BY <1>1, <1>2, <1>5, <2>1, <2>2 DEF LiveInv
<1>19. OrderInv'
  <2>1. DecOrder => decodeOrder' <= consecutive + 1
    <3>1. consecutive \in Nat /\ p \in Nat
      BY <1>1, <1>6 DEF TypeOK
    <3>2. p > 0 => p \in 1..consecutive \cup heap
      BY <1>1, <1>7 DEF OrderInv, ConsecutiveIsExact
    <3>3. DecOrder => heap = {} /\ decodeOrder <= consecutive + 1
      BY <1>1 DEF OrderInv
    <3> QED BY <1>4, <3>1, <3>2, <3>3
  <2>2. ConsecutiveIsExact'
    BY <1>1, <1>2, <1>5, <1>8 DEF OrderInv, ConsecutiveIsExact
  <2> QED BY <1>1, <1>2, <1>5, <2>1, <2>2 DEF OrderInv
<1>20. FirstInv'
  <2>1. Started(0)
    BY <1>1, <1>7 DEF FirstInv
  <2> QED BY <1>8, <2>1 DEF FirstInv
<1>21. ScanInv'
  BY <1>5, <1>6 DEF ScanInv
<1> QED BY <1>2, <1>11, <1>12, <1>13, <1>14, <1>15, <1>16, <1>17, <1>18, <1>19, <1>20, <1>21 DEF IInv

\* A reference is reconstructed.
LEMMA ReceiveReferenceOK ==
    ASSUME IInv, ReceiveReference
    PROVE  IInv'
<1>1. TypeOK /\ VideoInv /\ EntryInv /\ inbox \in Seq(Messages) /\ inbox # <<>> /\ Head(inbox).type = "REFERENCE" /\ cursor = 0
  BY DEF IInv, TypeOK, ReceiveReference, Receives
<1>2. Head(inbox) \in Messages /\ Head(inbox).pic \in Pictures
  BY <1>1, FifoTail DEF Messages
<1>3. PICK i \in Int : i = EntryOf(Head(inbox).pic) /\ (i # 0 => i \in DOMAIN refs /\ refs[i].pic = Head(inbox).pic)
  <2>1. \A j \in DOMAIN refs : j \in Int
    BY <1>1, SettingsOK DEF TypeOK
  <2> QED BY <1>1, <1>2, <2>1, EntryOfOK
<1>4. /\ refs' = IF i = 0 THEN refs ELSE [refs EXCEPT ![i].available = TRUE]
      /\ inbox' = Tail(inbox) /\ cursor' = 1 /\ decodeOrder' = decodeOrder
      /\ UNCHANGED <<video, sent, credits, startState, eos, pictureState>>
  BY <1>3 DEF ReceiveReference
<1>5. Head(inbox).pic # Unlisted
  BY <1>1, <1>2, SettingsOK DEF Unlisted
<1>6. refs \in [1..ListLength -> Entries]
  BY <1>1 DEF TypeOK
<1>7. /\ refs' \in [1..ListLength -> Entries]
      /\ \A j \in DOMAIN refs :
            /\ refs'[j].pic = refs[j].pic /\ refs'[j].lastRef = refs[j].lastRef
            /\ refs[j].pic = Unlisted => refs'[j] = refs[j]
            /\ refs'[j].available => refs[j].available \/ refs[j].pic = Head(inbox).pic
  BY <1>3, <1>4, <1>5, <1>6 DEF Entries
<1> QED BY <1>1, <1>4, <1>7, ReceiveResultOK

\* A picture is packetized, as the picture manager learns.
LEMMA ReceiveFeedbackOK ==
    ASSUME IInv, ReceiveFeedback
    PROVE  IInv'
<1>1. TypeOK /\ VideoInv /\ EntryInv /\ inbox \in Seq(Messages) /\ inbox # <<>> /\ Head(inbox).type = "FEEDBACK" /\ cursor = 0
  BY DEF IInv, TypeOK, ReceiveFeedback, Receives
<1>2. Head(inbox) \in Messages /\ Head(inbox).pic \in Pictures
  BY <1>1, FifoTail DEF Messages
<1>3. PICK i \in Int : i = EntryOf(Head(inbox).pic) /\ (i # 0 => i \in DOMAIN refs /\ refs[i].pic = Head(inbox).pic)
  <2>1. \A j \in DOMAIN refs : j \in Int
    BY <1>1, SettingsOK DEF TypeOK
  <2> QED BY <1>1, <1>2, <2>1, EntryOfOK
<1>4. /\ refs' = IF i = 0 THEN refs ELSE [refs EXCEPT ![i].updated = TRUE]
      /\ inbox' = Tail(inbox) /\ cursor' = 1
      /\ decodeOrder' = IF Head(inbox).pic = decodeOrder THEN decodeOrder + 1 ELSE decodeOrder
      /\ UNCHANGED <<video, sent, credits, startState, eos, pictureState>>
  BY <1>3 DEF ReceiveFeedback
<1>5. Head(inbox).pic # Unlisted
  BY <1>1, <1>2, SettingsOK DEF Unlisted
<1>6. refs \in [1..ListLength -> Entries]
  BY <1>1 DEF TypeOK
<1>7. /\ refs' \in [1..ListLength -> Entries]
      /\ \A j \in DOMAIN refs :
            /\ refs'[j].pic = refs[j].pic /\ refs'[j].lastRef = refs[j].lastRef
            /\ refs[j].pic = Unlisted => refs'[j] = refs[j]
            /\ refs'[j].available => refs[j].available \/ refs[j].pic = Head(inbox).pic
  BY <1>3, <1>4, <1>5, <1>6 DEF Entries
<1> QED BY <1>1, <1>4, <1>7, ReceiveResultOK

\* Entries of started pictures that no picture still to be started refers to are
\* dropped, at the end of a scan or of the sequence.
LEMMA DropOK ==
    ASSUME IInv, NEW S \in SUBSET DOMAIN refs,
           \A i \in S : refs[i].pic \in Pictures /\ Started(refs[i].pic),
           \A i \in S : \A p \in Pictures : refs[i].pic \in Needs(p) => Started(p),
           DropEntries(S), live' = DropCount(live, S),
           UNCHANGED <<video, sent, inbox, startState, decodeOrder, stage, recodes>>, eos' \in BOOLEAN,
           cursor' = cursor \/ (cursor # 0 /\ cursor' = 0 /\ Candidates = {})
    PROVE  IInv'
<1>1. /\ VideoInv /\ TypeOK /\ SentInv /\ MailInv /\ InputInv /\ EntryInv /\ CreditInv
      /\ KeptInv /\ LiveInv /\ OrderInv /\ FirstInv /\ ScanInv
  BY DEF IInv
<1>2. /\ VideoInv' /\ scs' = scs /\ gop' = gop /\ released' = released
      /\ Pictures' = Pictures /\ Never' = Never /\ Parents' = Parents /\ ListLength' = ListLength
      /\ RefBuffers' = RefBuffers /\ RefFrames' = RefFrames /\ DecOrder' = DecOrder /\ PmDecOrder' = PmDecOrder
      /\ Messages' = Messages /\ Entries' = Entries
      /\ \A q : Needs(q)' = Needs(q) /\ IsRef(q)' = IsRef(q) /\ Recodes(q)' = Recodes(q)
  BY <1>1, SameVideo
<1>3. /\ sent' = sent /\ consecutive' = consecutive /\ heap' = heap /\ pmgrDecOrder' = pmgrDecOrder /\ inbox' = inbox
      /\ decodeOrder' = decodeOrder /\ stage' = stage /\ recodes' = recodes /\ inputs' = inputs
      /\ credits' = credits + Cardinality(S)
      /\ refs' = [i \in DOMAIN refs |-> IF i \in S THEN NoRef ELSE refs[i]]
      /\ live' = [q \in Pictures |-> live[q] - Cardinality({i \in S : refs[i].pic = q})]
  BY DEF startState, DropEntries, DropCount
<1>4. /\ Never \in Nat /\ Pictures = 0..(Never - 1) /\ 0 \in Pictures /\ Parents \in Nat /\ ListLength \in Nat
      /\ DOMAIN inputs = 1..Parents /\ DOMAIN refs = 1..ListLength /\ DOMAIN refs' = DOMAIN refs
  <2>1. Never \in Nat \ {0} /\ Pictures = 0..(Never - 1) /\ Parents \in Nat /\ ListLength \in Nat
    BY <1>1, SettingsOK
  <2>2. DOMAIN inputs = 1..Parents /\ DOMAIN refs = 1..ListLength /\ DOMAIN refs' = DOMAIN refs
    BY <1>1, <1>3 DEF TypeOK
  <2> QED BY <2>1, <2>2
<1> DEFINE dropped == {refs[i].pic : i \in S}
<1>5. /\ \A q \in Pictures : q # Unlisted
      /\ \A i \in DOMAIN refs : refs'[i] = IF i \in S THEN NoRef ELSE refs[i]
      /\ NoRef.pic = Unlisted /\ ~NoRef.available
  BY <1>3, <1>4 DEF Unlisted, NoRef
<1>6. \A i, j \in DOMAIN refs : refs[i].pic = refs[j].pic /\ refs[i].pic # Unlisted => i = j
  BY <1>1 DEF EntryInv
<1>7. \A q \in dropped : q \in Pictures /\ Listed(q) /\ Started(q) /\ IsRef(q) /\ ~Mailed(q)
  <2> SUFFICES ASSUME NEW i \in S
               PROVE  LET q == refs[i].pic IN q \in Pictures /\ Listed(q) /\ Started(q) /\ IsRef(q) /\ ~Mailed(q)
    OBVIOUS
  <2>1. PICK q \in Pictures : q = refs[i].pic /\ Started(q)
    OBVIOUS
  <2>2. Listed(q) /\ IsRef(q)
    BY <1>1, <1>5, <2>1 DEF Listed, EntryInv
  <2>3. stage[q] # "waiting"
    BY <2>1 DEF Started, Underway
  <2>4. ~Mailed(q)
    <3>1. Msg("INPUT", q).type = "INPUT" /\ Msg("INPUT", q).pic = q
      BY DEF Msg
    <3> QED BY <1>1, <2>3, <3>1 DEF MailInv, Says, Mailed
  <2> QED BY <2>1, <2>2, <2>4
<1>8. \A q \in Pictures : Listed(q)' <=> Listed(q) /\ q \notin dropped
  <2> SUFFICES ASSUME NEW q \in Pictures PROVE Listed(q)' <=> Listed(q) /\ q \notin dropped
    OBVIOUS
  <2>1. ASSUME Listed(q)' PROVE Listed(q) /\ q \notin dropped
    <3>1. PICK i \in DOMAIN refs : refs'[i].pic = q
      BY <1>4, <2>1 DEF Listed
    <3>2. i \notin S /\ refs[i].pic = q
      BY <1>5, <3>1
    <3>3. ASSUME NEW j \in S, q = refs[j].pic PROVE FALSE
      BY <1>5, <1>6, <3>2, <3>3
    <3> QED BY <3>2, <3>3 DEF Listed
  <2>2. ASSUME Listed(q), q \notin dropped PROVE Listed(q)'
    <3>1. PICK i \in DOMAIN refs : refs[i].pic = q
      BY <2>2 DEF Listed
    <3>2. i \notin S
      BY <2>2, <3>1
    <3> QED BY <1>4, <1>5, <3>1, <3>2 DEF Listed
  <2> QED BY <2>1, <2>2
<1>9. /\ \A q : (InList(q)' <=> InList(q)) /\ (Mailed(q)' <=> Mailed(q)) /\ (Started(q)' <=> Started(q))
      /\ \A q : Holding(q)' <=> Holding(q)
  BY <1>2, <1>3 DEF InList, Mailed, Started, Holding
<1>10. /\ IsFiniteSet(S) /\ IsFiniteSet(dropped) /\ Cardinality(dropped) = Cardinality(S) /\ Cardinality(S) \in Nat
  <2> DEFINE pic == [i \in DOMAIN refs |-> refs[i].pic]
  <2>1. IsFiniteSet(S) /\ Cardinality(S) \in Nat
    <3>1. IsFiniteSet(DOMAIN refs)
      BY <1>4, FS_Interval
    <3>2. IsFiniteSet(S)
      BY <3>1, FS_Subset
    <3> QED BY <3>2, FS_CardinalityType
  <2>2. \A i, j \in S : pic[i] = pic[j] => i = j
    BY <1>5, <1>6
  <2>3. dropped = {pic[i] : i \in S}
    OBVIOUS
  <2> HIDE DEF pic, dropped
  <2> QED BY <2>1, <2>2, <2>3, AsManyImages
<1>11. \A r \in Pictures : Cardinality({i \in S : refs[i].pic = r}) = IF r \in dropped THEN 1 ELSE 0
  <2> SUFFICES ASSUME NEW r \in Pictures
               PROVE  Cardinality({i \in S : refs[i].pic = r}) = IF r \in dropped THEN 1 ELSE 0
    OBVIOUS
  <2>1. ASSUME r \in dropped PROVE Cardinality({i \in S : refs[i].pic = r}) = 1
    <3>1. PICK i \in S : refs[i].pic = r
      BY <2>1
    <3>2. {j \in S : refs[j].pic = r} = {i}
      BY <1>5, <1>6, <3>1
    <3> QED BY <3>2, FS_Singleton
  <2>2. ASSUME r \notin dropped PROVE Cardinality({i \in S : refs[i].pic = r}) = 0
    <3>1. {j \in S : refs[j].pic = r} = {}
      BY <2>2
    <3> QED BY <3>1, FS_EmptySet
  <2> QED BY <2>1, <2>2
<1>12. \A r \in Pictures : \A p \in Pictures : r \in dropped /\ r \in Needs(p) => Started(p)
  OBVIOUS
<1> HIDE DEF dropped
<1>13. LiveInv' /\ live' \in [Pictures -> Nat]
  <2>1. ASSUME NEW r \in Pictures
        PROVE  live'[r] = Nominal(r)' + Cardinality(HoldersOf(r))' /\ live'[r] \in Nat
    <3>1. HoldersOf(r)' = HoldersOf(r) /\ Cardinality(HoldersOf(r)) \in Nat
      BY <1>1, <1>2, <1>9, CountsOK DEF HoldersOf
    <3>2. Nominal(r)' = Nominal(r) - (IF r \in dropped THEN 1 ELSE 0)
      BY <1>7, <1>8, <1>9 DEF Nominal
    <3>3. live[r] = Nominal(r) + Cardinality(HoldersOf(r)) /\ Nominal(r)' \in 0..1 /\ Nominal(r) \in 0..1
      BY <1>1 DEF LiveInv, Nominal
    <3>4. live'[r] = live[r] - (IF r \in dropped THEN 1 ELSE 0)
      BY <1>3, <1>11
    <3> QED BY <3>1, <3>2, <3>3, <3>4
  <2>2. LiveInv'
    BY <1>2, <2>1 DEF LiveInv
  <2>3. live' = [r \in Pictures |-> live'[r]]
    BY <1>3
  <2> QED BY <2>1, <2>2, <2>3
<1>14. CreditInv' /\ credits' \in 0..ListLength
  <2>1. Entered' = Entered \ dropped
    BY <1>2, <1>7, <1>8, <1>9 DEF Entered
  <2>2. IsFiniteSet(Entered) /\ Cardinality(Entered) \in Nat
    BY <1>1, CountsOK
  <2>3. Entered \cap dropped = dropped
    BY <1>7 DEF Entered
  <2>4. Cardinality(Entered \ dropped) = Cardinality(Entered) - Cardinality(dropped)
    BY <2>2, <2>3, FS_Difference
  <2>5. IsFiniteSet(Entered \ dropped) /\ Cardinality(Entered \ dropped) \in Nat
    BY <2>2, FS_Difference, FS_CardinalityType
  <2>6. credits \in Nat /\ credits + Cardinality(Entered) = ListLength
    BY <1>1 DEF CreditInv, TypeOK
  <2>7. credits' + Cardinality(Entered') = ListLength' /\ credits' \in 0..ListLength
    BY <1>2, <1>3, <1>4, <1>10, <2>1, <2>2, <2>4, <2>5, <2>6
  <2> QED BY <2>7 DEF CreditInv
<1>15. TypeOK'
  <2>1. NoRef \in Entries
    BY DEF NoRef, Entries
  <2>2. refs' \in [1..ListLength -> Entries]
    BY <1>1, <1>3, <1>4, <2>1 DEF TypeOK
  <2>3. cursor' \in 0..(Parents + 1)
    BY <1>1, <1>4 DEF TypeOK
  <2> QED BY <1>1, <1>2, <1>3, <1>13, <1>14, <2>2, <2>3 DEF TypeOK
<1>16. SentInv'
  BY <1>1, <1>2, <1>3 DEF SentInv
<1>17. MailInv'
  <2>1. \A k \in DOMAIN inbox : inbox[k].pic \in Pictures
    BY <1>1, FifoMember DEF TypeOK
  <2>2. ASSUME NEW x, Says(x), x.pic \in Pictures PROVE Says(x)'
    <3>1. \A q \in Pictures : Listed(q)' => Listed(q)
      BY <1>8
    <3>2. /\ ~Listed(x.pic) => ~Listed(x.pic)'
          /\ (InList(x.pic)' <=> InList(x.pic)) /\ (Started(x.pic)' <=> Started(x.pic))
      BY <1>9, <2>2, <3>1
    <3> QED BY <1>3, <2>2, <3>2 DEF Says
  <2> QED BY <1>1, <1>3, <2>1, <2>2 DEF MailInv
<1>18. InputInv'
  <2>1. OpenPictures' = OpenPictures
    BY <1>2, <1>3 DEF OpenPictures
  <2>2. ASSUME NEW i \in DOMAIN inputs, NEW q, q = inputs[i], q # Unlisted
        PROVE  stage[q] = "waiting" /\ (IsRef(q) => Listed(q)')
    <3>1. q \in Pictures /\ stage[q] = "waiting" /\ (IsRef(q) => Listed(q))
      BY <1>1, <2>2 DEF InputInv, TypeOK
    <3>2. ~Started(q)
      BY <3>1 DEF Started, Underway
    <3> QED BY <1>7, <1>8, <3>1, <3>2
  <2> QED BY <1>1, <1>2, <1>3, <1>9, <2>1, <2>2 DEF InputInv
<1>19. EntryInv'
  <2>1. \A i, j \in DOMAIN refs : refs'[i].pic = refs'[j].pic /\ refs'[i].pic # Unlisted => i = j
    BY <1>5, <1>6
  <2>2. ASSUME NEW i \in DOMAIN refs
        PROVE  /\ refs'[i].pic = Unlisted => refs'[i] = NoRef
               /\ refs'[i].pic # Unlisted =>
                     /\ IsRef(refs'[i].pic) /\ stage[refs'[i].pic] # "unsent"
                     /\ refs'[i].available => Started(refs[i].pic)
                     /\ refs'[i].lastRef # Never =>
                          /\ refs'[i].lastRef \in Pictures /\ Started(refs[i].lastRef)
                          /\ refs'[i].pic \in released[refs'[i].lastRef]
               /\ refs'[i].pic # Unlisted => refs'[i] = refs[i]
    BY <1>1, <1>5 DEF EntryInv
  <2> QED BY <1>2, <1>3, <1>4, <1>9, <2>1, <2>2 DEF EntryInv
<1>20. KeptInv'
  BY <1>1, <1>2, <1>8, <1>9, <1>12, NeedsOK DEF KeptInv
<1>21. OrderInv'
  BY <1>1, <1>2, <1>3, <1>9 DEF OrderInv, ConsecutiveIsExact
<1>22. FirstInv'
  <2>1. ASSUME ~Started(0), cursor # 0, cursor' = 0, Candidates = {} PROVE \A i \in DOMAIN inputs : inputs[i] = Unlisted
    <3> SUFFICES ASSUME NEW i \in DOMAIN inputs, inputs[i] # Unlisted PROVE FALSE
      OBVIOUS
    <3>1. inputs[i] = 0 /\ cursor = 1
      BY <1>1, <2>1 DEF FirstInv
    <3>2. Startable(0)
      BY <1>1, <2>1, FirstIsStartable
    <3>3. i \in Candidates
      BY <1>4, <3>1, <3>2 DEF Candidates, Unlisted
    <3> QED BY <2>1, <3>3
  <2> QED BY <1>1, <1>2, <1>3, <1>9, <2>1 DEF FirstInv
<1>23. ScanInv'
  <2>1. \A r \in Pictures : Usable(EntryOf(r))' => Usable(EntryOf(r))
    BY <1>1, <1>2, <1>5, <1>15, UsableStays
  <2>2. \A q \in Pictures : Startable(q)' => Startable(q)
    BY <1>1, <1>2, <1>3, <2>1, StartableStays
  <2>3. ASSUME NEW i \in DOMAIN inputs, inputs[i] # Unlisted, cursor' = 0 \/ i < cursor' PROVE ~Startable(inputs[i])
    <3>1. CASE cursor' = cursor
      BY <1>1, <2>3, <3>1 DEF ScanInv
    <3>2. CASE cursor # 0 /\ cursor' = 0 /\ Candidates = {}
      <4>1. CASE i < cursor
        BY <1>1, <2>3, <4>1 DEF ScanInv
      <4>2. CASE i >= cursor
        BY <2>3, <3>2, <4>2 DEF Candidates
      <4> QED BY <1>1, <1>4, <4>1, <4>2 DEF TypeOK
    <3> QED BY <3>1, <3>2
  <2>4. \A i \in DOMAIN inputs : inputs[i] # Unlisted => inputs[i] \in Pictures
    BY <1>1 DEF TypeOK
  <2> QED BY <1>3, <2>2, <2>3, <2>4 DEF ScanInv
<1> QED BY <1>2, <1>13, <1>14, <1>15, <1>16, <1>17, <1>18, <1>19, <1>20, <1>21, <1>22, <1>23 DEF IInv

\* The scan ends and drops what it may: the pictures that refer to what a picture
\* up to consecutive_dec_order overwrites were all started.
LEMMA EndScanOK ==
    ASSUME IInv, EndScan
    PROVE  IInv'
<1>1. VideoInv /\ TypeOK /\ EntryInv /\ OrderInv
  BY DEF IInv
<1>2. PICK S \in SUBSET DOMAIN refs : S = {i \in DOMAIN refs : Releasable(refs[i])}
  OBVIOUS
<1>3. /\ DropEntries(S) /\ live' = DropCount(live, S)
      /\ cursor # 0 /\ cursor' = 0 /\ Candidates = {} /\ eos' = eos
      /\ UNCHANGED <<video, sent, inbox, startState, decodeOrder, stage, recodes>>
  BY <1>2 DEF EndScan
<1>4. Never \in Nat /\ Pictures = 0..(Never - 1)
  BY <1>1, SettingsOK
<1>5. ASSUME NEW i \in S
      PROVE  /\ refs[i].pic \in Pictures /\ Started(refs[i].pic)
             /\ \A p \in Pictures : refs[i].pic \in Needs(p) => Started(p)
  <2>1. /\ i \in DOMAIN refs /\ refs[i] # NoRef /\ refs[i].available /\ refs[i].lastRef <= consecutive
        /\ refs[i] \in Entries
    BY <1>1, <1>2 DEF Releasable, PastLastRef, TypeOK
  <2>2. /\ refs[i].pic \in Pictures /\ Started(refs[i].pic)
    BY <1>1, <2>1 DEF EntryInv, Entries
  <2>3. consecutive \in Pictures /\ refs[i].pic # Unlisted
    BY <1>1, <1>4, <2>2 DEF TypeOK, Unlisted
  <2>4. refs[i].lastRef # Never
    BY <1>4, <2>1, <2>3
  <2>5. refs[i].lastRef \in Pictures /\ refs[i].pic \in released[refs[i].lastRef]
    BY <1>1, <2>1, <2>3, <2>4 DEF EntryInv
  <2>6. ASSUME NEW p \in Pictures, refs[i].pic \in Needs(p) PROVE Started(p)
    <3>1. p <= refs[i].lastRef
      BY <1>1, <2>5, <2>6, ReleasedOK
    <3>2. refs[i].pic < p
      BY <1>1, <2>6, NeedsOK
    <3>3. p \in 1..consecutive
      BY <1>4, <2>1, <2>2, <2>3, <2>5, <3>1, <3>2
    <3> QED BY <1>1, <3>3 DEF OrderInv, ConsecutiveIsExact
  <2> QED BY <2>2, <2>6
<1>6. eos' \in BOOLEAN
  BY <1>1, <1>3 DEF TypeOK
<1> QED BY <1>3, <1>5, <1>6, DropOK

\* The last picture is packetized, and what is left in the list is dropped.
LEMMA ReleaseReferencesEosOK ==
    ASSUME IInv, ReleaseReferencesEos
    PROVE  IInv'
<1>1. VideoInv /\ TypeOK /\ EntryInv
  BY DEF IInv
<1>2. PICK S \in SUBSET DOMAIN refs : S = {i \in DOMAIN refs : refs[i].available}
  OBVIOUS
<1>3. /\ DropEntries(S) /\ live' = DropCount(live, S)
      /\ cursor' = cursor /\ eos' = TRUE
      /\ UNCHANGED <<video, sent, inbox, startState, decodeOrder, stage, recodes>>
  BY <1>2 DEF ReleaseReferencesEos
<1>4. \A p \in Pictures : Started(p)
  BY DEF ReleaseReferencesEos, Started
<1>5. ASSUME NEW i \in S PROVE refs[i].pic \in Pictures
  <2>1. i \in DOMAIN refs /\ refs[i].available /\ refs[i] \in Entries /\ ~NoRef.available
    BY <1>1, <1>2 DEF TypeOK, NoRef
  <2>2. refs[i].pic # Unlisted
    BY <1>1, <2>1 DEF EntryInv
  <2> QED BY <2>1, <2>2 DEF Entries
<1>6. \A i \in S : Started(refs[i].pic)
  BY <1>4, <1>5
<1> QED BY <1>3, <1>4, <1>5, <1>6, DropOK

\* A picture releases earlier ones.
LEMMA ReleasedType ==
    ASSUME VideoInv, NEW q \in Pictures
    PROVE  released[q] \subseteq Pictures
<1>1. released = ReleasedPics(gop)
  BY DEF VideoInv
<1>2. Never \in Nat /\ Pictures = 0..(Never - 1)
  BY SettingsOK
<1>3. q > 0 => q - 1 \in Pictures
  BY <1>2
<1>4. \A r \in released[q] : q > 0 /\ r \in DpbAfter(gop)[q - 1]
  BY <1>1, <1>2 DEF ReleasedPics, Pictures
<1>5. \A r \in released[q] : r \in 0..(q - 1)
  BY <1>3, <1>4 DEF DpbAfter, Pictures
<1> QED BY <1>2, <1>5

\* The order of the pictures started: consecutive_dec_order and the heap.
LEMMA StartOrderOK ==
    ASSUME VideoInv, TypeOK, OrderInv, FirstInv, UNCHANGED video, NEW p \in Pictures, ~Started(p), Startable(p),
           \A q \in Pictures : Started(q)' <=> Started(q) \/ q = p,
           pmgrDecOrder' = p, decodeOrder' = decodeOrder,
           consecutive' = IF p = consecutive + 1 THEN LastConsecutive(p, heap) ELSE consecutive,
           heap' = IF p = consecutive + 1 THEN {q \in heap : q > consecutive'}
                   ELSE IF p > consecutive THEN PushHeap(p) ELSE heap
    PROVE  OrderInv' /\ consecutive' \in Pictures /\ heap' \subseteq Pictures
<1>1. /\ Never \in Nat \ {0} /\ Pictures = 0..(Never - 1) /\ Parents \in Nat /\ RefBuffers \in Nat /\ RefFrames \in Nat
      /\ DecOrder \/ (RefBuffers > RefFrames /\ RefBuffers - RefFrames <= Parents + 1)
  BY SettingsOK
<1>2. /\ Pictures' = Pictures /\ RefBuffers' = RefBuffers /\ RefFrames' = RefFrames
      /\ DecOrder' = DecOrder /\ PmDecOrder' = PmDecOrder
  BY SameVideo
<1>3. consecutive \in Pictures /\ consecutive \in Nat /\ heap \subseteq Pictures /\ p \in Nat
  BY <1>1 DEF TypeOK
<1>4. /\ \A q \in Pictures : Started(q) /\ q > 0 <=> q \in 1..consecutive \cup heap
      /\ consecutive + 1 \notin heap /\ \A q \in heap : q > consecutive
      /\ \A q \in heap : ~DecOrder => q <= consecutive + RefBuffers - RefFrames
      /\ DecOrder \/ PmDecOrder => heap = {}
      /\ PmDecOrder => pmgrDecOrder = consecutive
      /\ DecOrder => decodeOrder <= consecutive + 1
  BY DEF OrderInv, ConsecutiveIsExact
<1>5. /\ DecOrder => p = decodeOrder
      /\ PmDecOrder => p = 0 \/ p = pmgrDecOrder + 1
      /\ ~DecOrder => p <= consecutive + RefBuffers - RefFrames
  BY DEF Startable, WithinReach
<1>6. p # 0 => p \notin 1..consecutive \cup heap
  BY <1>1, <1>4
<1>7. heap \in SUBSET ((consecutive + 2)..Never)
  BY <1>1, <1>3, <1>4
<1>8. CASE p = consecutive + 1
  <2>1. heap \in SUBSET ((p + 1)..Never)
    BY <1>3, <1>7, <1>8
  <2> DEFINE m == LastConsecutive(p, heap)
  <2>2. m \in Nat /\ m >= p /\ m \in {p} \cup heap /\ (p + 1)..m \subseteq heap /\ m + 1 \notin heap
    BY <1>1, <1>3, <2>1, LastConsecutiveOK
  <2> HIDE DEF m
  <2>3. consecutive' = m /\ heap' = {q \in heap : q > m}
    BY <1>8 DEF m
  <2>4. \A q \in Pictures : Started(q)' /\ q > 0 <=> q \in 1..m \cup heap'
    <3> SUFFICES ASSUME NEW q \in Pictures PROVE Started(q)' /\ q > 0 <=> q \in 1..m \cup heap'
      OBVIOUS
    <3>1. q \in Nat
      BY <1>1
    <3>2. Started(q)' /\ q > 0 <=> q \in 1..consecutive \cup heap \/ q = p
      BY <1>3, <1>4, <1>8, <3>1
    <3>3. q \in 1..consecutive \cup heap \/ q = p <=> q \in 1..m \cup heap'
      BY <1>3, <1>4, <1>8, <2>2, <2>3, <3>1
    <3> QED BY <3>2, <3>3
  <2>5. m \in Pictures /\ heap' \subseteq Pictures
    BY <1>3, <2>2, <2>3
  <2>6. m + 1 \notin heap' /\ \A q \in heap' : q > m
    BY <2>2, <2>3
  <2>7. \A q \in heap' : ~DecOrder => q <= m + RefBuffers - RefFrames
    BY <1>1, <1>3, <1>4, <1>8, <2>2, <2>3, <2>5
  <2>8. DecOrder \/ PmDecOrder => heap' = {} /\ m = p
    BY <1>4, <2>2, <2>3
  <2>9. DecOrder => decodeOrder <= m + 1
    BY <1>3, <1>5, <1>8, <2>2
  <2>10. ConsecutiveIsExact'
    BY <1>2, <2>3, <2>4, <2>6 DEF ConsecutiveIsExact
  <2> QED BY <1>2, <2>3, <2>5, <2>7, <2>8, <2>9, <2>10 DEF OrderInv
<1>9. CASE p > consecutive + 1
  <2>1. ~DecOrder /\ ~PmDecOrder
    BY <1>3, <1>4, <1>5, <1>9
  <2> DEFINE reach == (consecutive + 2)..(consecutive + RefBuffers - RefFrames)
  <2>2. heap \cup {p} \subseteq reach /\ p \notin heap
    BY <1>1, <1>3, <1>4, <1>5, <1>6, <1>7, <1>9, <2>1
  <2>3. IsFiniteSet(reach) /\ Cardinality(reach) = IF RefBuffers > RefFrames + 1 THEN RefBuffers - RefFrames - 1 ELSE 0
    <3> DEFINE a == consecutive + 2
               b == consecutive + RefBuffers - RefFrames
    <3>1. a \in Int /\ b \in Int
      BY <1>1, <1>3
    <3>2. a > b <=> ~(RefBuffers > RefFrames + 1)
      BY <1>1, <1>3
    <3>3. b - a + 1 = RefBuffers - RefFrames - 1
      BY <1>1, <1>3
    <3> HIDE DEF a, b
    <3>4. IsFiniteSet(a..b) /\ Cardinality(a..b) = IF a > b THEN 0 ELSE b - a + 1
      BY <3>1, FS_Interval
    <3> QED BY <3>2, <3>3, <3>4 DEF a, b
  <2> HIDE DEF reach
  <2>4. IsFiniteSet(heap) /\ Cardinality(heap \cup {p}) <= Cardinality(reach)
    BY <2>2, <2>3, FS_Subset
  <2>5. Cardinality(heap) \in Nat /\ Cardinality(heap \cup {p}) = Cardinality(heap) + 1
    BY <2>2, <2>4, FS_AddElement, FS_CardinalityType
  <2>6. Cardinality(heap) # Parents
    BY <1>1, <2>1, <2>3, <2>4, <2>5
  <2>7. consecutive' = consecutive /\ heap' = heap \cup {p}
    BY <1>3, <1>9, <2>6 DEF PushHeap
  <2>8. \A q \in Pictures : Started(q)' /\ q > 0 <=> q \in 1..consecutive \cup heap'
    BY <1>3, <1>4, <1>9, <2>7
  <2>9. consecutive + 1 \notin heap' /\ \A q \in heap' : q > consecutive
    BY <1>3, <1>4, <1>9, <2>7
  <2>10. \A q \in heap' : q <= consecutive + RefBuffers - RefFrames
    BY <1>4, <1>5, <2>1, <2>7
  <2>11. ConsecutiveIsExact'
    BY <1>2, <2>7, <2>8, <2>9 DEF ConsecutiveIsExact
  <2> QED BY <1>2, <1>3, <2>1, <2>7, <2>10, <2>11 DEF OrderInv
<1>10. CASE p <= consecutive
  <2>1. p = 0
    BY <1>3, <1>6, <1>10
  <2>2. consecutive' = consecutive /\ heap' = heap
    BY <1>3, <1>10
  <2>3. ConsecutiveIsExact'
    <3>1. \A q \in Pictures : Started(q)' /\ q > 0 <=> q \in 1..consecutive \cup heap
      <4>1. 0 \notin 1..consecutive \cup heap
        BY <1>3, <1>4
      <4> QED BY <1>1, <1>4, <2>1, <4>1
    <3> QED BY <1>2, <1>4, <2>2, <3>1 DEF ConsecutiveIsExact
  <2>4. consecutive = 0
    BY <2>1 DEF FirstInv
  <2> QED BY <1>2, <1>3, <1>4, <2>1, <2>2, <2>3, <2>4 DEF OrderInv
<1> QED BY <1>3, <1>8, <1>9, <1>10

\* A picture is started.
LEMMA StartPictureOK ==
    ASSUME IInv, StartPicture
    PROVE  IInv'
<1>1. /\ VideoInv /\ TypeOK /\ SentInv /\ MailInv /\ InputInv /\ EntryInv /\ CreditInv
      /\ KeptInv /\ LiveInv /\ OrderInv /\ FirstInv /\ ScanInv
  BY DEF IInv
<1>2. /\ VideoInv' /\ scs' = scs /\ gop' = gop /\ released' = released /\ video' = video
      /\ Pictures' = Pictures /\ Never' = Never /\ Parents' = Parents /\ ListLength' = ListLength
      /\ RefBuffers' = RefBuffers /\ RefFrames' = RefFrames /\ DecOrder' = DecOrder /\ PmDecOrder' = PmDecOrder
      /\ Messages' = Messages /\ Entries' = Entries
      /\ \A q : Needs(q)' = Needs(q) /\ IsRef(q)' = IsRef(q) /\ Recodes(q)' = Recodes(q)
  BY <1>1, SameVideo DEF StartPicture
<1>3. /\ Never \in Nat \ {0} /\ Pictures = 0..(Never - 1) /\ 0 \in Pictures /\ Parents \in Nat /\ ListLength \in Nat
      /\ DOMAIN inputs = 1..Parents /\ DOMAIN refs = 1..ListLength
  <2>1. Never \in Nat \ {0} /\ Pictures = 0..(Never - 1) /\ Parents \in Nat /\ ListLength \in Nat
    BY <1>1, SettingsOK
  <2>2. DOMAIN inputs = 1..Parents /\ DOMAIN refs = 1..ListLength
    BY <1>1 DEF TypeOK
  <2> QED BY <2>1, <2>2
<1>4. PICK i \in DOMAIN inputs : i = Least(Candidates)
  BY <1>1, CandidateOK DEF StartPicture, Candidates
<1>5. PICK p \in Pictures : p = inputs[i]
  <2>1. i \in Candidates
    BY <1>1, <1>4, CandidateOK DEF StartPicture
  <2> QED BY <1>1, <2>1 DEF Candidates, TypeOK
<1>6. /\ i >= cursor /\ Startable(p) /\ cursor # 0
      /\ \A j \in DOMAIN inputs : j >= cursor /\ inputs[j] # Unlisted /\ j < i => ~Startable(inputs[j])
  <2>1. i \in Candidates /\ \A j \in Candidates : i <= j
    BY <1>1, <1>4, CandidateOK DEF StartPicture
  <2>2. cursor # 0
    BY DEF StartPicture
  <2> QED BY <1>3, <1>5, <2>1, <2>2 DEF Candidates
<1>7. /\ live' = [Hold(p, 1) EXCEPT ![p] = IF IsRef(p) THEN 1 ELSE 0]
      /\ pmgrDecOrder' = p
      /\ consecutive' = IF p = consecutive + 1 THEN LastConsecutive(p, heap) ELSE consecutive
      /\ heap' = IF p = consecutive + 1 THEN {q \in heap : q > consecutive'}
                 ELSE IF p > consecutive THEN PushHeap(p) ELSE heap
      /\ inputs' = [inputs EXCEPT ![i] = Unlisted]
      /\ refs' = [j \in DOMAIN refs |->
                    IF refs[j].pic \in released[p] THEN [refs[j] EXCEPT !.lastRef = p] ELSE refs[j]]
      /\ cursor' = IF p = consecutive + 1 THEN 1 ELSE i + 1
      /\ stage' = [stage EXCEPT ![p] = "coding"]
      /\ sent' = sent /\ credits' = credits /\ inbox' = inbox /\ decodeOrder' = decodeOrder /\ eos' = eos
      /\ recodes' = recodes
  BY <1>4, <1>5 DEF StartPicture, Restarts
<1>8. p # Unlisted /\ Unlisted \notin released[p] /\ \A q \in Pictures : q # Unlisted
  BY <1>1, <1>3, ReleasedType DEF Unlisted
<1>9. stage[p] = "waiting" /\ (IsRef(p) => Listed(p)) /\ InList(p) /\ ~Started(p)
  <2>1. stage[p] = "waiting" /\ (IsRef(p) => Listed(p))
    BY <1>1, <1>5, <1>8 DEF InputInv
  <2> QED BY <1>5, <2>1 DEF InList, Started, Underway
<1>10. stage'[p] = "coding" /\ \A q \in Pictures : q # p => stage'[q] = stage[q]
  BY <1>1, <1>7 DEF TypeOK
<1>11. \A q \in Pictures : (Started(q)' <=> Started(q) \/ q = p) /\ (Holding(q)' <=> Holding(q) \/ q = p)
  BY <1>2, <1>10 DEF Started, Holding, Underway
<1>12. /\ DOMAIN refs' = DOMAIN refs /\ refs' \in [1..ListLength -> Entries]
       /\ \A j \in DOMAIN refs :
             /\ refs'[j].pic = refs[j].pic /\ refs'[j].available = refs[j].available /\ refs'[j].updated = refs[j].updated
             /\ refs[j].pic = Unlisted => refs'[j] = refs[j]
             /\ refs'[j].lastRef = refs[j].lastRef \/ (refs'[j].lastRef = p /\ refs[j].pic \in released[p])
  <2>1. refs \in [1..ListLength -> Entries]
    BY <1>1 DEF TypeOK
  <2> QED BY <1>3, <1>7, <1>8, <2>1 DEF Entries
<1>13. \A j \in DOMAIN inputs : inputs'[j] = IF j = i THEN Unlisted ELSE inputs[j]
  BY <1>1, <1>7 DEF TypeOK
<1>14. \A q \in Pictures : (Listed(q)' <=> Listed(q)) /\ (Mailed(q)' <=> Mailed(q)) /\ (InList(q)' <=> InList(q) /\ q # p)
  <2>1. DOMAIN inputs' = DOMAIN inputs
    BY <1>7
  <2>2. ASSUME NEW q \in Pictures, InList(q)' PROVE InList(q) /\ q # p
    <3>1. PICK j \in DOMAIN inputs : inputs'[j] = q
      BY <2>1, <2>2 DEF InList
    <3>2. j # i /\ inputs[j] = q
      BY <1>8, <1>13, <3>1
    <3>3. q # p
      BY <1>1, <1>5, <1>8, <3>2 DEF InputInv
    <3> QED BY <3>2, <3>3 DEF InList
  <2>3. ASSUME NEW q \in Pictures, InList(q), q # p PROVE InList(q)'
    <3>1. PICK j \in DOMAIN inputs : inputs[j] = q
      BY <2>3 DEF InList
    <3>2. inputs'[j] = q
      BY <1>5, <1>13, <2>3, <3>1
    <3> QED BY <2>1, <3>2 DEF InList
  <2>4. \A q \in Pictures : (Listed(q)' <=> Listed(q)) /\ (Mailed(q)' <=> Mailed(q))
    BY <1>7, <1>12 DEF Listed, Mailed
  <2> QED BY <2>2, <2>3, <2>4
<1>15. \A r \in Needs(p) : r \in Pictures /\ r # p /\ Started(r) /\ Listed(r)
  <2> SUFFICES ASSUME NEW r \in Needs(p) PROVE r \in Pictures /\ r # p /\ Started(r) /\ Listed(r)
    OBVIOUS
  <2>1. r \in Pictures /\ r < p
    BY <1>1, NeedsOK
  <2>2. Usable(EntryOf(r))
    BY <1>6 DEF Startable
  <2>3. EntryOf(r) # 0 /\ refs[EntryOf(r)].available
    BY <2>2 DEF Usable
  <2>4. EntryOf(r) \in DOMAIN refs /\ refs[EntryOf(r)].pic = r /\ Listed(r)
    BY <1>1, <2>1, <2>3, EntryOfOK
  <2>5. Started(r)
    BY <1>1, <1>8, <2>1, <2>3, <2>4 DEF EntryInv
  <2> QED BY <1>3, <2>1, <2>4, <2>5
<1>16. ~Mailed(p)
  <2>1. Msg("INPUT", p).type = "INPUT" /\ Msg("INPUT", p).pic = p
    BY DEF Msg
  <2> QED BY <1>1, <1>9, <2>1 DEF Mailed, MailInv, Says
<1>17. MailInv'
  <2>1. \A k \in DOMAIN inbox : inbox[k].pic \in Pictures
    BY <1>1, FifoMember DEF TypeOK
  <2>2. ASSUME NEW x, Says(x), x.pic \in Pictures PROVE Says(x)'
    <3>1. x.type = "INPUT" => stage[x.pic] = "waiting" /\ ~InList(x.pic) /\ ~Listed(x.pic) /\ x.pic # p
      BY <1>9, <2>2 DEF Says
    <3>2. x.type = "INPUT" => stage'[x.pic] = "waiting" /\ ~InList(x.pic)' /\ ~Listed(x.pic)'
      BY <1>10, <1>14, <2>2, <3>1
    <3>3. x.type \in {"REFERENCE", "FEEDBACK"} => Started(x.pic)'
      BY <1>11, <2>2 DEF Says
    <3>4. x.type = "SUPERRES" => stage'[x.pic] = "coded again"
      BY <1>9, <1>10, <2>2 DEF Says
    <3> QED BY <3>2, <3>3, <3>4 DEF Says
  <2> QED BY <1>1, <1>7, <2>1, <2>2 DEF MailInv
<1>18. OrderInv' /\ consecutive' \in Pictures /\ heap' \subseteq Pictures
  BY <1>1, <1>2, <1>6, <1>7, <1>9, <1>11, StartOrderOK
<1>19. LiveInv' /\ live' \in [Pictures -> Nat]
  <2>1. ASSUME NEW r \in Pictures
        PROVE  live'[r] = Nominal(r)' + Cardinality(HoldersOf(r))' /\ live'[r] \in Nat
    <3>1. IsFiniteSet(HoldersOf(r)) /\ Cardinality(HoldersOf(r)) \in Nat /\ live[r] = Nominal(r) + Cardinality(HoldersOf(r))
      BY <1>1, CountsOK DEF LiveInv
    <3>2. CASE r = p
      <4>1. HoldersOf(r) = {}
        <5> SUFFICES ASSUME NEW q \in Pictures, p \in Needs(q), Holding(q) PROVE FALSE
          BY <3>2 DEF HoldersOf
        <5>1. Started(q)
          BY DEF Holding, Started, Underway
        <5> QED BY <1>1, <1>9, <5>1 DEF KeptInv
      <4>2. HoldersOf(r)' = {}
        BY <1>2, <1>11, <1>15, <3>2, <4>1 DEF HoldersOf
      <4>3. Cardinality(HoldersOf(r))' = 0
        BY <4>2, FS_EmptySet
      <4>4. Listed(p) => IsRef(p)
        BY <1>1, <1>8 DEF Listed, EntryInv
      <4>5. Nominal(r)' = IF IsRef(p) THEN 1 ELSE 0
        BY <1>9, <1>11, <1>14, <3>2, <4>4 DEF Nominal
      <4>6. live'[r] = IF IsRef(p) THEN 1 ELSE 0
        BY <1>7, <3>2 DEF Hold
      <4> QED BY <4>3, <4>5, <4>6
    <3>3. CASE r # p
      <4>1. HoldersOf(r)' = IF r \in Needs(p) THEN HoldersOf(r) \cup {p} ELSE HoldersOf(r)
        BY <1>2, <1>11 DEF HoldersOf
      <4>2. p \notin HoldersOf(r)
        BY <1>9 DEF HoldersOf, Holding
      <4>3. Cardinality(HoldersOf(r) \cup {p}) = Cardinality(HoldersOf(r)) + 1
        BY <3>1, <4>2, FS_AddElement
      <4>4. Nominal(r)' = Nominal(r) /\ Nominal(r) \in 0..1
        BY <1>11, <1>14, <3>3 DEF Nominal
      <4>5. live'[r] = IF r \in Needs(p) THEN live[r] + 1 ELSE live[r]
        BY <1>7, <3>3 DEF Hold
      <4>6. Cardinality(HoldersOf(r))' = IF r \in Needs(p) THEN Cardinality(HoldersOf(r)) + 1 ELSE Cardinality(HoldersOf(r))
        BY <4>1, <4>3
      <4> QED BY <3>1, <4>4, <4>5, <4>6
    <3> QED BY <3>2, <3>3
  <2>2. LiveInv'
    BY <1>2, <2>1 DEF LiveInv
  <2>3. live' = [r \in Pictures |-> live'[r]]
    BY <1>7 DEF Hold
  <2> QED BY <2>1, <2>2, <2>3
<1>20. TypeOK'
  <2>1. cursor' \in 0..(Parents + 1) /\ pmgrDecOrder' \in Pictures
    BY <1>3, <1>7
  <2>2. inputs' \in [1..Parents -> Pictures \cup {Unlisted}] /\ stage' \in [Pictures -> Stages]
    BY <1>1, <1>7 DEF TypeOK, Stages
  <2> QED BY <1>1, <1>2, <1>7, <1>12, <1>18, <1>19, <2>1, <2>2 DEF TypeOK
<1>21. SentInv'
  BY <1>1, <1>2, <1>7, <1>9, <1>10 DEF SentInv
<1>22. InputInv'
  <2>1. OpenPictures' = OpenPictures
    BY <1>2, <1>9, <1>10 DEF OpenPictures, Underway
  <2>2. DOMAIN inputs' = DOMAIN inputs
    BY <1>7
  <2>3. ASSUME NEW j \in DOMAIN inputs, NEW q, q = inputs'[j], q # Unlisted
        PROVE  stage'[q] = "waiting" /\ (IsRef(q) => Listed(q)')
    <3>1. inputs[j] = q /\ j # i
      BY <1>13, <2>3
    <3>2. q \in Pictures /\ q # p
      BY <1>1, <1>5, <1>8, <2>3, <3>1 DEF InputInv, TypeOK
    <3> QED BY <1>1, <1>10, <1>14, <2>3, <3>1, <3>2 DEF InputInv
  <2>4. \A j, k \in DOMAIN inputs : inputs'[j] = inputs'[k] /\ inputs'[j] # Unlisted => j = k
    BY <1>1, <1>13 DEF InputInv
  <2>5. \A q \in Pictures : stage'[q] = "waiting" => InList(q)' \/ Mailed(q)'
    BY <1>1, <1>10, <1>14 DEF InputInv
  <2> QED BY <1>1, <1>2, <2>1, <2>2, <2>3, <2>4, <2>5 DEF InputInv
<1>23. EntryInv'
  <2>1. \A j, k \in DOMAIN refs : refs'[j].pic = refs'[k].pic /\ refs'[j].pic # Unlisted => j = k
    BY <1>1, <1>12 DEF EntryInv
  <2>2. ASSUME NEW j \in DOMAIN refs, NEW q, NEW l, q = refs'[j].pic, l = refs'[j].lastRef
        PROVE  /\ q = Unlisted => refs'[j] = NoRef
               /\ q # Unlisted =>
                     /\ IsRef(q) /\ stage'[q] # "unsent"
                     /\ refs'[j].available => Started(q)'
                     /\ l # Never => l \in Pictures /\ Started(l)' /\ q \in released[l]
    <3>1. refs[j].pic = q /\ (q = Unlisted => refs'[j] = refs[j] /\ refs[j] = NoRef)
      BY <1>1, <1>12, <2>2 DEF EntryInv
    <3>2. CASE q # Unlisted
      <4>1. q \in Pictures /\ IsRef(q) /\ stage[q] # "unsent" /\ (refs[j].available => Started(q))
        BY <1>1, <3>1, <3>2 DEF EntryInv, TypeOK, Entries
      <4>2. refs'[j].available => Started(q)'
        BY <1>11, <1>12, <4>1
      <4>3. stage'[q] # "unsent"
        BY <1>10, <4>1
      <4>4. l # Never => l \in Pictures /\ Started(l)' /\ q \in released[l]
        <5>1. CASE l = refs[j].lastRef
          BY <1>1, <1>11, <3>1, <3>2, <5>1 DEF EntryInv
        <5>2. CASE l = p /\ q \in released[p]
          BY <1>11, <5>2
        <5> QED BY <1>12, <2>2, <3>1, <5>1, <5>2
      <4> QED BY <3>2, <4>1, <4>2, <4>3, <4>4
    <3> QED BY <3>1, <3>2
  <2> QED BY <1>2, <1>12, <2>1, <2>2 DEF EntryInv
<1>24. CreditInv'
  <2>1. Entered' = Entered
    BY <1>2, <1>14 DEF Entered
  <2> QED BY <1>1, <1>2, <1>7, <2>1 DEF CreditInv
<1>25. KeptInv'
  <2> SUFFICES ASSUME NEW q \in Pictures, NEW r \in Needs(q)
               PROVE  IF Started(q)' THEN Started(r)' ELSE Started(r)' => Listed(r)'
    BY <1>2 DEF KeptInv
  <2>1. r \in Pictures /\ IsRef(r)
    BY <1>1, NeedsOK
  <2>2. IF Started(q) THEN Started(r) ELSE Started(r) => Listed(r)
    BY <1>1 DEF KeptInv
  <2>3. CASE q = p
    BY <1>11, <1>15, <2>3
  <2>4. CASE q # p /\ r = p
    BY <1>9, <1>11, <1>14, <2>1, <2>2, <2>4
  <2>5. CASE q # p /\ r # p
    BY <1>11, <1>14, <2>1, <2>2, <2>5
  <2> QED BY <2>3, <2>4, <2>5
<1>26. FirstInv'
  <2>1. Started(0)'
    <3>1. CASE Started(0)
      BY <1>3, <1>11, <3>1
    <3>2. CASE ~Started(0)
      <4>1. p = 0
        BY <1>1, <1>5, <1>8, <3>2 DEF FirstInv
      <4> QED BY <1>11, <4>1
    <3> QED BY <3>1, <3>2
  <2> QED BY <2>1 DEF FirstInv
<1>27. ScanInv'
  <2> SUFFICES ASSUME NEW j \in DOMAIN inputs, cursor' = 0 \/ j < cursor', NEW q, q = inputs'[j], q # Unlisted, Startable(q)'
               PROVE  FALSE
    BY <1>7 DEF ScanInv
  <2>1. inputs[j] = q /\ j # i /\ q \in Pictures /\ q # p
    BY <1>1, <1>5, <1>8, <1>13 DEF InputInv, TypeOK
  <2>2. p # consecutive + 1 /\ cursor' = i + 1 /\ consecutive' = consecutive /\ j < i
    BY <1>3, <1>7, <2>1
  <2>3. ~Startable(q)
    <3>1. cursor \in Nat
      BY <1>1, <1>3 DEF TypeOK
    <3> QED BY <1>1, <1>3, <1>6, <2>1, <2>2, <3>1 DEF ScanInv
  <2>4. PmDecOrder => pmgrDecOrder' = pmgrDecOrder
    <3> SUFFICES ASSUME PmDecOrder PROVE FALSE
      OBVIOUS
    <3>1. p = 0
      BY <1>1, <1>6, <2>2 DEF Startable, OrderInv
    <3>2. q = 0
      BY <1>1, <1>9, <2>1, <3>1 DEF FirstInv
    <3> QED BY <2>1, <3>1, <3>2
  <2>5. \A r \in Pictures : Usable(EntryOf(r))' => Usable(EntryOf(r))
    BY <1>1, <1>2, <1>12, <1>20, UsableStays
  <2>6. Startable(q)
    BY <1>1, <1>2, <1>7, <2>1, <2>2, <2>4, <2>5, StartableStays
  <2> QED BY <2>3, <2>6
<1> QED BY <1>2, <1>17, <1>18, <1>19, <1>20, <1>21, <1>22, <1>23, <1>24, <1>25, <1>26, <1>27 DEF IInv

\* A step that changes nothing.
LEMMA StutterOK ==
    ASSUME IInv, UNCHANGED vars
    PROVE  IInv'
<1>1. /\ video' = video /\ sent' = sent /\ credits' = credits /\ inbox' = inbox /\ inputs' = inputs /\ refs' = refs
      /\ consecutive' = consecutive /\ heap' = heap /\ pmgrDecOrder' = pmgrDecOrder /\ decodeOrder' = decodeOrder
      /\ cursor' = cursor /\ eos' = eos /\ stage' = stage /\ recodes' = recodes /\ live' = live
  BY DEF vars
<1>2. VideoInv /\ TypeOK
  BY DEF IInv
<1>3. eos' \in BOOLEAN
  BY <1>1, <1>2 DEF TypeOK
<1>4. DropEntries({}) /\ live' = DropCount(live, {})
  <2>1. Cardinality({}) = 0 /\ \A q : {i \in {} : refs[i].pic = q} = {}
    BY FS_EmptySet
  <2>2. credits + 0 = credits /\ \A q \in Pictures : live[q] - 0 = live[q]
    <3>1. ListLength \in Nat
      BY <1>2, SettingsOK
    <3> QED BY <1>2, <3>1 DEF TypeOK
  <2>3. DropEntries({})
    BY <1>1, <1>2, <2>1, <2>2 DEF DropEntries, TypeOK
  <2>4. live = [q \in Pictures |-> live[q]]
    BY <1>2 DEF TypeOK
  <2>5. DropCount(live, {}) = [q \in Pictures |-> live[q] - 0]
    BY <2>1 DEF DropCount
  <2>6. DropCount(live, {}) = live
    BY <2>2, <2>4, <2>5
  <2> QED BY <1>1, <2>3, <2>6
<1>5. UNCHANGED <<video, sent, inbox, startState, decodeOrder, stage, recodes>>
  BY <1>1 DEF startState
<1>6. cursor' = cursor
  BY <1>1
<1> QED BY <1>3, <1>4, <1>5, <1>6, DropOK

\* Every step preserves the invariant.
LEMMA NextOK ==
    ASSUME IInv, [Next]_vars
    PROVE  IInv'
<1>1. CASE SendPictureOut
  BY <1>1, SendOK
<1>2. CASE Receive
  BY <1>2, ReceiveInputOK, ReceiveReferenceOK, ReceiveFeedbackOK, ReceiveSuperresOK DEF Receive
<1>3. CASE Scan
  BY <1>3, StartPictureOK, EndScanOK DEF Scan
<1>4. CASE ReleaseReferencesEos
  BY <1>4, ReleaseReferencesEosOK
<1>5. ASSUME NEW p \in Pictures, Coding(p) PROVE IInv'
  BY <1>5, FilterOK, CodeEntropyOK, RecodeOK, PacketizeOK DEF Coding
<1>6. CASE UNCHANGED vars
  BY <1>6, StutterOK
<1> QED BY <1>1, <1>2, <1>3, <1>4, <1>5, <1>6 DEF Next

-----------------------------------------------------------------------------
(* The theorems.                                                            *)

\* The invariant holds in every state of the picture manager.
THEOREM Invariance == Spec => []IInv
<1>1. Init => IInv
  BY InitOK
<1>2. IInv /\ [Next]_vars => IInv'
  BY NextOK
<1> QED BY <1>1, <1>2, PTL DEF Spec

\* Every variable stays in its range: the credits never exceed the list or fall
\* below zero, nor do the live counts, and what is in the lists is a picture.
THEOREM Types == Spec => []TypeOK
<1>1. IInv => TypeOK
  BY DEF IInv
<1> QED BY <1>1, Invariance, PTL

\* A picture that is taken in finds a place in the input list and, if others may
\* predict from it, in the reference list: the branches of the code for a full
\* list are never taken.
THEOREM Room == Spec => []ListHasRoom
<1>1. IInv => ListHasRoom
  BY RoomOK
<1> QED BY <1>1, Invariance, PTL

\* consecutive_dec_order and the heap are exact: heap_push never finds it full.
THEOREM Exact == Spec => []ConsecutiveIsExact
<1>1. IInv => ConsecutiveIsExact
  BY DEF IInv, OrderInv
<1> QED BY <1>1, Invariance, PTL

\* No reference is dropped or recycled under a picture that predicts from it.
THEOREM Kept == Spec => []ReferencesAreKept
<1>1. IInv => ReferencesAreKept
  BY KeptOK
<1> QED BY <1>1, Invariance, PTL

\* The picture manager never goes back to sleep on a picture it could start.
THEOREM NothingLeft == Spec => []NothingStartableIsLeft
<1>1. IInv => NothingStartableIsLeft
  BY ScanOK
<1> QED BY <1>1, Invariance, PTL
===============================================================================
