------------------------- MODULE PacketizationRing -------------------------
(***************************************************************************)
(* When the ring of packetization is large enough.  Its entries are filled *)
(* without a look at what they hold, and once pictures may overtake each   *)
(* other nothing in the code limits by how much: neither the order of the  *)
(* stream nor the metadata of a hidden picture is safe for every sequence  *)
(* (MCOvertaking).  Whether they are for one is decided here, by what the  *)
(* dependencies between its pictures, and the order of their starts where  *)
(* that is prescribed, leave possible.                                     *)
(***************************************************************************)
EXTENDS Packetization

\* The sets of pictures that may be packetized while the others are not: with
\* each picture those it predicts from; with enable_dec_order all before it, and
\* where only one is coded at a time, all that it cannot be started past.
Overtakings(v) ==
    LET all == 0..(Len(v.pictures) - 1)
    IN  {S \in SUBSET all :
            /\ \A d \in S : v.pictures[d + 1].needs \subseteq S
            /\ \A d \in S, e \in all \ S : /\ v.inOrder => d < e
                                           /\ v.children = 1 => d < e + v.reach}

\* Picture d finds its entry empty after the pictures of S: the oldest one, o,
\* that is missing and the hidden ones right before it, which wait for its unit,
\* are less than a round behind.
EntryIsFree(v, S, d) ==
    \A o \in 0..(Len(v.pictures) - 1) :
        o \notin S /\ 0..(o - 1) \subseteq S =>
            \A h \in 0..o : (\A k \in h..(o - 1) : ~v.pictures[k + 1].show) => d < h + v.size

\* If picture d is hidden, the entry of its number does not have the metadata of
\* a picture of S whose header is not written yet.
MetadataIsGone(v, S, d) ==
    LET g == v.pictures
    IN  ~g[d + 1].show =>
           \A c \in S, s \in 0..(Len(g) - 1) :
              s \notin S /\ Waits(g[c + 1]) /\ Shows(g, s + 1, c + 1)
              => g[c + 1].number % v.size # g[d + 1].number % v.size

RingIsLarge(v) ==
    \A S \in Overtakings(v) : \A d \in 0..(Len(v.pictures) - 1) :
        d \notin S /\ S \cup {d} \in Overtakings(v) => EntryIsFree(v, S, d) /\ MetadataIsGone(v, S, d)

ASSUME RingAssumption == \A v \in Videos : RingIsLarge(v)
=============================================================================
