---------------------------- MODULE RxReassembly ----------------------------
(***************************************************************************)
(* The receive path of a unicast data frame of one node, from the          *)
(* duplicate filter of ieee80211_input() through ieee80211_defrag() to the *)
(* Ethernet frame of ieee80211_decap(), over the mbuf operations of the    *)
(* port (m_adj, m_cat), fed by a peer that cuts its frames the way         *)
(* ieee80211_fragment() does and repeats what is not acknowledged.         *)
(*                                                                         *)
(* The bytes of a frame are pairs <<msdu, index>>, a header is HdrLen      *)
(* bytes of which only the number is kept, and sequence numbers live       *)
(* modulo SeqSpace, fragment numbers modulo FragSpace (4096 and 16 in the  *)
(* frame format).  A chain of mbufs is one record: how many mbufs it has,  *)
(* their header and payload bytes, and the m_pkthdr.len of the first one,  *)
(* the only one that is read.  The fragment reaper of ieee80211_node.c     *)
(* hangs off if_watchdog, which nothing calls, so it takes no step here.   *)
(***************************************************************************)
EXTENDS Naturals, Sequences

CONSTANTS
  SeqSpace,        \* number of sequence numbers (4096)
  FragSpace,       \* number of fragment numbers (16)
  FirstSeq,      \* the sequence number the peer starts from
  MaxMsdus,      \* bound: how many frames the peer sends
  MaxLen,        \* bound: the longest payload
  HdrLen,        \* hdrsize: the 802.11 header
  Mtu            \* ic_fragthreshold of the peer

ASSUME RxBoundsAssumption ==
  /\ SeqSpace \in Nat \ {0} /\ FragSpace \in Nat \ {0} /\ FirstSeq \in 0 .. SeqSpace - 1
  /\ HdrLen \in Nat \ {0} /\ Mtu \in Nat /\ Mtu > HdrLen
  /\ MaxMsdus \in Nat /\ MaxLen \in Nat
  /\ MaxMsdus < SeqSpace                       \* a number is not used twice
  /\ MaxLen <= FragSpace * (Mtu - HdrLen)      \* a frame has at most FragSpace pieces

VARIABLES
  msdu,       \* peer: number of the frame being sent, 1 .. MaxMsdus
  length,     \* peer: its payload length, 0 before it is chosen
  piece,      \* peer: the fragment being sent
  retry,      \* peer: the retry bit of the next transmission
  rxseqs,     \* ni_rxseqs[0]: sequence and fragment number accepted last
  rxfrag,     \* ni_rxfrag[0]: the chain under reassembly, NoFrame when NULL
  lastseq,    \* the i_seq in the header of that chain
  heard,      \* history: fragments of msdu that passed the duplicate filter
  demic,      \* history: m_pkthdr.len and true length as handed to crypto_demic
  delivered   \* history: the frames passed up, each [bytes, pktlen]

rxVars == <<msdu, length, piece, retry, rxseqs, rxfrag, lastseq, heard, demic, delivered>>

-----------------------------------------------------------------------------
(* mbufs *)

\* The null pointer: a chain of no mbufs.
NoFrame == [mbufs |-> 0, hdr |-> 0, bytes |-> <<>>, pktlen |-> 0]

\* The m_len of all mbufs of a chain.
MLen(c) == c.hdr + Len(c.bytes)

\* m_adj(c, hdrsize): the header goes, the packet length is recomputed over
\* the whole chain.
m_adj(c) == [c EXCEPT !.hdr = 0, !.pktlen = Len(c.bytes)]

\* m_cat: link m behind the last mbuf of c; it is the LAST mbuf's packet
\* header, every received mbuf having one, that grows: the first one's only
\* when it is the last.
m_cat(c, m) ==
  [mbufs |-> c.mbufs + 1, hdr |-> c.hdr + m.hdr, bytes |-> c.bytes \o m.bytes,
   pktlen |-> IF c.mbufs = 1 THEN c.pktlen + MLen(m) ELSE c.pktlen]

-----------------------------------------------------------------------------
(* The peer: ieee80211_encap and ieee80211_fragment. *)

Bytes(n, from, to) == [i \in 1 .. (to - from) |-> <<n, from + i>>]

PieceLen == Mtu - HdrLen

\* How many pieces a payload of len bytes is cut into.
Pieces(len) ==
  IF HdrLen + len > Mtu THEN (len + PieceLen - 1) \div PieceLen ELSE 1

Upto(k, len) == IF k * PieceLen < len THEN k * PieceLen ELSE len

\* Piece k (from 0) of frame n: its number, the MORE_FRAG bit on all but
\* the last, and as one mbuf with a header.
Fragment(n, len, k, again) ==
  LET b == Bytes(n, Upto(k, len), Upto(k + 1, len))
  IN [rxseq |-> ((FirstSeq + n - 1) % SeqSpace) * FragSpace + k, frag |-> k,
      more |-> k + 1 < Pieces(len), retry |-> again,
      m |-> [mbufs |-> 1, hdr |-> HdrLen, bytes |-> b, pktlen |-> HdrLen + Len(b)]]

-----------------------------------------------------------------------------
(* The receiver. *)

\* Mutants of the duplicate filter, the reassembly check and the trimming.
DuplicateStrict(f) ==
  f.retry /\ f.rxseq < rxseqs

InOrderLoose(f) ==
  rxfrag # NoFrame /\ f.rxseq > lastseq

decapUntrimmed(c) ==
  [bytes |-> c.bytes, pktlen |-> c.pktlen - HdrLen]

\* ieee80211_input: a repeated frame not newer than the one accepted last.
\* The comparison is of plain integers, so only the top number wraps.
Duplicate(f) ==
  LET orxno == rxseqs \div FragSpace
  IN /\ f.retry
     /\ IF orxno = SeqSpace - 1 THEN f.rxseq \div FragSpace = orxno ELSE f.rxseq <= rxseqs

\* The next piece of the chain under reassembly.
InOrder(f) == rxfrag # NoFrame /\ f.rxseq = lastseq + 1

\* The else branch of ieee80211_defrag: trim, link, and add the length by hand.
Extended(f) ==
  LET m == m_adj(f.m)
  IN [m_cat(rxfrag, m) EXCEPT !.pktlen = @ + m.pktlen]

\* ieee80211_defrag: the frame that is complete (NoFrame: none), the chain
\* kept and the number in its header.
ieee80211_defrag(f) ==
  LET chain == IF InOrder(f) THEN Extended(f)
               ELSE IF f.frag = 0 THEN f.m
               ELSE NoFrame                     \* not a first fragment: discarded
  IN [frame |-> IF f.more THEN NoFrame ELSE chain,
      keep  |-> IF f.more THEN chain ELSE NoFrame,
      last  |-> f.rxseq]

\* ieee80211_decap: the header is trimmed with m_adj, which recomputes the
\* packet length over the whole chain.
ieee80211_decap(c) ==
  LET m == m_adj(c) IN [bytes |-> m.bytes, pktlen |-> m.pktlen]

\* ieee80211_input and ieee80211_input_data on one data frame.
Input(f) ==
  IF Duplicate(f)
  THEN UNCHANGED <<rxseqs, rxfrag, lastseq, demic, delivered>>
  ELSE LET d == ieee80211_defrag(f)
       IN /\ rxseqs' = f.rxseq
          /\ rxfrag' = d.keep
          /\ lastseq' = IF d.keep = NoFrame THEN 0 ELSE d.last
          /\ IF d.frame = NoFrame
             THEN UNCHANGED <<demic, delivered>>
             ELSE /\ demic' = [said |-> d.frame.pktlen, is |-> MLen(d.frame)]
                  /\ delivered' = Append(delivered, ieee80211_decap(d.frame))

-----------------------------------------------------------------------------
(* Steps *)

RxInit ==
  /\ msdu = 1 /\ length = 0 /\ piece = 0 /\ retry = FALSE
  /\ rxseqs = 0 /\ rxfrag = NoFrame /\ lastseq = 0
  /\ heard = {} /\ demic = [said |-> 0, is |-> 0] /\ delivered = <<>>

\* The peer takes up the next frame.
StartFrame ==
  /\ length = 0
  /\ length' \in 1 .. MaxLen
  /\ UNCHANGED <<msdu, piece, retry, rxseqs, rxfrag, lastseq, heard, demic, delivered>>

\* The peer goes on to its next frame.
NextFrame ==
  /\ msdu' = msdu + 1 /\ length' = 0 /\ piece' = 0 /\ retry' = FALSE /\ heard' = {}

Current == Fragment(msdu, length, piece, retry)

Sending == length # 0 /\ msdu <= MaxMsdus

Hear == heard' = IF Duplicate(Current) THEN heard ELSE heard \cup {piece}

\* The fragment arrives and its acknowledgement too.
SendAcked ==
  /\ Sending
  /\ Input(Current)
  /\ IF Current.more
     THEN piece' = piece + 1 /\ retry' = FALSE /\ Hear /\ UNCHANGED <<msdu, length>>
     ELSE NextFrame

\* The fragment arrives and its acknowledgement does not.
SendUnacked ==
  /\ Sending
  /\ Input(Current)
  /\ Hear
  /\ retry' = TRUE
  /\ UNCHANGED <<msdu, length, piece>>

\* The fragment is lost.
SendLost ==
  /\ Sending
  /\ retry' = TRUE
  /\ UNCHANGED <<msdu, length, piece, rxseqs, rxfrag, lastseq, heard, demic, delivered>>

\* Retries run out: the rest of the frame is not sent.
GiveUp ==
  /\ Sending
  /\ retry
  /\ NextFrame
  /\ UNCHANGED <<rxseqs, rxfrag, lastseq, demic, delivered>>

RxNext == StartFrame \/ SendAcked \/ SendUnacked \/ SendLost \/ GiveUp

RxSpec == RxInit /\ [][RxNext]_rxVars

-----------------------------------------------------------------------------
(* Properties *)

Whole(b) == \E n \in 1 .. MaxMsdus, len \in 1 .. MaxLen : b = Bytes(n, 0, len)

\* The types of the peer's and the receiver's state.
RxTypeOK ==
  /\ msdu \in 1 .. MaxMsdus + 1 /\ length \in 0 .. MaxLen /\ piece \in 0 .. FragSpace - 1
  /\ retry \in BOOLEAN
  /\ rxseqs \in 0 .. SeqSpace * FragSpace - 1 /\ lastseq \in 0 .. SeqSpace * FragSpace - 1
  /\ rxfrag.mbufs <= FragSpace
  /\ heard \subseteq 0 .. FragSpace - 1
  /\ Len(delivered) <= MaxMsdus

\* What ieee80211_input_data passes up is one frame of the peer, all of its
\* fragments in order: never a frame with a piece missing or repeated, nor
\* pieces of two frames, whatever was lost, repeated or given up.
DeliveredWhole ==
  \A i \in 1 .. Len(delivered) : Whole(delivered[i].bytes)

\* With the types of both sides: the fragments kept never outgrow a frame.
RxInv == RxTypeOK /\ DeliveredWhole

\* Frames are passed up in the order they were sent and none twice: the
\* duplicate filter stops every repetition whose acknowledgement was lost.
DeliveredInOrder ==
  \A i, j \in 1 .. Len(delivered) :
    i < j => delivered[i].bytes[1][1] < delivered[j].bytes[1][1]

\* The packet length of what is passed up is the length of its data: the
\* wrong length ieee80211_defrag leaves is repaired by the m_adj of
\* ieee80211_decap.
DeliveredLength ==
  \A i \in 1 .. Len(delivered) : delivered[i].pktlen = Len(delivered[i].bytes)

-----------------------------------------------------------------------------
(* What comments in the sources lead one to expect and the code does not   *)
(* keep: TLC finds a behaviour against each (see README).                  *)

\* ieee80211_defrag hands on a frame whose m_pkthdr.len is its length.  The
\* comment there says m_cat leaves the header alone; the port's m_cat does not.
LengthTruthful == demic.said = demic.is

\* A frame discarded as "duplicate, discard" was received before.
DuplicateWasReceived ==
  [][ Sending /\ Duplicate(Current) /\ (SendAcked \/ SendUnacked) => piece \in heard ]_rxVars

=============================================================================
