----------------------------- MODULE Vita49Proofs -----------------------------
(***************************************************************************)
(* Proofs about the parsers of Vita49: what holds for every block of words *)
(* and every reading of words that are not what they are read as, and what *)
(* becomes of the frames of the radio.                                     *)
(***************************************************************************)
EXTENDS Vita49, SequenceTheorems, TLAPS

Packet == [at : Nat, h : Header]

\* What is left of the block is known; before the loop no packet has been
\* found.
SizesOK ==
  /\ index + size = Len(input.words)
  /\ pc \in {"enter", "scan", "info"} => m_packets = <<>>

\* In the loop there is room for the trailer of the frame after the packets
\* found so far, which is why the size of the remainder does not wrap.
LoopOK ==
  frame_size >= 3 =>
    /\ pc \in {"packet", "done"} => frame_size <= size
    /\ pc \in {"packet", "done"} => 2 <= packet_offset /\ packet_offset + 1 <= frame_size

\* The packets found so far end where the next one begins.
ChainOK ==
  \A i \in 1 .. Len(m_packets) :
    /\ 2 <= m_packets[i].at
    /\ m_packets[i].at + m_packets[i].h.size <= packet_offset
    /\ i = Len(m_packets) => m_packets[i].at + m_packets[i].h.size = packet_offset
    /\ i > 1 => m_packets[i].at = m_packets[i - 1].at + m_packets[i - 1].h.size

\* The offset itself never falls back behind the header of the frame.
OffsetOK == pc = "packet" => 2 <= packet_offset

Inv == TypeOK /\ SizesOK /\ LoopOK /\ ChainOK /\ OffsetOK

-----------------------------------------------------------------------------

\* A frame info word of the radio, or any other word, says a natural number.
LEMMA FrameSizeType ==
  ASSUME TypeOK, NEW p \in Nat, NEW n \in ReadFrameSize(p)
  PROVE  n \in Nat
<1>1. CASE IsKind(p, "info")
  <2>1. input \in Input BY DEF TypeOK
  <2>2. input.words \in Seq(Word) BY <2>1 DEF Input
  <2>3. p + 1 \in 1 .. Len(input.words) BY <1>1, <2>2 DEF IsKind
  <2>4. input.words[p + 1] \in Word BY <2>2, <2>3
  <2> QED BY <1>1, <2>4 DEF ReadFrameSize, Word, Header
<1>2. CASE ~IsKind(p, "info")
  BY <1>2, ReadingsAssumption DEF ReadFrameSize
<1> QED BY <1>1, <1>2

\* A packet header of the radio, or any other word, has the fields of one.
LEMMA HeaderType ==
  ASSUME TypeOK, NEW p \in Nat, NEW h \in ReadHeader(p)
  PROVE  h \in Header
<1>1. CASE IsKind(p, "hdr")
  <2>1. input \in Input BY DEF TypeOK
  <2>2. input.words \in Seq(Word) BY <2>1 DEF Input
  <2>3. p + 1 \in 1 .. Len(input.words) BY <1>1, <2>2 DEF IsKind
  <2>4. input.words[p + 1] \in Word BY <2>2, <2>3
  <2> QED BY <1>1, <2>4 DEF ReadHeader, Word
<1>2. CASE ~IsKind(p, "hdr")
  BY <1>2, ReadingsAssumption DEF ReadHeader
<1> QED BY <1>1, <1>2

\* The words of a block can be counted.
LEMMA BlockType ==
  ASSUME TypeOK
  PROVE  Len(input.words) \in Nat
<1>1. input \in Input BY DEF TypeOK
<1>2. input.words \in Seq(Word) BY <1>1 DEF Input
<1> QED BY <1>2

\* The constructor starts in the invariant.
LEMMA InitInv == Init => Inv
<1> SUFFICES ASSUME Init PROVE Inv
  OBVIOUS
<1>1. input \in Input BY InputsAssumption DEF Init
<1>2. input.words \in Seq(Word) BY <1>1 DEF Input
<1>3. Len(input.words) \in Nat BY <1>2
<1>4. TypeOK BY <1>1, <1>3 DEF Init, TypeOK, Ended
<1> QED BY <1>3, <1>4 DEF Init, Inv, SizesOK, LoopOK, ChainOK, OffsetOK

\* Checking the size of the block and looking for the alignment word.
LEMMA SearchInv ==
  ASSUME Inv, CheckSize \/ FindAlignment
  PROVE  Inv'
<1> USE DEF Inv
<1>0. Len(input.words) \in Nat BY BlockType
<1>1. CASE CheckSize
  BY <1>0, <1>1 DEF CheckSize, TypeOK, SizesOK, LoopOK, ChainOK, OffsetOK, Ended
<1>2. CASE FindAlignment
  BY <1>0, <1>2 DEF FindAlignment, MinWords, TypeOK, SizesOK, LoopOK, ChainOK, OffsetOK, Ended
<1> QED BY <1>1, <1>2

\* Taking a frame: the loop starts at its third word.
LEMMA FrameInv ==
  ASSUME Inv, ReadFrameInfo
  PROVE  Inv'
<1> USE DEF Inv
<1>1. index + 1 \in Nat BY DEF TypeOK
<1>2. PICK n \in ReadFrameSize(index + 1) : TakeFrame(n, n <= size) BY DEF ReadFrameInfo
<1>3. n \in Nat BY <1>1, <1>2, FrameSizeType
<1>4. m_packets = <<>> BY <1>2 DEF TakeFrame, SizesOK
<1>5. TypeOK' BY <1>2, <1>3 DEF TakeFrame, TypeOK, Ended
<1>6. SizesOK' BY <1>2 DEF TakeFrame, SizesOK
<1>7. LoopOK' BY <1>2, <1>3 DEF TakeFrame, LoopOK, TypeOK
<1>8. ChainOK' BY <1>2, <1>4 DEF TakeFrame, ChainOK
<1>9. OffsetOK' BY <1>2 DEF TakeFrame, OffsetOK
<1> QED BY <1>5, <1>6, <1>7, <1>8, <1>9

\* Taking a packet: it ends before the trailer of the frame.
LEMMA PacketInv ==
  ASSUME Inv, ParsePacket
  PROVE  Inv'
<1> USE DEF Inv
<1>1. index + packet_offset \in Nat BY DEF TypeOK
<1>2. PICK h \in ReadHeader(index + packet_offset) : TakePacket(h, Remaining, "done")
  BY DEF ParsePacket
<1>3. h \in Header BY <1>1, <1>2, HeaderType
<1>4. h.size \in Nat /\ h.type \in Nat BY <1>3 DEF Header
<1>5. CASE UNCHANGED <<packet_offset, m_packets>>
  <2>1. pc' \in Ended /\ UNCHANGED <<input, index, size, frame_size>> /\ pc = "packet"
    BY <1>2, <1>4, <1>5 DEF TakePacket, Ended, TypeOK
  <2> QED BY <1>5, <2>1 DEF TypeOK, SizesOK, LoopOK, ChainOK, OffsetOK, Ended
<1>6. CASE /\ h.size <= Remaining /\ h.size > 0 /\ pc = "packet"
           /\ m_packets' = Append(m_packets, [at |-> packet_offset, h |-> h])
           /\ packet_offset' = packet_offset + h.size
           /\ pc' \in {"packet", "done"}
           /\ UNCHANGED <<input, index, size, frame_size>>
  <2> DEFINE new == [at |-> packet_offset, h |-> h]
  <2>1. new \in Packet BY <1>3 DEF TypeOK, Packet
  <2>2. m_packets \in Seq(Packet) BY DEF TypeOK, Packet
  <2>3. /\ m_packets' \in Seq(Packet)
        /\ Len(m_packets') = Len(m_packets) + 1
        /\ \A i \in 1 .. Len(m_packets) : m_packets'[i] = m_packets[i]
        /\ m_packets'[Len(m_packets) + 1] = new
    BY <1>6, <2>1, <2>2
  <2>4. Len(m_packets) \in Nat BY <2>2
  <2>5. TypeOK' BY <1>4, <1>6, <2>3 DEF TypeOK, Packet, Ended
  <2>6. SizesOK' BY <1>6 DEF SizesOK
  <2>7. LoopOK'
    <3> SUFFICES ASSUME frame_size >= 3
                 PROVE  frame_size <= size /\ 2 <= packet_offset' /\ packet_offset' + 1 <= frame_size
      BY <1>6 DEF LoopOK
    <3>1. frame_size <= size /\ 2 <= packet_offset /\ packet_offset + 1 <= frame_size
      BY <1>6 DEF LoopOK
    <3>2. Remaining = frame_size - packet_offset - 1
      BY <3>1 DEF Remaining, Minus, TypeOK
    <3> QED BY <1>4, <1>6, <3>1, <3>2 DEF TypeOK
  <2>8. ChainOK'
    <3> SUFFICES ASSUME NEW i \in 1 .. Len(m_packets) + 1
                 PROVE  /\ 2 <= m_packets'[i].at
                        /\ m_packets'[i].at + m_packets'[i].h.size <= packet_offset'
                        /\ i = Len(m_packets) + 1 =>
                             m_packets'[i].at + m_packets'[i].h.size = packet_offset'
                        /\ i > 1 => m_packets'[i].at = m_packets'[i - 1].at + m_packets'[i - 1].h.size
      BY <2>3 DEF ChainOK
    <3>1. packet_offset \in Nat /\ 2 <= packet_offset BY <1>6 DEF TypeOK, OffsetOK
    <3>2. CASE i = Len(m_packets) + 1
      <4>1. m_packets'[i].at = packet_offset /\ m_packets'[i].h.size = h.size BY <2>3, <3>2
      <4>2. ASSUME i > 1
            PROVE  m_packets'[i].at = m_packets'[i - 1].at + m_packets'[i - 1].h.size
        <5>1. i - 1 \in 1 .. Len(m_packets) /\ i - 1 = Len(m_packets) BY <2>4, <3>2, <4>2
        <5> QED BY <2>3, <4>1, <5>1 DEF ChainOK
      <4> QED BY <1>4, <1>6, <3>1, <4>1, <4>2
    <3>3. CASE i \in 1 .. Len(m_packets)
      <4>1. m_packets'[i] = m_packets[i] BY <2>3, <3>3
      <4>2. m_packets[i].at + m_packets[i].h.size <= packet_offset /\ 2 <= m_packets[i].at
        BY <3>3 DEF ChainOK
      <4>3. m_packets[i].at \in Nat /\ m_packets[i].h.size \in Nat
        <5>1. m_packets[i] \in Packet BY <2>2, <3>3
        <5> QED BY <5>1 DEF Packet, Header
      <4>4. ASSUME i > 1
            PROVE  m_packets'[i].at = m_packets'[i - 1].at + m_packets'[i - 1].h.size
        <5>1. i - 1 \in 1 .. Len(m_packets) BY <2>4, <3>3, <4>4
        <5>2. m_packets'[i - 1] = m_packets[i - 1] BY <2>3, <5>1
        <5>3. m_packets[i].at = m_packets[i - 1].at + m_packets[i - 1].h.size
          BY <3>3, <4>4 DEF ChainOK
        <5> QED BY <4>1, <5>2, <5>3
      <4>5. packet_offset' = packet_offset + h.size /\ h.size \in Nat BY <1>4, <1>6
      <4>6. m_packets'[i].at + m_packets'[i].h.size <= packet_offset'
        BY <3>1, <4>1, <4>2, <4>3, <4>5
      <4>7. i # Len(m_packets) + 1 BY <2>4, <3>3
      <4> QED BY <4>1, <4>2, <4>4, <4>6, <4>7
    <3> QED BY <2>4, <3>2, <3>3
  <2>9. OffsetOK' BY <1>4, <1>6 DEF OffsetOK, TypeOK
  <2> QED BY <2>5, <2>6, <2>7, <2>8, <2>9
<1> QED BY <1>2, <1>4, <1>5, <1>6 DEF TakePacket

\* No step leaves the invariant.
LEMMA NextInv == Inv /\ [Next]_vars => Inv'
<1> SUFFICES ASSUME Inv, [Next]_vars PROVE Inv'
  OBVIOUS
<1>1. CASE CheckSize \/ FindAlignment BY <1>1, SearchInv
<1>2. CASE ReadFrameInfo BY <1>2, FrameInv
<1>3. CASE ParsePacket BY <1>3, PacketInv
<1>4. CASE UNCHANGED vars
  BY <1>4 DEF vars, Inv, TypeOK, SizesOK, LoopOK, ChainOK, OffsetOK
<1> QED BY <1>1, <1>2, <1>3, <1>4 DEF Next

\* The invariant holds throughout.
LEMMA Invariance == Spec => []Inv
  BY InitInv, NextInv, PTL DEF Spec

\* The variables of the frame parser keep their types: size, of type size_t
\* in the code, never wraps in the search for the alignment word.
THEOREM TypeCorrect == Spec => []TypeOK
<1>1. Inv => TypeOK BY DEF Inv
<1> QED BY <1>1, Invariance, PTL

\* VRLFrame::parse takes only frames that lie inside the block it was given,
\* and only packets that lie inside the frame, one after the other, before
\* its trailer, whatever the words say.
THEOREM Inside == Spec => []PacketsInside
<1>1. Inv => PacketsInside
  <2> SUFFICES ASSUME Inv, pc \in {"packet", "done"}, frame_size >= 3
               PROVE  /\ index + frame_size <= Len(input.words)
                      /\ \A i \in 1 .. Len(m_packets) :
                           /\ m_packets[i].at >= 2
                           /\ m_packets[i].at + m_packets[i].h.size < frame_size
                           /\ i > 1 => m_packets[i].at = m_packets[i - 1].at + m_packets[i - 1].h.size
    BY DEF PacketsInside
  <2>1. frame_size <= size /\ packet_offset + 1 <= frame_size BY DEF Inv, LoopOK
  <2>2. index + frame_size <= Len(input.words) BY <2>1 DEF Inv, SizesOK, TypeOK
  <2>3. ASSUME NEW i \in 1 .. Len(m_packets)
        PROVE  /\ m_packets[i].at >= 2
               /\ m_packets[i].at + m_packets[i].h.size < frame_size
               /\ i > 1 => m_packets[i].at = m_packets[i - 1].at + m_packets[i - 1].h.size
    <3>1. m_packets \in Seq(Packet) BY DEF Inv, TypeOK, Packet
    <3>2. m_packets[i].at \in Nat /\ m_packets[i].h.size \in Nat
      <4>1. m_packets[i] \in Packet BY <3>1
      <4> QED BY <4>1 DEF Packet, Header
    <3>3. /\ 2 <= m_packets[i].at
          /\ m_packets[i].at + m_packets[i].h.size <= packet_offset
          /\ i > 1 => m_packets[i].at = m_packets[i - 1].at + m_packets[i - 1].h.size
      BY DEF Inv, ChainOK
    <3> QED BY <2>1, <3>2, <3>3 DEF Inv, TypeOK
  <2> QED BY <2>2, <2>3
<1> QED BY <1>1, Invariance, PTL

-----------------------------------------------------------------------------
(* The loops.                                                              *)

Stage ==
  CASE pc = "enter" -> 0 [] pc = "scan" -> 1 [] pc = "info" -> 2 [] pc = "packet" -> 3 [] OTHER -> 4

\* What is left for the loop of a stage to go through.
Left == IF pc = "packet" THEN frame_size - packet_offset ELSE size

\* A later stage, or nearer to the end of this one.
Closer ==
  \/ Stage' > Stage
  \/ Stage' = Stage /\ Left' < Left /\ Left' >= 0

\* Neither loop of VRLFrame::parse ever stands still, whatever the words say:
\* the search gets shorter and every packet taken moves the offset on, one of
\* size zero ending the loop.  Each call can take only so many steps.
THEOREM LoopsAdvance == Spec => [][Closer]_vars
<1>1. Inv /\ Next => Closer
  <2> SUFFICES ASSUME Inv, Next PROVE Closer
    OBVIOUS
  <2>1. size \in Nat /\ packet_offset \in Nat /\ frame_size \in Nat
    BY DEF Inv, TypeOK
  <2>2. CASE CheckSize
    BY <2>2 DEF CheckSize, Closer, Stage
  <2>3. CASE FindAlignment
    BY <2>1, <2>3 DEF FindAlignment, Closer, Stage, Left, MinWords
  <2>4. CASE ReadFrameInfo
    BY <2>4 DEF ReadFrameInfo, TakeFrame, Closer, Stage
  <2>5. CASE ParsePacket
    <3>1. PICK h \in ReadHeader(index + packet_offset) : TakePacket(h, Remaining, "done")
      BY <2>5 DEF ParsePacket
    <3>2. h \in Header
      <4>1. index + packet_offset \in Nat
        BY DEF Inv, TypeOK
      <4> QED BY <3>1, <4>1, HeaderType DEF Inv
    <3>3. h.size \in Nat
      BY <3>2 DEF Header
    <3>4. CASE pc' = "packet"
      <4>1. /\ pc = "packet" /\ h.size > 0 /\ frame_size' = frame_size
            /\ packet_offset' = packet_offset + h.size
            /\ packet_offset + h.size + 1 < frame_size
        BY <3>1, <3>4 DEF TakePacket
      <4> QED BY <2>1, <3>3, <3>4, <4>1 DEF Closer, Stage, Left
    <3>5. CASE pc' # "packet"
      <4>1. pc = "packet" /\ pc' \in Ended
        BY <3>1, <3>5 DEF TakePacket, Ended
      <4> QED BY <4>1 DEF Closer, Stage, Ended
    <3> QED BY <3>4, <3>5
  <2> QED BY <2>2, <2>3, <2>4, <2>5 DEF Next
<1>2. Inv /\ [Next]_vars => [Closer]_vars
  BY <1>1
<1> QED BY <1>2, Invariance, PTL DEF Spec

-----------------------------------------------------------------------------
(* The frames of the radio.                                                *)

\* The search never passes the beginning of a frame, and takes no other word
\* for it.
SearchOK ==
  input.state # "torn" =>
    /\ index <= input.first
    /\ pc \in {"info", "packet", "done"} => index = input.first
    /\ pc = "info" => size >= MinWords
    /\ pc \in {"packet", "done"} => frame_size = input.size

\* A whole frame is found, and what has been taken of it are its first packets.
WholeOK ==
  input.state = "whole" =>
    /\ pc \notin {"index_error", "runtime_error"}
    /\ pc = "packet" =>
         /\ Len(m_packets) < Len(input.sent)
         /\ packet_offset = input.sent[Len(m_packets) + 1].at
    /\ pc = "done" => Len(m_packets) = Len(input.sent)
    /\ \A k \in 1 .. Len(m_packets) : m_packets[k] = input.sent[k]

\* One cut short is not taken, and the search for it begins only where there is
\* room for a frame.
CutOK ==
  input.state = "cut" =>
    /\ pc \notin {"packet", "done"}
    /\ pc = "scan" /\ input.first = 0 => size >= MinWords
    /\ pc = "runtime_error" => input.first > 0

SentInv == SearchOK /\ WholeOK /\ CutOK

\* t is s and n words of one kind after it.
RunPut(t, s, kind, n) ==
  /\ t \in Seq(Kinds) /\ Len(t) = Len(s) + n
  /\ \A k \in 1 .. Len(s) : t[k] = s[k]
  /\ \A k \in Len(s) + 1 .. Len(s) + n : t[k] = kind

\* A run of words of one kind, put after others.
LEMMA RunAfter ==
  ASSUME NEW s \in Seq(Kinds), NEW kind \in Kinds, NEW n \in Nat
  PROVE  RunPut(s \o Run(kind, n), s, kind, n)
<1> DEFINE r == Run(kind, n)
<1>1. r \in Seq(Kinds) /\ Len(r) = n /\ \A k \in 1 .. n : r[k] = kind
  BY DEF Run
<1> HIDE DEF r
<1>2. /\ s \o r \in Seq(Kinds) /\ Len(s \o r) = Len(s) + n
      /\ \A k \in 1 .. Len(s) + n : (s \o r)[k] = IF k <= Len(s) THEN s[k] ELSE r[k - Len(s)]
  BY <1>1, ConcatProperties
<1>3. Len(s) \in Nat
  OBVIOUS
<1>4. \A k \in 1 .. Len(s) : (s \o r)[k] = s[k]
  BY <1>2, <1>3
<1>5. ASSUME NEW k \in Len(s) + 1 .. Len(s) + n PROVE (s \o r)[k] = kind
  <2>1. k - Len(s) \in 1 .. n /\ k \in 1 .. Len(s) + n /\ ~(k <= Len(s))
    BY <1>3
  <2> QED BY <1>1, <1>2, <2>1
<1>6. RunPut(s \o r, s, kind, n)
  BY <1>2, <1>4, <1>5 DEF RunPut
<1> QED BY <1>6 DEF r

\* s is a header and six runs of words, as long as it says.
InPlace(s, a, b, c, d, n, e) ==
  /\ Len(s) = 1 + a + b + c + d + n + e
  /\ s[1] = "hdr"
  /\ \A k \in 1 + 1 .. 1 + a : s[k] = "sid"
  /\ \A k \in 1 + a + 1 .. 1 + a + b : s[k] = "cid"
  /\ \A k \in 1 + a + b + 1 .. 1 + a + b + c : s[k] = "tsi"
  /\ \A k \in 1 + a + b + c + 1 .. 1 + a + b + c + d : s[k] = "tsf"
  /\ \A k \in 1 + a + b + c + d + 1 .. 1 + a + b + c + d + n : s[k] = "data"
  /\ \A k \in 1 + a + b + c + d + n + 1 .. 1 + a + b + c + d + n + e : s[k] = "trailer"

\* Where each of six runs after a header is.
LEMMA SixRuns ==
  ASSUME NEW a \in Nat, NEW b \in Nat, NEW c \in Nat, NEW d \in Nat, NEW n \in Nat, NEW e \in Nat,
         NEW s0, NEW s1, NEW s2, NEW s3, NEW s4, NEW s5, NEW s6,
         Len(s0) = 1, s0[1] = "hdr",
         RunPut(s1, s0, "sid", a), RunPut(s2, s1, "cid", b), RunPut(s3, s2, "tsi", c),
         RunPut(s4, s3, "tsf", d), RunPut(s5, s4, "data", n), RunPut(s6, s5, "trailer", e)
  PROVE  InPlace(s6, a, b, c, d, n, e)
<1> DEFINE n1 == 1 + a
           n2 == n1 + b
           n3 == n2 + c
           n4 == n3 + d
           n5 == n4 + n
           n6 == n5 + e
<1>1. n1 \in Nat /\ n1 >= 1 /\ n2 \in Nat /\ n2 >= n1 /\ n3 \in Nat /\ n3 >= n2
      /\ n4 \in Nat /\ n4 >= n3 /\ n5 \in Nat /\ n5 >= n4
  OBVIOUS
<1>2. n1 = 1 + a /\ n2 = n1 + b /\ n3 = n2 + c /\ n4 = n3 + d /\ n5 = n4 + n /\ n6 = n5 + e
  OBVIOUS
<1> HIDE DEF n1, n2, n3, n4, n5, n6
<1>3. Len(s1) = n1 /\ s1[1] = "hdr" /\ \A k \in 1 + 1 .. n1 : s1[k] = "sid"
  BY <1>2 DEF RunPut
<1>4. /\ Len(s2) = n2
      /\ \A k \in 1 .. n1 : s2[k] = s1[k]
      /\ \A k \in n1 + 1 .. n2 : s2[k] = "cid"
  BY <1>2, <1>3 DEF RunPut
<1>5. /\ Len(s3) = n3
      /\ \A k \in 1 .. n2 : s3[k] = s2[k]
      /\ \A k \in n2 + 1 .. n3 : s3[k] = "tsi"
  BY <1>2, <1>4 DEF RunPut
<1>6. /\ Len(s4) = n4
      /\ \A k \in 1 .. n3 : s4[k] = s3[k]
      /\ \A k \in n3 + 1 .. n4 : s4[k] = "tsf"
  BY <1>2, <1>5 DEF RunPut
<1>7. /\ Len(s5) = n5
      /\ \A k \in 1 .. n4 : s5[k] = s4[k]
      /\ \A k \in n4 + 1 .. n5 : s5[k] = "data"
  BY <1>2, <1>6 DEF RunPut
<1>8. /\ Len(s6) = n6
      /\ \A k \in 1 .. n5 : s6[k] = s5[k]
      /\ \A k \in n5 + 1 .. n6 : s6[k] = "trailer"
  BY <1>2, <1>7 DEF RunPut
<1>9. \A k \in 1 .. n4 : s6[k] = s4[k]
  BY <1>1, <1>7, <1>8
<1>10. \A k \in 1 .. n3 : s6[k] = s3[k]
  BY <1>1, <1>6, <1>9
<1>11. \A k \in 1 .. n2 : s6[k] = s2[k]
  BY <1>1, <1>5, <1>10
<1>12. \A k \in 1 .. n1 : s6[k] = s1[k]
  BY <1>1, <1>4, <1>11
<1>13. s6[1] = "hdr" /\ \A k \in 1 + 1 .. n1 : s6[k] = "sid"
  BY <1>1, <1>3, <1>12
<1>14. \A k \in n1 + 1 .. n2 : s6[k] = "cid"
  BY <1>1, <1>4, <1>11
<1>15. \A k \in n2 + 1 .. n3 : s6[k] = "tsi"
  BY <1>1, <1>5, <1>10
<1>16. \A k \in n3 + 1 .. n4 : s6[k] = "tsf"
  BY <1>1, <1>6, <1>9
<1>17. \A k \in n4 + 1 .. n5 : s6[k] = "data"
  BY <1>1, <1>7, <1>8
<1> QED BY <1>8, <1>13, <1>14, <1>15, <1>16, <1>17 DEF InPlace, n1, n2, n3, n4, n5, n6

\* In L, a packet with this header and n words of samples, the words of each
\* field begin at the offset that get_field_offset computes.
FieldsLaidOut(L, h, n) ==
  LET off(f) == get_field_offset(h, f)
      e      == IF has_trailer(h) THEN 1 ELSE 0
  IN  /\ Len(L) = off(PAYLOAD) + n + e
      /\ L[1] = "hdr"
      /\ \A k \in off(STREAM_ID) + 1 .. off(CLASS_ID) : L[k] = "sid"
      /\ \A k \in off(CLASS_ID) + 1 .. off(TSI) : L[k] = "cid"
      /\ \A k \in off(TSI) + 1 .. off(TSF) : L[k] = "tsi"
      /\ \A k \in off(TSF) + 1 .. off(PAYLOAD) : L[k] = "tsf"
      /\ \A k \in off(PAYLOAD) + 1 .. off(PAYLOAD) + n : L[k] = "data"
      /\ \A k \in off(PAYLOAD) + n + 1 .. off(PAYLOAD) + n + e : L[k] = "trailer"

\* The accessors agree with the layout that the radio uses.
LEMMA LayoutRuns ==
  ASSUME NEW h \in Header, NEW n \in Nat
  PROVE  FieldsLaidOut(Layout(h, n), h, n)
<1> DEFINE a == IF h.type \in {1, 3, 4, 5} THEN 1 ELSE 0
           b == 2 * h.c
           c == IF h.tsi > 0 THEN 1 ELSE 0
           d == IF h.tsf > 0 THEN 2 ELSE 0
           e == IF h.type \notin {4, 5} THEN h.t ELSE 0
           s0 == <<"hdr">>
           s1 == s0 \o Run("sid", a)
           s2 == s1 \o Run("cid", b)
           s3 == s2 \o Run("tsi", c)
           s4 == s3 \o Run("tsf", d)
           s5 == s4 \o Run("data", n)
           s6 == s5 \o Run("trailer", e)
<1>0. a \in Nat /\ b \in Nat /\ c \in Nat /\ d \in Nat /\ e \in Nat
  BY DEF Header
<1>1. Layout(h, n) = s6
  BY DEF Layout
<1>2. /\ RunPut(s1, s0, "sid", a) /\ RunPut(s2, s1, "cid", b) /\ RunPut(s3, s2, "tsi", c)
      /\ RunPut(s4, s3, "tsf", d) /\ RunPut(s5, s4, "data", n) /\ RunPut(s6, s5, "trailer", e)
      /\ Len(s0) = 1 /\ s0[1] = "hdr"
  <2>1. /\ "sid" \in Kinds /\ "cid" \in Kinds /\ "tsi" \in Kinds /\ "tsf" \in Kinds
        /\ "data" \in Kinds /\ "trailer" \in Kinds
    BY DEF Kinds
  <2>2. s0 \in Seq(Kinds) /\ Len(s0) = 1 /\ s0[1] = "hdr"
    BY DEF Kinds
  <2> HIDE DEF a, b, c, d, e, s0
  <2>3. RunPut(s1, s0, "sid", a)
    BY <1>0, <2>1, <2>2, RunAfter
  <2> HIDE DEF s1
  <2>3a. s1 \in Seq(Kinds)
    BY <2>3 DEF RunPut
  <2>4. RunPut(s2, s1, "cid", b)
    BY <1>0, <2>1, <2>3a, RunAfter
  <2> HIDE DEF s2
  <2>4a. s2 \in Seq(Kinds)
    BY <2>4 DEF RunPut
  <2>5. RunPut(s3, s2, "tsi", c)
    BY <1>0, <2>1, <2>4a, RunAfter
  <2> HIDE DEF s3
  <2>5a. s3 \in Seq(Kinds)
    BY <2>5 DEF RunPut
  <2>6. RunPut(s4, s3, "tsf", d)
    BY <1>0, <2>1, <2>5a, RunAfter
  <2> HIDE DEF s4
  <2>6a. s4 \in Seq(Kinds)
    BY <2>6 DEF RunPut
  <2>7. RunPut(s5, s4, "data", n)
    BY <1>0, <2>1, <2>6a, RunAfter
  <2> HIDE DEF s5
  <2>7a. s5 \in Seq(Kinds)
    BY <2>7 DEF RunPut
  <2>8. RunPut(s6, s5, "trailer", e)
    BY <1>0, <2>1, <2>7a, RunAfter
  <2> QED BY <2>2, <2>3, <2>4, <2>5, <2>6, <2>7, <2>8
<1>3. e = IF has_trailer(h) THEN 1 ELSE 0
  BY DEF Header, has_trailer, PT_IF_CONTEXT, PT_EXTENSION_CONTEXT
<1>4. /\ Width(h, STREAM_ID) = a /\ Width(h, CLASS_ID) = b
      /\ Width(h, TSI) = c /\ Width(h, TSF) = d
  <2>1. h.c \in 0 .. 1 /\ h.tsi \in 0 .. 3 /\ h.tsf \in 0 .. 3
    BY DEF Header
  <2> QED BY <2>1 DEF Width, has_stream_id, has_class_id, has_integer_timestamp,
       has_fractional_timestamp, STREAM_ID, CLASS_ID, TSI, TSF,
       PT_IF_DATA, PT_EXTENSION_DATA, PT_IF_CONTEXT, PT_EXTENSION_CONTEXT
<1> HIDE DEF a, b, c, d, e, s0, s1, s2, s3, s4, s5, s6
<1>5. /\ get_field_offset(h, STREAM_ID) = 1
      /\ get_field_offset(h, CLASS_ID) = 1 + a
      /\ get_field_offset(h, TSI) = 1 + a + b
      /\ get_field_offset(h, TSF) = 1 + a + b + c
      /\ get_field_offset(h, PAYLOAD) = 1 + a + b + c + d
  BY <1>0, <1>4 DEF get_field_offset, STREAM_ID, CLASS_ID, TSI, TSF, PAYLOAD, TRAILER
<1>6. InPlace(s6, a, b, c, d, n, e)
  BY <1>0, <1>2, SixRuns
<1> QED BY <1>1, <1>3, <1>5, <1>6 DEF InPlace, FieldsLaidOut

\* A packet begins with its header.
LEMMA LayoutHead ==
  ASSUME NEW h \in Header, NEW n \in Nat
  PROVE  Len(Layout(h, n)) \in Nat /\ Len(Layout(h, n)) >= 1 /\ Layout(h, n)[1] = "hdr"
<1>1. get_field_offset(h, PAYLOAD) \in Nat /\ get_field_offset(h, PAYLOAD) >= 1
  BY DEF get_field_offset, Width, STREAM_ID, CLASS_ID, TSI, TSF, PAYLOAD, TRAILER
<1>2. FieldsLaidOut(Layout(h, n), h, n)
  BY LayoutRuns
<1>3. /\ Len(Layout(h, n)) = get_field_offset(h, PAYLOAD) + n + (IF has_trailer(h) THEN 1 ELSE 0)
      /\ Layout(h, n)[1] = "hdr"
  BY <1>2 DEF FieldsLaidOut
<1> QED BY <1>1, <1>3

\* A packet of the radio begins with its header.
LEMMA PacketStart ==
  ASSUME NEW i, NEW p \in Packet, i.first \in Nat, PacketSent(i, p)
  PROVE  /\ p.h.type <= 5 /\ p.h.size > 0
         /\ i.words[i.first + p.at + 1].h = p.h
         /\ i.words[i.first + p.at + 1].kind = "hdr"
<1>1. p.h \in Header /\ p.at \in Nat /\ p.h.size \in Nat
  BY DEF Packet, Header
<1>2. PICK n \in 0 .. p.h.size :
        /\ p.h.size = Len(Layout(p.h, n))
        /\ \A w \in 1 .. p.h.size : i.words[i.first + p.at + w].kind = Layout(p.h, n)[w]
  BY DEF PacketSent
<1>3. Layout(p.h, n)[1] = "hdr" /\ Len(Layout(p.h, n)) >= 1 /\ n \in Nat
  BY <1>1, LayoutHead
<1> QED BY <1>1, <1>2, <1>3 DEF PacketSent

\* What is known of the block of a call.
LEMMA BlockSent ==
  ASSUME TypeOK, input \in Inputs
  PROVE  /\ input.first \in Nat /\ input.size \in Nat /\ input.words \in Seq(Word)
         /\ input.sent \in Seq(Packet)
         /\ Len(input.words) \in Nat /\ Len(input.sent) \in Nat
         /\ input.state \in {"whole", "cut", "torn"}
         /\ input.state # "torn" => HeadSent(input)
         /\ input.state = "whole" => FrameSent(input)
         /\ input.state = "cut" => input.first + input.size > Len(input.words)
<1>1. input \in Input
  BY DEF TypeOK
<1> QED BY <1>1, SentAssumption DEF Input, Packet

\* The call does not change.
LEMMA InputKept == Spec => [](input \in Inputs)
<1>1. Init => input \in Inputs
  BY DEF Init
<1>2. input \in Inputs /\ [Next]_vars => (input \in Inputs)'
  BY DEF Next, CheckSize, FindAlignment, ReadFrameInfo, TakeFrame, ParsePacket, TakePacket,
     vars
<1> QED BY <1>1, <1>2, PTL DEF Spec

LEMMA InitSent == Init /\ Inv => SentInv
<1> SUFFICES ASSUME Init, Inv PROVE SentInv
  OBVIOUS
<1>1. input.first \in Nat
  BY BlockSent DEF Init, Inv
<1> QED BY <1>1 DEF Init, SentInv, SearchOK, WholeOK, CutOK

\* Checking the size of the block and looking for the alignment word.
LEMMA SearchSent ==
  ASSUME Inv, input \in Inputs, SentInv, CheckSize \/ FindAlignment
  PROVE  SentInv'
<1>1. /\ input.first \in Nat /\ input.size \in Nat
      /\ index \in Nat /\ size \in Nat /\ Len(input.words) \in Nat
      /\ index + size = Len(input.words)
      /\ pc \in {"enter", "scan"} => m_packets = <<>>
      /\ UNCHANGED <<input, frame_size, packet_offset, m_packets>>
  BY BlockSent DEF Inv, TypeOK, SizesOK, CheckSize, FindAlignment
<1>2. input.state = "whole" => input.first + input.size <= Len(input.words) /\ input.size >= 5
  BY BlockSent DEF Inv, FrameSent, HeadSent
<1>3. CASE CheckSize
  <2>1. pc = "enter" /\ UNCHANGED <<index, size>>
        /\ pc' = IF size < MinWords THEN "index_error" ELSE "scan"
    BY <1>3 DEF CheckSize
  <2>2. SearchOK'
    BY <1>1, <2>1 DEF SentInv, SearchOK
  <2>3. WholeOK'
    <3>1. input.state = "whole" => index <= input.first
      BY DEF SentInv, SearchOK
    <3>2. input.state = "whole" => size >= MinWords
      BY <1>1, <1>2, <3>1 DEF MinWords
    <3> QED BY <1>1, <2>1, <3>2 DEF WholeOK, MinWords
  <2>4. CutOK'
    BY <1>1, <2>1 DEF CutOK, MinWords
  <2> QED BY <2>2, <2>3, <2>4 DEF SentInv
<1>4. CASE FindAlignment
  <2>1. pc = "scan"
    BY <1>4 DEF FindAlignment
  <2>2. CASE /\ size >= MinWords /\ ~IsKind(index, "faw")
             /\ index' = index + 1 /\ size' = size - 1 /\ pc' = pc
    <3>1. input.state # "torn" => index # input.first
      <4> SUFFICES ASSUME input.state # "torn", index = input.first PROVE FALSE
        OBVIOUS
      <4>1. index + 1 \in 1 .. Len(input.words)
        BY <1>1, <2>2 DEF MinWords
      <4>2. input.words[index + 1].kind = "faw"
        BY <4>1, BlockSent DEF Inv, HeadSent
      <4> QED BY <1>1, <2>2, <4>1, <4>2 DEF IsKind
    <3>2. SearchOK'
      BY <1>1, <2>1, <2>2, <3>1 DEF SentInv, SearchOK
    <3>3. WholeOK'
      BY <1>1, <2>1, <2>2 DEF SentInv, WholeOK
    <3>4. CutOK'
      BY <1>1, <2>1, <2>2, <3>1 DEF SentInv, SearchOK, CutOK
    <3> QED BY <3>2, <3>3, <3>4 DEF SentInv
  <2>3. CASE size < MinWords /\ pc' = "runtime_error" /\ UNCHANGED <<index, size>>
    <3>1. SearchOK'
      BY <1>1, <2>3 DEF SentInv, SearchOK
    <3>2. WholeOK'
      BY <1>1, <1>2, <2>3 DEF SentInv, SearchOK, WholeOK, MinWords
    <3>3. CutOK'
      BY <1>1, <2>1, <2>3 DEF SentInv, CutOK, MinWords
    <3> QED BY <3>1, <3>2, <3>3 DEF SentInv
  <2>4. CASE /\ size >= MinWords /\ IsKind(index, "faw") /\ pc' = "info"
             /\ UNCHANGED <<index, size>>
    <3>1. input.state # "torn" => index = input.first
      <4> SUFFICES ASSUME input.state # "torn", index < input.first PROVE FALSE
        BY <1>1 DEF SentInv, SearchOK
      <4>1. index + 1 \in 1 .. Len(input.words) /\ index + 1 <= input.first
        BY <1>1, <2>4 DEF IsKind
      <4>2. input.words[index + 1].kind # "faw"
        BY <4>1, BlockSent DEF Inv, HeadSent
      <4> QED BY <2>4, <4>2 DEF IsKind
    <3>2. SearchOK'
      BY <1>1, <2>4, <3>1 DEF SearchOK
    <3>3. WholeOK' /\ CutOK'
      BY <1>1, <2>1, <2>4 DEF WholeOK, CutOK
    <3> QED BY <3>2, <3>3 DEF SentInv
  <2> QED BY <1>4, <2>2, <2>3, <2>4 DEF FindAlignment
<1> QED BY <1>3, <1>4

\* Taking a frame, which the info word says the size of: a whole one fits, one
\* that was cut short does not.
LEMMA FrameIsSent ==
  ASSUME Inv, input \in Inputs, SentInv, ReadFrameInfo
  PROVE  SentInv'
<1>1. /\ input.first \in Nat /\ input.size \in Nat
      /\ index \in Nat /\ size \in Nat /\ Len(input.words) \in Nat
      /\ index + size = Len(input.words)
  BY BlockSent DEF Inv, TypeOK, SizesOK
<1>2. PICK n \in ReadFrameSize(index + 1) : TakeFrame(n, n <= size)
  BY DEF ReadFrameInfo
<1>3. /\ pc = "info" /\ frame_size' = n /\ m_packets = <<>> /\ n \in Nat
      /\ \/ n <= size /\ packet_offset' = 2 /\ pc' = "packet"
         \/ ~(n <= size) /\ pc' = "index_error"
      /\ UNCHANGED <<input, index, size, m_packets>>
  BY <1>1, <1>2, FrameSizeType DEF TakeFrame, Inv, SizesOK
<1>4. input.state # "torn" => index = input.first
  BY <1>3 DEF SentInv, SearchOK
<1>5. CASE input.state # "torn"
  <2>1. index + 2 \in 1 .. Len(input.words) /\ index + 2 = input.first + 2
    BY <1>1, <1>3, <1>4, <1>5 DEF SentInv, SearchOK, MinWords
  <2>2. input.words[index + 2].kind = "info" /\ input.words[index + 2].h.size = input.size
    BY <1>5, <2>1, BlockSent DEF Inv, HeadSent
  <2>3. n = input.size
    BY <1>1, <1>2, <2>1, <2>2 DEF ReadFrameSize, IsKind
  <2>4. SearchOK'
    BY <1>1, <1>3, <1>4, <2>3 DEF SearchOK
  <2>5. WholeOK'
    <3> SUFFICES ASSUME input.state = "whole" PROVE WholeOK'
      BY <1>3 DEF WholeOK
    <3>1. /\ input.first + input.size <= Len(input.words)
          /\ Len(input.sent) > 0 /\ input.sent[1].at = 2
      BY BlockSent DEF Inv, FrameSent
    <3>2. n <= size
      BY <1>1, <1>4, <2>3, <3>1
    <3> QED BY <1>3, <3>1, <3>2 DEF WholeOK
  <2>6. CutOK'
    <3> SUFFICES ASSUME input.state = "cut" PROVE CutOK'
      BY <1>3 DEF CutOK
    <3>1. input.first + input.size > Len(input.words)
      BY BlockSent DEF Inv
    <3>2. ~(n <= size)
      BY <1>1, <1>4, <2>3, <3>1
    <3> QED BY <1>3, <3>2 DEF CutOK
  <2> QED BY <2>4, <2>5, <2>6 DEF SentInv
<1>6. CASE input.state = "torn"
  BY <1>3, <1>6 DEF SentInv, SearchOK, WholeOK, CutOK
<1> QED BY <1>5, <1>6

\* Taking a packet: the next one of a whole frame.
LEMMA PacketIsSent ==
  ASSUME Inv, input \in Inputs, SentInv, ParsePacket
  PROVE  SentInv'
<1>1. PICK h \in ReadHeader(index + packet_offset) : TakePacket(h, Remaining, "done")
  BY DEF ParsePacket
<1>2. /\ pc = "packet" /\ pc' \in {"packet"} \cup Ended
      /\ UNCHANGED <<input, index, size, frame_size>>
  BY <1>1 DEF TakePacket, Ended
<1>3. SearchOK'
  BY <1>2 DEF SentInv, SearchOK, Ended
<1>4. CutOK'
  BY <1>2 DEF SentInv, CutOK
<1>5. ASSUME input.state = "whole" PROVE WholeOK'
  <2> DEFINE n == Len(m_packets)  p == input.sent[n + 1]
  <2>0. /\ input.sent \in Seq(Packet) /\ Len(input.sent) \in Nat /\ Len(input.words) \in Nat
        /\ input.first \in Nat /\ input.size \in Nat
    BY BlockSent DEF Inv
  <2>1. /\ m_packets \in Seq(Packet) /\ n \in Nat /\ n < Len(input.sent)
        /\ packet_offset = p.at /\ n + 1 \in 1 .. Len(input.sent)
        /\ \A k \in 1 .. n : m_packets[k] = input.sent[k]
        /\ index = input.first /\ frame_size = input.size
    <3>1. m_packets \in Seq(Packet) /\ n \in Nat
      BY DEF Inv, TypeOK, Packet
    <3>2. n < Len(input.sent) /\ packet_offset = p.at
          /\ \A k \in 1 .. n : m_packets[k] = input.sent[k]
      BY <1>2, <1>5 DEF SentInv, WholeOK
    <3>3. index = input.first /\ frame_size = input.size
      BY <1>2, <1>5 DEF SentInv, SearchOK
    <3> QED BY <2>0, <3>1, <3>2, <3>3
  <2>2. /\ p \in Packet /\ p.at \in Nat /\ p.h \in Header /\ p.h.size \in Nat /\ p.h.type \in Nat
        /\ input.first \in Nat /\ input.size \in Nat
    <3>1. p \in Packet
      BY <2>0, <2>1
    <3> HIDE DEF p
    <3> QED BY <2>0, <3>1 DEF Packet, Header
  <2>3. /\ p.at + p.h.size < input.size /\ PacketSent(input, p)
        /\ input.first + input.size <= Len(input.words)
        /\ n + 2 \in 1 .. Len(input.sent) => input.sent[n + 2].at = p.at + p.h.size
        /\ n + 1 = Len(input.sent) => p.at + p.h.size + 1 = input.size
    <3>1. FrameSent(input)
      BY <1>5, BlockSent DEF Inv
    <3>2. n + 2 \in 1 .. Len(input.sent) => input.sent[n + 2].at = p.at + p.h.size
      <4> SUFFICES ASSUME n + 2 \in 1 .. Len(input.sent)
                   PROVE  input.sent[n + 2].at = p.at + p.h.size
        OBVIOUS
      <4>1. n + 2 > 1 /\ (n + 2) - 1 = n + 1
        BY <2>1
      <4> QED BY <3>1, <4>1 DEF FrameSent
    <3> QED BY <2>1, <3>1, <3>2 DEF FrameSent
  <2>4. /\ p.h.type <= 5 /\ p.h.size > 0
        /\ input.words[input.first + p.at + 1].h = p.h
        /\ input.words[input.first + p.at + 1].kind = "hdr"
    BY <2>2, <2>3, PacketStart
  <2>5. h = p.h
    <3>1. input.first + p.at < Len(input.words)
      <4> HIDE DEF p, n
      <4>1. p.at + p.h.size < input.size /\ input.first + input.size <= Len(input.words)
        BY <2>3
      <4>2. p.at \in Nat /\ p.h.size \in Nat
        BY <2>2
      <4> QED BY <2>0, <4>1, <4>2
    <3>2. input.first + p.at = index + packet_offset
      BY <2>1
    <3> QED BY <1>1, <2>4, <3>1, <3>2 DEF ReadHeader, IsKind
  <2>6. h.size <= Remaining
    <3>1. /\ packet_offset + h.size + 1 <= frame_size
          /\ packet_offset \in Nat /\ h.size \in Nat /\ frame_size \in Nat
      BY <2>1, <2>2, <2>3, <2>5
    <3>2. frame_size >= packet_offset /\ frame_size - packet_offset >= 1
      BY <3>1
    <3>3. Remaining = frame_size - packet_offset - 1
      BY <3>1, <3>2 DEF Remaining, Minus
    <3> QED BY <3>1, <3>3
  <2>7. /\ m_packets' = Append(m_packets, [at |-> packet_offset, h |-> h])
        /\ packet_offset' = p.at + p.h.size
        /\ pc' = IF p.at + p.h.size + 1 < input.size THEN "packet" ELSE "done"
    <3>1. h.type <= PT_MAX /\ ~(h.type > PT_MAX) /\ h.size > 0 /\ ~(h.size > Remaining) /\ h.size # 0
      <4>1. Remaining \in Int
        BY WordLimitAssumption DEF Remaining, Minus, Inv, TypeOK
      <4>2. h.type \in Nat /\ h.type <= 5 /\ h.size \in Nat /\ h.size > 0
        BY <2>2, <2>4, <2>5
      <4> QED BY <2>6, <4>1, <4>2 DEF PT_MAX
    <3>2. /\ m_packets' = Append(m_packets, [at |-> packet_offset, h |-> h])
          /\ packet_offset' = packet_offset + h.size
          /\ pc' = IF packet_offset + h.size + 1 < frame_size THEN "packet" ELSE "done"
      BY <1>1, <3>1 DEF TakePacket
    <3> QED BY <2>1, <2>5, <3>2
  <2>8. [at |-> packet_offset, h |-> h] = p
    BY <2>1, <2>2, <2>5 DEF Packet
  <2>9. /\ Len(m_packets') = n + 1
        /\ \A k \in 1 .. n + 1 : m_packets'[k] = input.sent[k]
    <3>1. m_packets' = Append(m_packets, p)
      BY <2>7, <2>8
    <3> HIDE DEF p
    <3>2. /\ Len(m_packets') = n + 1 /\ m_packets'[n + 1] = p
          /\ \A k \in 1 .. n : m_packets'[k] = m_packets[k]
      BY <2>1, <2>2, <3>1
    <3>3. p = input.sent[n + 1]
      BY DEF p
    <3> QED BY <2>1, <3>2, <3>3
  <2>10. CASE n + 1 = Len(input.sent)
    <3>1. p.at + p.h.size + 1 = input.size
      BY <2>3, <2>10
    <3>2. ~(p.at + p.h.size + 1 < input.size)
      BY <2>2, <3>1
    <3>3. pc' = "done"
      BY <2>7, <3>2
    <3> QED BY <1>2, <2>9, <2>10, <3>3 DEF WholeOK
  <2>11. CASE n + 2 \in 1 .. Len(input.sent)
    <3>1. input.sent[n + 2].at + input.sent[n + 2].h.size < input.size
          /\ input.sent[n + 2].h.size > 0 /\ input.sent[n + 2] \in Packet
      BY <1>5, <2>11, BlockSent, PacketStart DEF Inv, FrameSent
    <3>2. p.at + p.h.size + 1 < input.size
      <4> DEFINE q == input.sent[n + 2]  z == p.at + p.h.size
      <4>1. q.at = z
        BY <2>3, <2>11
      <4> HIDE DEF p
      <4>2. z \in Nat /\ input.size \in Nat
        BY <2>2
      <4>3. q.h.size \in Nat /\ q.h.size > 0 /\ q.at + q.h.size < input.size
        BY <3>1 DEF Packet, Header
      <4> HIDE DEF q, z
      <4>4. z + 1 < input.size
        BY <4>1, <4>2, <4>3
      <4> QED BY <4>4 DEF z
    <3>3. pc' = "packet" /\ packet_offset' = input.sent[n + 2].at
      BY <2>3, <2>7, <2>11, <3>2
    <3>4. n + 1 < Len(input.sent) /\ (n + 1) + 1 = n + 2
      BY <2>0, <2>1, <2>11
    <3> QED BY <1>2, <2>9, <3>3, <3>4 DEF WholeOK
  <2> QED BY <2>1, <2>10, <2>11, BlockSent DEF Inv
<1> QED BY <1>2, <1>3, <1>4, <1>5 DEF SentInv, WholeOK

\* No step of a call leaves it.
LEMMA NextSent ==
  ASSUME Inv, input \in Inputs, SentInv, [Next]_vars
  PROVE  SentInv'
<1>1. CASE CheckSize \/ FindAlignment BY <1>1, SearchSent
<1>2. CASE ReadFrameInfo BY <1>2, FrameIsSent
<1>3. CASE ParsePacket BY <1>3, PacketIsSent
<1>4. CASE UNCHANGED vars
  BY <1>4 DEF vars, SentInv, SearchOK, WholeOK, CutOK
<1> QED BY <1>1, <1>2, <1>3, <1>4 DEF Next

\* What the parser has is what the radio sent.
LEMMA SentInvariance == Spec => [](Inv /\ input \in Inputs /\ SentInv)
<1>1. Inv /\ input \in Inputs /\ SentInv /\ [Next]_vars => SentInv'
  BY NextSent
<1> QED BY <1>1, InitSent, Invariance, InputKept, PTL DEF Spec

\* VRLFrame::parse finds a frame that lies in the block as a whole where it
\* begins and takes it apart into the packets of the radio, none left out and
\* none added; it never takes a frame whose end has not arrived, and when such
\* a frame begins the block it asks for the rest.
THEOREM ParsedIsSent == Spec => []ParsedAsSent
<1>1. Inv /\ input \in Inputs /\ SentInv => ParsedAsSent
  <2> SUFFICES ASSUME Inv, input \in Inputs, SentInv PROVE ParsedAsSent
    OBVIOUS
  <2>1. ASSUME input.state = "whole", pc = "done"
        PROVE  index = input.first /\ frame_size = input.size /\ m_packets = input.sent
    <3>1. m_packets \in Seq(Packet) /\ input.sent \in Seq(Packet)
      BY BlockSent DEF Inv, TypeOK, Packet
    <3>2. Len(m_packets) = Len(input.sent) /\ \A k \in 1 .. Len(m_packets) : m_packets[k] = input.sent[k]
      BY <2>1 DEF SentInv, WholeOK
    <3>3. m_packets = input.sent
      BY <3>1, <3>2, SeqEqual
    <3> QED BY <2>1, <3>3 DEF SentInv, SearchOK
  <2> QED BY <2>1 DEF ParsedAsSent, SentInv, WholeOK, CutOK
<1> QED BY <1>1, SentInvariance, PTL

\* The words of a packet of the radio, by the offsets that the accessors compute.
LEMMA PacketFields ==
  ASSUME NEW i, NEW p \in Packet, PacketSent(i, p)
  PROVE  \E n \in Nat :
           /\ p.h.size = get_field_offset(p.h, PAYLOAD) + n + (IF has_trailer(p.h) THEN 1 ELSE 0)
           /\ \E L : /\ FieldsLaidOut(L, p.h, n)
                     /\ \A w \in 1 .. p.h.size : i.words[i.first + p.at + w].kind = L[w]
<1>1. p.h \in Header /\ p.h.size \in Nat
  BY DEF Packet, Header
<1>2. PICK n \in 0 .. p.h.size :
        /\ p.h.size = Len(Layout(p.h, n))
        /\ \A w \in 1 .. p.h.size : i.words[i.first + p.at + w].kind = Layout(p.h, n)[w]
  BY DEF PacketSent
<1>3. n \in Nat
  BY <1>1
<1>4. FieldsLaidOut(Layout(p.h, n), p.h, n)
  BY <1>1, <1>3, LayoutRuns
<1>5. Len(Layout(p.h, n)) = get_field_offset(p.h, PAYLOAD) + n + (IF has_trailer(p.h) THEN 1 ELSE 0)
  BY <1>4 DEF FieldsLaidOut
<1> QED BY <1>2, <1>3, <1>4, <1>5

\* The offsets follow one another, each by the width of the field before it.
LEMMA Offsets ==
  ASSUME NEW h \in Header
  PROVE  LET off(f) == get_field_offset(h, f)
         IN  /\ off(STREAM_ID) = 1
             /\ off(CLASS_ID) = off(STREAM_ID) + Width(h, STREAM_ID)
             /\ off(TSI) = off(CLASS_ID) + Width(h, CLASS_ID)
             /\ off(TSF) = off(TSI) + Width(h, TSI)
             /\ off(PAYLOAD) = off(TSF) + Width(h, TSF)
             /\ \A f \in STREAM_ID .. TSF : Width(h, f) \in Nat
<1>1. \A f \in STREAM_ID .. TSF : Width(h, f) \in Nat
  BY DEF Width, STREAM_ID, CLASS_ID, TSI, TSF
<1> QED BY <1>1 DEF get_field_offset, STREAM_ID, CLASS_ID, TSI, TSF, PAYLOAD, TRAILER

\* The words of the packet are words of the block.
LEMMA PacketWords ==
  ASSUME Inv, input \in Inputs, NEW p \in Packet, NEW L,
         index = input.first, input.first + p.at + p.h.size <= Len(input.words),
         \A w \in 1 .. p.h.size : input.words[input.first + p.at + w].kind = L[w]
  PROVE  \A k \in 0 .. p.h.size - 1 : \A kind :
           IsKind(index + p.at + k, kind) <=> L[k + 1] = kind
<1> SUFFICES ASSUME NEW k \in 0 .. p.h.size - 1, NEW kind
             PROVE  IsKind(index + p.at + k, kind) <=> L[k + 1] = kind
  OBVIOUS
<1>1. /\ p.at \in Nat /\ p.h.size \in Nat /\ input.first \in Nat /\ Len(input.words) \in Nat
  BY BlockSent DEF Inv, Packet, Header
<1>2. /\ k + 1 \in 1 .. p.h.size /\ index + p.at + k < Len(input.words)
      /\ index + p.at + k + 1 = input.first + p.at + (k + 1)
  <2> DEFINE a == p.at  m == p.h.size  l == Len(input.words)  g == input.first
  <2>1. a \in Nat /\ m \in Nat /\ g \in Nat /\ l \in Nat /\ k \in 0 .. m - 1
        /\ index = g /\ g + a + m <= l
    BY <1>1
  <2> HIDE DEF a, m, l, g
  <2>2. k + 1 \in 1 .. m /\ index + a + k < l /\ index + a + k + 1 = g + a + (k + 1)
    BY <2>1
  <2> QED BY <2>2 DEF a, m, l, g
<1>3. input.words[index + p.at + k + 1].kind = L[k + 1]
  BY <1>2
<1> QED BY <1>2, <1>3 DEF IsKind

\* The fields that a packet with header h has.
LEMMA FieldCases ==
  ASSUME NEW h, NEW f \in Fields(h)
  PROVE  (f \in STREAM_ID .. TSF /\ Width(h, f) > 0) \/ (f = TRAILER /\ has_trailer(h))
<1>1. f \in {g \in STREAM_ID .. TSF : Width(h, g) > 0}
      \/ f \in (IF has_trailer(h) THEN {TRAILER} ELSE {})
  BY DEF Fields
<1>2. CASE f \in {g \in STREAM_ID .. TSF : Width(h, g) > 0}
  BY <1>2
<1>3. CASE f \in (IF has_trailer(h) THEN {TRAILER} ELSE {})
  <2>1. CASE has_trailer(h)
    BY <1>3, <2>1
  <2>2. CASE ~has_trailer(h)
    BY <1>3, <2>2
  <2> QED BY <2>1, <2>2
<1> QED BY <1>1, <1>2, <1>3

\* The word of each field that is there, and the samples, are where the
\* accessors of the packet look for them.
LEMMA AccessorsAgree ==
  ASSUME NEW h \in Header, NEW n \in Nat, NEW L, FieldsLaidOut(L, h, n),
         h.size = get_field_offset(h, PAYLOAD) + n + (IF has_trailer(h) THEN 1 ELSE 0)
  PROVE  /\ \A f \in Fields(h) :
              /\ get_field_offset(h, f) \in 0 .. h.size - 1
              /\ L[get_field_offset(h, f) + 1] = KindOf[f]
         /\ \A k \in 0 .. h.size - 1 :
              L[k + 1] = "data" <=>
                k \in get_field_offset(h, PAYLOAD) ..
                        get_field_offset(h, PAYLOAD) + get_payload_size(h) - 1
         /\ get_field_offset(h, PAYLOAD) + get_payload_size(h) <= h.size
         /\ get_field_offset(h, PAYLOAD) \in Nat /\ get_payload_size(h) \in Nat
<1> DEFINE o0 == get_field_offset(h, STREAM_ID)
           o1 == get_field_offset(h, CLASS_ID)
           o2 == get_field_offset(h, TSI)
           o3 == get_field_offset(h, TSF)
           o4 == get_field_offset(h, PAYLOAD)
           e  == IF has_trailer(h) THEN 1 ELSE 0
<1>1. /\ o0 = 1 /\ o1 = o0 + Width(h, STREAM_ID) /\ o2 = o1 + Width(h, CLASS_ID)
      /\ o3 = o2 + Width(h, TSI) /\ o4 = o3 + Width(h, TSF)
      /\ \A f \in STREAM_ID .. TSF : Width(h, f) \in Nat
  BY Offsets
<1>2. /\ Width(h, STREAM_ID) \in Nat /\ Width(h, CLASS_ID) \in Nat
      /\ Width(h, TSI) \in Nat /\ Width(h, TSF) \in Nat
  BY <1>1 DEF STREAM_ID, CLASS_ID, TSI, TSF
<1>3. e \in Nat /\ e <= 1
  OBVIOUS
<1>4. /\ L[1] = "hdr"
      /\ \A k \in o0 + 1 .. o1 : L[k] = "sid"
      /\ \A k \in o1 + 1 .. o2 : L[k] = "cid"
      /\ \A k \in o2 + 1 .. o3 : L[k] = "tsi"
      /\ \A k \in o3 + 1 .. o4 : L[k] = "tsf"
      /\ \A k \in o4 + 1 .. o4 + n : L[k] = "data"
      /\ \A k \in o4 + n + 1 .. o4 + n + e : L[k] = "trailer"
  BY DEF FieldsLaidOut
<1>5. h.size = o4 + n + e
  OBVIOUS
<1>6. get_field_offset(h, TRAILER) = Minus(h.size, 1)
  BY DEF get_field_offset
<1>7. get_payload_size(h) = Minus(Minus(h.size, o4), e)
  BY DEF get_payload_size
<1>8. has_trailer(h) => e = 1
  OBVIOUS
<1> HIDE DEF o0, o1, o2, o3, o4, e
<1>9. /\ o0 \in Nat /\ o1 \in Nat /\ o2 \in Nat /\ o3 \in Nat /\ o4 \in Nat
      /\ 1 = o0 /\ o0 <= o1 /\ o1 <= o2 /\ o2 <= o3 /\ o3 <= o4
      /\ h.size \in Nat /\ o4 <= h.size
  BY <1>1, <1>2, <1>3, <1>5
<1>10. get_payload_size(h) = n
  <2>1. Minus(h.size, o4) = n + e
    BY <1>3, <1>5, <1>9 DEF Minus
  <2>2. Minus(n + e, e) = n
    BY <1>3 DEF Minus
  <2> QED BY <1>7, <2>1, <2>2
<1>11. get_field_offset(h, TRAILER) = h.size - 1
  BY <1>6, <1>9 DEF Minus
<1>12. /\ KindOf[STREAM_ID] = "sid" /\ KindOf[CLASS_ID] = "cid" /\ KindOf[TSI] = "tsi"
       /\ KindOf[TSF] = "tsf" /\ KindOf[TRAILER] = "trailer"
  BY DEF KindOf, STREAM_ID, CLASS_ID, TSI, TSF, PAYLOAD, TRAILER
<1>13. ASSUME NEW f \in Fields(h)
       PROVE  /\ get_field_offset(h, f) \in 0 .. h.size - 1
              /\ L[get_field_offset(h, f) + 1] = KindOf[f]
  <2>1. CASE f = STREAM_ID /\ Width(h, STREAM_ID) > 0
    <3>1. o0 + 1 \in o0 + 1 .. o1 /\ o0 \in 0 .. h.size - 1
      BY <1>1, <1>2, <1>9, <2>1
    <3>2. L[o0 + 1] = KindOf[f]
      BY <1>4, <1>12, <2>1, <3>1
    <3> QED BY <2>1, <3>1, <3>2 DEF o0
  <2>2. CASE f = CLASS_ID /\ Width(h, CLASS_ID) > 0
    <3>1. o1 + 1 \in o1 + 1 .. o2 /\ o1 \in 0 .. h.size - 1
      BY <1>1, <1>2, <1>9, <2>2
    <3>2. L[o1 + 1] = KindOf[f]
      BY <1>4, <1>12, <2>2, <3>1
    <3> QED BY <2>2, <3>1, <3>2 DEF o1
  <2>3. CASE f = TSI /\ Width(h, TSI) > 0
    <3>1. o2 + 1 \in o2 + 1 .. o3 /\ o2 \in 0 .. h.size - 1
      BY <1>1, <1>2, <1>9, <2>3
    <3>2. L[o2 + 1] = KindOf[f]
      BY <1>4, <1>12, <2>3, <3>1
    <3> QED BY <2>3, <3>1, <3>2 DEF o2
  <2>4. CASE f = TSF /\ Width(h, TSF) > 0
    <3>1. o3 + 1 \in o3 + 1 .. o4 /\ o3 \in 0 .. h.size - 1
      BY <1>1, <1>2, <1>9, <2>4
    <3>2. L[o3 + 1] = KindOf[f]
      BY <1>4, <1>12, <2>4, <3>1
    <3> QED BY <2>4, <3>1, <3>2 DEF o3
  <2>5. CASE f = TRAILER /\ has_trailer(h)
    <3>1. h.size - 1 + 1 \in o4 + n + 1 .. o4 + n + e /\ h.size - 1 \in 0 .. h.size - 1
      BY <1>5, <1>8, <1>9, <2>5
    <3>2. L[h.size - 1 + 1] = "trailer"
      BY <1>4, <3>1
    <3> QED BY <1>11, <1>12, <2>5, <3>1, <3>2
  <2>6. (f \in STREAM_ID .. TSF /\ Width(h, f) > 0) \/ (f = TRAILER /\ has_trailer(h))
    BY FieldCases
  <2>7. STREAM_ID .. TSF = {STREAM_ID, CLASS_ID, TSI, TSF}
    BY DEF STREAM_ID, CLASS_ID, TSI, TSF
  <2> QED BY <2>1, <2>2, <2>3, <2>4, <2>5, <2>6, <2>7
<1>14. ASSUME NEW k \in 0 .. h.size - 1
       PROVE  L[k + 1] = "data" <=> k \in o4 .. o4 + n - 1
  <2>1. CASE k < o4
    <3>1. k + 1 = 1 \/ k + 1 \in o0 + 1 .. o1 \/ k + 1 \in o1 + 1 .. o2
          \/ k + 1 \in o2 + 1 .. o3 \/ k + 1 \in o3 + 1 .. o4
      BY <1>9, <2>1
    <3>2. L[k + 1] \in {"hdr", "sid", "cid", "tsi", "tsf"}
      BY <1>4, <3>1
    <3> QED BY <1>9, <2>1, <3>2
  <2>2. CASE k \in o4 .. o4 + n - 1
    <3>1. k + 1 \in o4 + 1 .. o4 + n
      BY <1>9, <2>2
    <3> QED BY <1>4, <2>2, <3>1
  <2>3. CASE k >= o4 + n
    <3>1. k + 1 \in o4 + n + 1 .. o4 + n + e
      BY <1>5, <1>9, <1>3, <2>3
    <3>2. L[k + 1] = "trailer"
      BY <1>4, <3>1
    <3> QED BY <1>9, <2>3, <3>2
  <2> QED BY <1>9, <2>1, <2>2, <2>3
<1>15. o4 + n <= h.size
  BY <1>3, <1>5, <1>9
<1> QED BY <1>9, <1>10, <1>13, <1>14, <1>15 DEF o4

\* The accessors of every packet of a whole frame read the words that the radio
\* put there for them: get_field_offset and get_payload_size are right for every
\* combination of optional fields.
THEOREM FieldsAreInPlace == Spec => []FieldsInPlace
<1>1. Inv /\ input \in Inputs /\ SentInv => FieldsInPlace
  <2> SUFFICES ASSUME Inv, input \in Inputs, SentInv, input.state = "whole", pc = "done",
                      NEW i \in 1 .. Len(m_packets)
               PROVE  LET h        == m_packets[i].h
                          place(f) == index + m_packets[i].at + get_field_offset(h, f)
                          payload  == {k \in 0 .. h.size - 1 : IsKind(index + m_packets[i].at + k, "data")}
                      IN  /\ \A f \in Fields(h) : IsKind(place(f), KindOf[f])
                          /\ payload = get_field_offset(h, PAYLOAD) ..
                                         get_field_offset(h, PAYLOAD) + get_payload_size(h) - 1
    BY DEF FieldsInPlace
  <2> DEFINE p == m_packets[i]
  <2>1. /\ input.sent \in Seq(Packet) /\ Len(input.words) \in Nat /\ input.first \in Nat
        /\ input.size \in Nat /\ FrameSent(input)
    BY BlockSent DEF Inv
  <2>2. i \in 1 .. Len(input.sent) /\ p = input.sent[i] /\ index = input.first
    BY DEF SentInv, SearchOK, WholeOK
  <2>3. p \in Packet
    BY <2>1, <2>2
  <2>4. PacketSent(input, p) /\ p.at + p.h.size < input.size
        /\ input.first + input.size <= Len(input.words)
    BY <2>1, <2>2 DEF FrameSent
  <2> HIDE DEF p
  <2>5. p.h \in Header /\ p.at \in Nat /\ p.h.size \in Nat
    BY <2>3 DEF Packet, Header
  <2>6. input.first + p.at + p.h.size <= Len(input.words)
    <3> DEFINE a == p.at  b == p.h.size  l == Len(input.words)  g == input.first  z == input.size
    <3>1. /\ a \in Nat /\ b \in Nat /\ g \in Nat /\ l \in Nat /\ z \in Nat
          /\ a + b < z /\ g + z <= l
      BY <2>1, <2>4, <2>5
    <3> HIDE DEF a, b, l, g, z
    <3>2. g + a + b <= l
      BY <3>1
    <3> QED BY <3>2 DEF a, b, l, g
  <2>7. PICK n \in Nat :
          /\ p.h.size = get_field_offset(p.h, PAYLOAD) + n + (IF has_trailer(p.h) THEN 1 ELSE 0)
          /\ \E L : /\ FieldsLaidOut(L, p.h, n)
                    /\ \A w \in 1 .. p.h.size : input.words[input.first + p.at + w].kind = L[w]
    BY <2>3, <2>4, PacketFields
  <2>8. PICK L : /\ FieldsLaidOut(L, p.h, n)
                 /\ \A w \in 1 .. p.h.size : input.words[input.first + p.at + w].kind = L[w]
    BY <2>7
  <2>9. \A k \in 0 .. p.h.size - 1 : \A kind :
          IsKind(index + p.at + k, kind) <=> L[k + 1] = kind
    BY <2>2, <2>3, <2>6, <2>8, PacketWords
  <2> DEFINE o == get_field_offset(p.h, PAYLOAD)  m == get_payload_size(p.h)
  <2>10. /\ \A f \in Fields(p.h) :
              /\ get_field_offset(p.h, f) \in 0 .. p.h.size - 1
              /\ L[get_field_offset(p.h, f) + 1] = KindOf[f]
         /\ \A k \in 0 .. p.h.size - 1 : L[k + 1] = "data" <=> k \in o .. o + m - 1
         /\ o + m <= p.h.size /\ o \in Nat /\ m \in Nat
    BY <2>5, <2>7, <2>8, AccessorsAgree
  <2>11. \A f \in Fields(p.h) : IsKind(index + p.at + get_field_offset(p.h, f), KindOf[f])
    BY <2>9, <2>10
  <2>12. {k \in 0 .. p.h.size - 1 : IsKind(index + p.at + k, "data")} = o .. o + m - 1
    <3> HIDE DEF o, m
    <3>1. \A k \in 0 .. p.h.size - 1 : IsKind(index + p.at + k, "data") <=> k \in o .. o + m - 1
      BY <2>9, <2>10
    <3>2. \A k \in o .. o + m - 1 : k \in 0 .. p.h.size - 1
      <4>1. o \in Nat /\ m \in Nat /\ o + m <= p.h.size
        BY <2>10
      <4> DEFINE b == p.h.size
      <4>2. b \in Nat /\ o + m <= b
        BY <2>5, <4>1
      <4> HIDE DEF b
      <4>3. \A k \in o .. o + m - 1 : k \in 0 .. b - 1
        BY <4>1, <4>2
      <4> QED BY <4>3 DEF b
    <3> QED BY <3>1, <3>2
  <2> QED BY <2>11, <2>12 DEF p
<1> QED BY <1>1, SentInvariance, PTL
=============================================================================
