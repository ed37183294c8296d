-------------------------------- MODULE Vita49 --------------------------------
(***************************************************************************)
(* The VITA 49 parsers (lib/vita49.cpp): VRLFrame::parse looks for a frame *)
(* in a block of 32-bit words and cuts it into packets with                *)
(* VRTPacket::parse; the accessors of a packet compute where its optional  *)
(* fields are from the flags in its header.                                *)
(*                                                                         *)
(* A word has a kind, which says what the radio put there, and, for a      *)
(* packet header or a frame info word, its fields.  A word that is read as *)
(* something the radio did not mean it to be (after a loss) yields any     *)
(* value.  Sizes are counted in words; size_t arithmetic in bytes modulo   *)
(* 2^64 is arithmetic in words modulo 2^62, WordLimit.  The text of        *)
(* messages and of the two info strings is left out.                       *)
(***************************************************************************)
EXTENDS Integers, Sequences

CONSTANTS
  Inputs,       \* calls of parse: a block of words and, for the properties,
                \* what the radio sent
  Headers,      \* packet headers that any other word may look like
  FrameSizes,   \* frame sizes that any other word may look like
  WordLimit     \* size_t counts words modulo WordLimit

Header == [type : 0 .. 15, size : Nat, c : 0 .. 1, t : 0 .. 1, tsi : 0 .. 3, tsf : 0 .. 3]

Kinds == {"faw", "info", "hdr", "sid", "cid", "tsi", "tsf", "data", "trailer", "vend"}

\* The frame size of an info word is the field size of h.
Word == [kind : Kinds, h : Header]

\* first: where the first frame begins; sent: its packets, with their place
\* in the frame; size: its words; state: it lies in the block as a whole, it
\* is cut short by the end of the block, or words of it are missing.
Input == [words : Seq(Word), first : Nat, size : Nat,
          sent : Seq([at : Nat, h : Header]), state : {"whole", "cut", "torn"}]

Run(kind, n) == [i \in 1 .. n |-> kind]

\* The words of a packet of the radio with header h and n words of samples, in
\* the order in which ANSI/VITA 49 puts them: what the properties compare the
\* code with.
Layout(h, n) ==
  <<"hdr">> \o Run("sid", IF h.type \in {1, 3, 4, 5} THEN 1 ELSE 0)
            \o Run("cid", 2 * h.c)
            \o Run("tsi", IF h.tsi > 0 THEN 1 ELSE 0)
            \o Run("tsf", IF h.tsf > 0 THEN 2 ELSE 0)
            \o Run("data", n)
            \o Run("trailer", IF h.type \notin {4, 5} THEN h.t ELSE 0)

\* Packet p of the frame has a type that is defined, and its words are there.
PacketSent(i, p) ==
  /\ p.h.type <= 5
  /\ i.words[i.first + p.at + 1].h = p.h
  /\ \E n \in 0 .. p.h.size :
       /\ p.h.size = Len(Layout(p.h, n))
       /\ \A w \in 1 .. p.h.size : i.words[i.first + p.at + w].kind = Layout(p.h, n)[w]

\* Between the two words at its head and its trailer a frame has packets, one
\* after the other.
FrameSent(i) ==
  /\ i.first + i.size <= Len(i.words)
  /\ i.sent # <<>>
  /\ i.sent[1].at = 2
  /\ i.sent[Len(i.sent)].at + i.sent[Len(i.sent)].h.size + 1 = i.size
  /\ \A k \in 1 .. Len(i.sent) :
       /\ i.sent[k].at + i.sent[k].h.size < i.size
       /\ k > 1 => i.sent[k].at = i.sent[k - 1].at + i.sent[k - 1].h.size
       /\ PacketSent(i, i.sent[k])

\* A frame begins with the alignment word, which stands nowhere before it, and
\* the info word with its size.
HeadSent(i) ==
  /\ i.size >= 5
  /\ \A k \in 1 .. Len(i.words) :
       /\ k <= i.first => i.words[k].kind # "faw"
       /\ k = i.first + 1 => i.words[k].kind = "faw"
       /\ k = i.first + 2 => i.words[k].kind = "info" /\ i.words[k].h.size = i.size

ASSUME InputsAssumption == \A i \in Inputs : i \in Input
ASSUME SentAssumption ==
  \A i \in Inputs :
    /\ i.state # "torn"  => HeadSent(i)
    /\ i.state = "whole" => FrameSent(i)
    /\ i.state = "cut"   => i.first + i.size > Len(i.words)
ASSUME ReadingsAssumption == Headers \subseteq Header /\ FrameSizes \subseteq Nat
ASSUME WordLimitAssumption == WordLimit \in Nat \ {0}

\* Subtraction of size_t values.
Minus(a, b) == IF a >= b THEN a - b ELSE a - b + WordLimit

-----------------------------------------------------------------------------
(* The accessors of VRTPacketImpl.                                         *)

PT_IF_DATA           == 1
PT_EXTENSION_DATA    == 3
PT_IF_CONTEXT        == 4
PT_EXTENSION_CONTEXT == 5
PT_MAX               == 5

STREAM_ID == 0
CLASS_ID  == 1
TSI       == 2
TSF       == 3
PAYLOAD   == 4
TRAILER   == 5

has_stream_id(h) ==
  h.type \in {PT_IF_DATA, PT_EXTENSION_DATA, PT_IF_CONTEXT, PT_EXTENSION_CONTEXT}

has_class_id(h) == h.c = 1

has_integer_timestamp(h) == h.tsi # 0

has_fractional_timestamp(h) == h.tsf # 0

\* Mutant of has_trailer: the bit is believed in context packets too.
HasTrailerAnyType(h) == h.t = 1

has_trailer(h) == h.type \notin {PT_IF_CONTEXT, PT_EXTENSION_CONTEXT} /\ h.t = 1

\* Words that each field takes up when it is there.
Width(h, field) ==
  CASE field = STREAM_ID -> IF has_stream_id(h) THEN 1 ELSE 0
    [] field = CLASS_ID  -> IF has_class_id(h) THEN 2 ELSE 0
    [] field = TSI       -> IF has_integer_timestamp(h) THEN 1 ELSE 0
    [] field = TSF       -> IF has_fractional_timestamp(h) THEN 2 ELSE 0

\* The header word, and every earlier field that is there.
get_field_offset(h, field) ==
  IF field = TRAILER
  THEN Minus(h.size, 1)
  ELSE 1 + (IF field > STREAM_ID THEN Width(h, STREAM_ID) ELSE 0)
         + (IF field > CLASS_ID  THEN Width(h, CLASS_ID) ELSE 0)
         + (IF field > TSI       THEN Width(h, TSI) ELSE 0)
         + (IF field > TSF       THEN Width(h, TSF) ELSE 0)

\* In words; the code multiplies by four.
get_payload_size(h) ==
  Minus(Minus(h.size, get_field_offset(h, PAYLOAD)), IF has_trailer(h) THEN 1 ELSE 0)

\* The fields whose accessor returns; the others throw a runtime_error.
Fields(h) ==
  {f \in STREAM_ID .. TSF : Width(h, f) > 0} \cup (IF has_trailer(h) THEN {TRAILER} ELSE {})

-----------------------------------------------------------------------------
(* VRLFrameImpl::VRLFrameImpl, which is VRLFrame::parse.                   *)

VARIABLES
  input,          \* the call
  pc,             \* where the constructor is, or how it ended
  index,          \* m_frame_data - frame_data
  size,           \* words left from there
  frame_size,
  packet_offset,
  m_packets       \* packets found: place in the frame and header

vars == <<input, pc, index, size, frame_size, packet_offset, m_packets>>

Ended == {"done", "index_error", "runtime_error"}

\* A frame has at least five words.
MinWords == 5

Init ==
  /\ input \in Inputs
  /\ pc = "enter"
  /\ index = 0
  /\ size = Len(input.words)
  /\ frame_size = 0
  /\ packet_offset = 0
  /\ m_packets = <<>>

IsKind(place, kind) == place < Len(input.words) /\ input.words[place + 1].kind = kind

\* What the word at a place may say when it is read as a frame info word or
\* as a packet header.
ReadFrameSize(place) == IF IsKind(place, "info") THEN {input.words[place + 1].h.size} ELSE FrameSizes
ReadHeader(place)    == IF IsKind(place, "hdr") THEN {input.words[place + 1].h} ELSE Headers

\* Less than a frame: the caller keeps the words for the next time.
CheckSize ==
  /\ pc = "enter"
  /\ pc' = IF size < MinWords THEN "index_error" ELSE "scan"
  /\ UNCHANGED <<input, index, size, frame_size, packet_offset, m_packets>>

\* The search for the alignment word ends where too little is left for a frame.
FindAlignment ==
  /\ pc = "scan"
  /\ \/ /\ size >= MinWords /\ ~IsKind(index, "faw")
        /\ index' = index + 1
        /\ size' = size - 1
        /\ UNCHANGED pc
     \/ /\ size < MinWords
        /\ pc' = "runtime_error"
        /\ UNCHANGED <<index, size>>
     \/ /\ size >= MinWords /\ IsKind(index, "faw")
        /\ pc' = "info"
        /\ UNCHANGED <<index, size>>
  /\ UNCHANGED <<input, frame_size, packet_offset, m_packets>>

\* A frame of n words is taken if fits holds.
TakeFrame(n, fits) ==
  /\ pc = "info"
  /\ frame_size' = n
  /\ \/ /\ fits
        /\ packet_offset' = 2
        /\ pc' = "packet"
     \/ /\ ~fits
        /\ pc' = "index_error"
        /\ UNCHANGED packet_offset
  /\ UNCHANGED <<input, index, size, m_packets>>

\* Mutant of ReadFrameInfo: the trailer is left out of the comparison.
ReadFrameInfoShort == \E n \in ReadFrameSize(index + 1) : TakeFrame(n, n <= size + 1)

ReadFrameInfo == \E n \in ReadFrameSize(index + 1) : TakeFrame(n, n <= size)

\* The words left for packets: all but the trailer of the frame.
Remaining == Minus(Minus(frame_size, packet_offset), 1)

\* VRTPacket::parse of a header h, with room for room words, and the rest of
\* the loop; a packet of size zero moves on to pc empty.
TakePacket(h, room, empty) ==
  /\ pc = "packet"
  /\ \/ /\ h.type > PT_MAX
        /\ pc' = "runtime_error"
        /\ UNCHANGED <<packet_offset, m_packets>>
     \/ /\ h.type <= PT_MAX /\ h.size > room
        /\ pc' = "index_error"
        /\ UNCHANGED <<packet_offset, m_packets>>
     \/ /\ h.type <= PT_MAX /\ h.size <= room /\ h.size = 0
        /\ pc' = empty
        /\ UNCHANGED <<packet_offset, m_packets>>
     \/ /\ h.type <= PT_MAX /\ h.size <= room /\ h.size > 0
        /\ m_packets' = Append(m_packets, [at |-> packet_offset, h |-> h])
        /\ packet_offset' = packet_offset + h.size
        /\ pc' = IF packet_offset + h.size + 1 < frame_size THEN "packet" ELSE "done"
  /\ UNCHANGED <<input, index, size, frame_size>>

\* Mutants of ParsePacket: the trailer of the frame counts as room; an empty
\* packet is skipped instead of ending the loop.
ParsePacketTrailer ==
  \E h \in ReadHeader(index + packet_offset) : TakePacket(h, Remaining + 1, "done")
ParsePacketSkips ==
  \E h \in ReadHeader(index + packet_offset) : TakePacket(h, Remaining, "packet")

ParsePacket ==
  \E h \in ReadHeader(index + packet_offset) : TakePacket(h, Remaining, "done")

Next == CheckSize \/ FindAlignment \/ ReadFrameInfo \/ ParsePacket

Spec == Init /\ [][Next]_vars

\* The constructor is sequential code: it takes its next step.
FairSpec == Spec /\ WF_vars(Next)

-----------------------------------------------------------------------------
(* Properties.                                                             *)

\* The values each variable may take.
TypeOK ==
  /\ input \in Input
  /\ pc \in {"enter", "scan", "info", "packet"} \cup Ended
  /\ index \in Nat /\ size \in Nat
  /\ frame_size \in Nat /\ packet_offset \in Nat
  /\ m_packets \in Seq([at : Nat, h : Header])

\* A frame that lies in the block as a whole is found where it begins, and
\* taken apart into the packets the radio sent, whatever stands before or
\* after it; the size moves the caller to the word after it.  One cut short by
\* the end of the block is never taken; and when it begins the block the
\* caller is told to wait for the rest (index_error), not to give up
\* (runtime_error).
ParsedAsSent ==
  /\ input.state = "whole" =>
       /\ pc \notin {"index_error", "runtime_error"}
       /\ pc = "done" => /\ index = input.first
                         /\ frame_size = input.size
                         /\ m_packets = input.sent
  /\ input.state = "cut" =>
       /\ pc # "done"
       /\ pc = "runtime_error" => input.first > 0

\* Whatever the words are: a frame that is taken lies inside the block, its
\* packets follow one another from the third word on, and the last one ends
\* before the trailer of the frame.
PacketsInside ==
  pc \in {"packet", "done"} /\ frame_size >= 3 =>
    /\ index + frame_size <= Len(input.words)
    /\ \A i \in 1 .. Len(m_packets) :
         /\ m_packets[i].at >= 2
         /\ m_packets[i].at + m_packets[i].h.size < frame_size
         /\ i > 1 => m_packets[i].at = m_packets[i - 1].at + m_packets[i - 1].h.size

\* The kind of word that belongs at the place of each field.
KindOf == [f \in STREAM_ID .. TRAILER |->
             CASE f = STREAM_ID -> "sid" [] f = CLASS_ID -> "cid" [] f = TSI -> "tsi"
               [] f = TSF -> "tsf" [] f = PAYLOAD -> "data" [] f = TRAILER -> "trailer"]

\* Every accessor reads the word that the radio put there for it, for every
\* combination of optional fields; the payload is all of the samples and
\* nothing else.
FieldsInPlace ==
  input.state = "whole" /\ pc = "done" =>
    \A i \in 1 .. Len(m_packets) :
      LET h        == m_packets[i].h
          place(f) == index + m_packets[i].at + get_field_offset(h, f)
          payload  == {k \in 0 .. h.size - 1 : IsKind(index + m_packets[i].at + k, "data")}
      IN  /\ \A f \in Fields(h) : IsKind(place(f), KindOf[f])
          /\ payload = get_field_offset(h, PAYLOAD) ..
                         get_field_offset(h, PAYLOAD) + get_payload_size(h) - 1

\* Parsing ends, whatever the words are.
Terminates == <>(pc \in Ended)
=============================================================================
