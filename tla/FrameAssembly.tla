---------------------------- MODULE FrameAssembly -----------------------------
(***************************************************************************)
(* How the thread of complex_manager takes frames out of batches of        *)
(* datagrams (complex_manager.cpp, operator()): what is left of a batch    *)
(* when a frame is incomplete is kept and put before the next batch; the   *)
(* counters of frames and packets show what was lost on the way.           *)
(*                                                                         *)
(* A word of the stream is [f, k]: word k of frame f.  Word 0 is the       *)
(* alignment word, word 1 holds size and counter of the frame.  Offsets    *)
(* into the buffer are not kept: rest is what lies from byte_index to      *)
(* total_length, saved is m_overflow_buffer up to m_amnt_saved.  What      *)
(* VRLFrame::parse does is taken from Vita49; the samples of the packets   *)
(* are the business of ComplexManager.                                     *)
(***************************************************************************)
EXTENDS Integers, Sequences, SequencesExt, FiniteSets

CONSTANTS
  Sizes,            \* the sizes of the frames the radio sends, in words
  Stream,           \* the words it sends, frame after frame (external)
  PacketsPerFrame,  \* data packets in each, all of the active stream
  Datagrams,        \* words a datagram may have
  Room,             \* UDP_START_INDEX in words
  FrameMod,         \* MAX_FRAME_COUNT + 1
  PacketMod,        \* MAX_PACKET_COUNT + 1
  Misreadings,      \* what a torn frame may look like: [size, outcome]
  MaxLosses,        \* the bound on lost datagrams
  MaxUpdates        \* the bound on updates of the tuners

MinWords == 5

\* The words there are.
Word == {w \in [f : DOMAIN Sizes, k : Nat] : w.k < Sizes[w.f]}

\* Every word is the one after the word before it.
WithoutGap(words) ==
  \A i \in 1 .. Len(words) - 1 :
    \/ words[i + 1] = [words[i] EXCEPT !.k = @ + 1]
    \/ words[i].k = Sizes[words[i].f] - 1 /\ words[i + 1] = [f |-> words[i].f + 1, k |-> 0]

\* The radio does not send a frame whose beginning could not be kept.
ASSUME SizesAssumption ==
  /\ Sizes \in Seq(Nat) /\ Room \in Nat /\ Datagrams \subseteq Nat
  /\ \A f \in DOMAIN Sizes : Sizes[f] >= MinWords /\ Sizes[f] - 1 <= Room
ASSUME StreamAssumption ==
  /\ Stream \in Seq(Word) /\ WithoutGap(Stream)
  /\ Stream # <<>> => Stream[1] = [f |-> 1, k |-> 0]
ASSUME CountersAssumption ==
  FrameMod \in Nat \ {0, 1} /\ PacketMod \in Nat \ {0, 1} /\ PacketsPerFrame \in Nat \ {0}
\* A size of zero is left out: the loop would take the same frame for ever.
ASSUME MisreadingsAssumption ==
  \A m \in Misreadings :
    m.size \in Nat \ {0} /\ m.outcome \in {"done", "index_error", "runtime_error"}

VARIABLES
  sent,                \* words the radio has sent
  pending,             \* words in the listener's buffer
  pc,                  \* "request", "parse", "crashed"
  rest,
  saved,
  m_last_frame_count,
  last_count,          \* m_mang[].last_count
  misread,             \* the misreading of this behaviour
  frames,              \* frames processed, 0 for a torn one (history)
  printed,             \* what the last one made the block print (history)
  updated,             \* handle_update has run since then (history)
  batch,               \* the batch in work, with what was saved (history)
  losses, updates

vars == <<sent, pending, pc, rest, saved, m_last_frame_count, last_count, misread,
          frames, printed, updated, batch, losses, updates>>

FrameWords(f) == [i \in 1 .. Sizes[f] |-> [f |-> f, k |-> i - 1]]

Init ==
  /\ sent = 0 /\ pending = <<>>
  /\ pc = "request" /\ rest = <<>> /\ saved = <<>>
  /\ m_last_frame_count = -1 /\ last_count = -1
  /\ misread \in Misreadings
  /\ frames = <<>> /\ printed = {} /\ updated = FALSE /\ batch = <<>>
  /\ losses = 0 /\ updates = 0

-----------------------------------------------------------------------------
(* The radio and the listener (external here).  A flush of the listener's  *)
(* buffer is the loss of the datagrams in it.                              *)

Network == UNCHANGED <<pc, rest, saved, m_last_frame_count, last_count, misread,
                       frames, printed, updated, batch, updates>>

Arrive(n) ==
  /\ sent + n <= Len(Stream)
  /\ sent' = sent + n
  /\ pending' = pending \o SubSeq(Stream, sent + 1, sent + n)
  /\ UNCHANGED losses
  /\ Network

Lose(n) ==
  /\ sent + n <= Len(Stream) /\ losses < MaxLosses
  /\ sent' = sent + n
  /\ losses' = losses + 1
  /\ UNCHANGED pending
  /\ Network

-----------------------------------------------------------------------------
(* The manager                                                             *)

Manager == UNCHANGED <<sent, misread, losses>>

\* What was saved is copied to just before the new data.
NextBatch ==
  /\ pc = "request" /\ pending # <<>>
  /\ pc' = "parse"
  /\ rest' = saved \o pending /\ batch' = saved \o pending
  /\ saved' = <<>>
  /\ pending' = <<>>
  /\ UNCHANGED <<m_last_frame_count, last_count, frames, printed, updated, updates>>
  /\ Manager

\* Mutant of Skipped: the data are taken to begin with a frame.
SkippedNone(words) == 0

\* The words before the alignment word; the search ends where too little is
\* left for a frame.
Skipped(words) ==
  CHOOSE i \in 0 .. Len(words) :
    /\ Len(words) - i < MinWords \/ words[i + 1].k = 0
    /\ \A j \in 0 .. i - 1 : words[j + 1].k # 0

\* The frame after the search, if there is one: its number, the size it
\* claims, and whether its words are those the radio sent.
Found(words) ==
  LET i    == Skipped(words)
      f    == words[i + 1].f
      size == IF words[i + 2] = [f |-> f, k |-> 1] THEN Sizes[f] ELSE misread.size
  IN  [f |-> f, skipped |-> i, size |-> size,
       intact |-> IsPrefix(FrameWords(f), SubSeq(words, i + 1, Len(words)))]

\* Mutant of Parse: too little data is not told from no frame.
ParseGivesUp(words) ==
  LET left == Len(words) - Skipped(words)
  IN  CASE left < MinWords -> "runtime_error"
        [] left >= MinWords /\ Found(words).size > left -> "index_error"
        [] OTHER -> IF Found(words).intact THEN "done" ELSE misread.outcome

\* How VRLFrame::parse ends.
Parse(words) ==
  LET left == Len(words) - Skipped(words)
  IN  CASE Len(words) < MinWords -> "index_error"
        [] Len(words) >= MinWords /\ left < MinWords -> "runtime_error"
        [] left >= MinWords /\ Found(words).size > left -> "index_error"
        [] OTHER -> IF Found(words).intact THEN "done" ELSE misread.outcome

\* Mutant of Expected: the counter wraps one too late.
ExpectedLate(last, got, mod) ==
  CASE last = -1 -> got
    [] last > mod - 1 -> 0
    [] OTHER -> last + 1

\* The counter after last; -1 means that any will do.
Expected(last, got, mod) ==
  CASE last = -1 -> got
    [] last + 1 > mod - 1 -> 0
    [] OTHER -> last + 1

\* Mutant of Advance: the words the search skipped are not counted.
AdvanceFrameOnly(found) == found.size

\* byte_index moves past the frame.
Advance(found) == found.skipped + found.size

\* A torn frame has no data packets, or the last one has any counter; the
\* counter of the frame may be misread too.
Counters(found) ==
  IF found.intact
  THEN {[frame |-> found.f % FrameMod,
         first |-> ((found.f - 1) * PacketsPerFrame) % PacketMod,
         last  |-> (found.f * PacketsPerFrame - 1) % PacketMod]}
  ELSE {[frame |-> n, first |-> c, last |-> c] :
          n \in 0 .. FrameMod - 1, c \in 0 .. PacketMod - 1}
       \cup {[frame |-> n, first |-> Expected(last_count, -1, PacketMod), last |-> last_count] :
               n \in 0 .. FrameMod - 1}

ProcessFrame ==
  /\ pc = "parse" /\ rest # <<>> /\ Parse(rest) = "done"
  /\ LET found == Found(rest)
     IN  \E got \in Counters(found) :
           /\ printed' =
                (IF Expected(m_last_frame_count, got.frame, FrameMod) # got.frame
                 THEN {"F"} ELSE {})
                \cup (IF Expected(last_count, got.first, PacketMod) # got.first
                      THEN {"L"} ELSE {})
           /\ m_last_frame_count' = got.frame
           /\ last_count' = got.last
           /\ frames' = Append(frames, IF found.intact THEN found.f ELSE 0)
           /\ rest' = SubSeq(rest, Advance(found) + 1, Len(rest))
  /\ updated' = FALSE
  /\ UNCHANGED <<pending, pc, saved, batch, updates>>
  /\ Manager

\* catch (index_error): the rest is kept, if there is room for it.
SaveRest ==
  /\ pc = "parse" /\ rest # <<>> /\ Parse(rest) = "index_error"
  /\ \/ /\ Len(rest) <= Room
        /\ saved' = rest /\ rest' = <<>>
        /\ UNCHANGED pc
     \/ /\ Len(rest) > Room
        /\ pc' = "crashed"
        /\ UNCHANGED <<saved, rest>>
  /\ UNCHANGED <<pending, m_last_frame_count, last_count, frames, printed, updated,
                 batch, updates>>
  /\ Manager

\* catch (std::exception): the rest of the batch is given up.
GiveUpRest ==
  /\ pc = "parse" /\ rest # <<>> /\ Parse(rest) = "runtime_error"
  /\ rest' = <<>> /\ saved' = <<>>
  /\ UNCHANGED <<pending, pc, m_last_frame_count, last_count, frames, printed, updated,
                 batch, updates>>
  /\ Manager

BatchDone ==
  /\ pc = "parse" /\ rest = <<>>
  /\ pc' = "request"
  /\ UNCHANGED <<pending, rest, saved, m_last_frame_count, last_count, frames, printed,
                 updated, batch, updates>>
  /\ Manager

\* handle_update forgets the packet counter, not that of the frames.
Update ==
  /\ pc # "crashed" /\ updates < MaxUpdates
  /\ last_count' = -1
  /\ updated' = TRUE
  /\ updates' = updates + 1
  /\ UNCHANGED <<pending, pc, rest, saved, m_last_frame_count, frames, printed, batch>>
  /\ Manager

Next ==
  \/ \E n \in Datagrams : Arrive(n) \/ Lose(n)
  \/ NextBatch \/ ProcessFrame \/ SaveRest \/ GiveUpRest \/ BatchDone
  \/ Update

Spec == Init /\ [][Next]_vars

-----------------------------------------------------------------------------
(* Properties.                                                             *)

\* The values each variable may take; after an index_error and nowhere else
\* something is saved.
TypeOK ==
  /\ sent \in 0 .. Len(Stream)
  /\ pc \in {"request", "parse", "crashed"}
  /\ Len(saved) <= Room
  /\ saved # <<>> => rest = <<>>
  /\ m_last_frame_count \in -1 .. FrameMod - 1
  /\ last_count \in -1 .. PacketMod - 1
  /\ \A w \in ToSet(pending \o rest \o saved) : w.f \in DOMAIN Sizes
  /\ printed \subseteq {"F", "L"}

\* Wherever the batches are cut, every word that arrived is in a frame that was
\* processed, each of them once and in order, or still waits, in the order it
\* was sent: the carry-over neither forgets nor repeats anything (until
\* something is lost).
NothingForgotten ==
  losses = 0 =>
    LET waiting == rest \o saved \o pending
        done    == sent - Len(waiting)
    IN  /\ waiting = SubSeq(Stream, done + 1, sent)
        /\ \A i \in DOMAIN frames : frames[i] = i
        /\ \/ done = 0 /\ frames = <<>>
           \/ done > 0 /\ frames # <<>> /\ Stream[done] = Last(FrameWords(Last(frames)))

\* No frame is processed twice or after a later one, whatever is lost.
FramesInOrder ==
  \A i, j \in DOMAIN frames : i < j /\ frames[i] # 0 /\ frames[j] # 0 => frames[i] < frames[j]

\* A batch without a gap brings the manager back in step, whatever was lost
\* before: every frame that is complete in it has been processed, and the
\* beginning of one that is not is kept if it follows one that was.
BackInStep ==
  pc = "request" /\ batch # <<>> /\ WithoutGap(batch) =>
    LET f == Last(batch).f
        complete == {w.f : w \in {x \in ToSet(batch) :
                       x.k = 0 /\ (x.f < f \/ Last(batch).k = Sizes[f] - 1)}}
    IN  /\ complete \subseteq ToSet(frames)
        /\ complete # {} /\ f \notin complete =>
             saved = SubSeq(FrameWords(f), 1, Last(batch).k + 1)

\* The carry-over fits in m_overflow_buffer, and before the place where the
\* listener begins to write, until something is lost.
CarryFits == pc = "crashed" => losses > 0

\* What SaveRest keeps and NextBatch puts back is all there is between two
\* batches: it fits, and with it no word is forgotten or repeated.
CarryOverSound == TypeOK /\ CarryFits /\ NothingForgotten

\* A frame of the radio is processed right after another one, and the number of
\* frames between the two.
Follows == /\ Len(frames') > Len(frames) /\ frames # <<>>
           /\ Last(frames) # 0 /\ Last(frames') # 0
Missing == Last(frames') - Last(frames) - 1

\* What F and L say: a frame prints an F exactly if the frames missing before it
\* are not a multiple of 4096, and an L exactly if the packets missing are not a
\* multiple of 16 and no update came between.  The documentation promises more:
\* the property after this one, which does not hold.
LossReported ==
  [][Follows =>
       /\ "F" \in printed' <=> Missing % FrameMod # 0
       /\ "L" \in printed' <=> (Missing * PacketsPerFrame) % PacketMod # 0 /\ ~updated
    ]_vars

\* README.md:26: at least one L is reported when an F is reported, since one is
\* printed for every packet lost (complex_manager.h:120-121).
FrameLossHasPacketLoss == [][Follows /\ "F" \in printed' => "L" \in printed']_vars

=============================================================================
