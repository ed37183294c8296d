------------------------------- MODULE MCVita49 -------------------------------
(***************************************************************************)
(* Vita49 on blocks that the radio can produce: up to two frames, laid out *)
(* word by word as ANSI/VITA 49 (and vita49.hpp) describe them, with words *)
(* before them, cut short anywhere, or with a run of words missing.        *)
(***************************************************************************)
EXTENDS Vita49, SequencesExt

CONSTANTS
  Shapes,       \* packets without their size: flags and samples of a packet
  Others,       \* packets that may come second in a frame
  Before,       \* numbers of words before the first frame
  MaxHole       \* words that may be missing

NoHeader == [type |-> 0, size |-> 0, c |-> 0, t |-> 0, tsi |-> 0, tsf |-> 0]

Plain(kind, n) == [i \in 1 .. n |-> [kind |-> kind, h |-> NoHeader]]

\* A packet of the radio: the header, then the fields its header announces.
HeaderOf(p) == [type |-> p.type, size |-> Len(Layout(p, p.samples)),
                c |-> p.c, t |-> p.t, tsi |-> p.tsi, tsf |-> p.tsf]

PacketWords(p) ==
  [w \in DOMAIN Layout(p, p.samples) |->
     [kind |-> Layout(p, p.samples)[w], h |-> IF w = 1 THEN HeaderOf(p) ELSE NoHeader]]

\* One or two packets between the header and the trailer of a frame.
Frames == {<<p>> : p \in Shapes} \cup {<<p, q>> : p \in Others, q \in Others}

Body(f)      == FlattenSeq([i \in DOMAIN f |-> PacketWords(f[i])])
FrameLen(f)  == 3 + Len(Body(f))
FrameWords(f) ==
  <<[kind |-> "faw", h |-> NoHeader],
    [kind |-> "info", h |-> [NoHeader EXCEPT !.size = FrameLen(f)]]>>
  \o Body(f) \o Plain("vend", 1)

Sent(f) == [i \in DOMAIN f |->
              [at |-> IF i = 1 THEN 2 ELSE 2 + HeaderOf(f[1]).size, h |-> HeaderOf(f[i])]]

\* What a word that is no header may look like: the sizes reach from zero to
\* more than a frame has.
AnyHeader == [type : {1, 6}, size : {0, 1, 3, 20}, c : {0}, t : {0}, tsi : {0}, tsf : {0}]

\* A block with g words, then frame f and the words after.
Block(g, f, after, state) ==
  [words |-> Plain("data", g) \o after, first |-> g, size |-> FrameLen(f),
   sent |-> Sent(f), state |-> state]

Whole == {Block(g, f, FrameWords(f) \o tail, "whole") :
            g \in Before, f \in Frames, tail \in {<<>>, FrameWords(<<CHOOSE p \in Others : TRUE>>)}}

\* Only the first n words of a frame have arrived.
MaxLen == 20
Cut == {Block(c[1], c[2], SubSeq(FrameWords(c[2]), 1, c[3]), "cut") :
          c \in {d \in Before \X Frames \X (0 .. MaxLen) : d[3] < FrameLen(d[2])}}

\* A frame f and its successor e, without words lo .. lo + n - 1.
WithHole(f, e, lo, n) ==
  LET both == FrameWords(f) \o FrameWords(<<e>>)
  IN  SubSeq(both, 1, lo - 1) \o SubSeq(both, lo + n, Len(both))

Torn == {Block(0, c[1], WithHole(c[1], c[2], c[3], c[4]), "torn") :
           c \in {d \in (Others \X Others) \X Others \X (2 .. MaxLen) \X (1 .. MaxHole) :
                     d[3] <= FrameLen(d[1])}}

\* A frame f whose first packet header was overwritten with h.
Overwritten == {Block(0, c[1], [FrameWords(c[1]) EXCEPT ![3] = [kind |-> "hdr", h |-> c[2]]], "torn") :
                  c \in (Others \X Others) \X AnyHeader}

AllBlocks == {b : b \in Whole \cup Cut \cup Torn \cup Overwritten}

\* All combinations of flags.  A frame has at least five words (MinWords), so
\* a packet has something besides its header.
AllShapes  == {p \in [type : 0 .. 5, c : 0 .. 1, t : 0 .. 1, tsi : {0, 2}, tsf : {0, 1},
                      samples : {0, 2}] : Len(Layout(p, p.samples)) > 1}
TwoShapes  == {[type |-> 1, c |-> 0, t |-> 1, tsi |-> 1, tsf |-> 0, samples |-> 2],
               [type |-> 4, c |-> 1, t |-> 1, tsi |-> 0, tsf |-> 0, samples |-> 1]}

=============================================================================
