-------------------------- MODULE FrameAssemblyProofs -------------------------
(***************************************************************************)
(* Proofs about FrameAssembly, for every stream of frames, however it is   *)
(* cut into datagrams and batches, whatever is lost of it and wherever     *)
(* handle_update comes between.                                            *)
(*                                                                         *)
(* Inv is inductive by itself: types.  On it rest four invariants that do  *)
(* not need one another: OrderInv (all that waits is later than what was   *)
(* processed), CarryInv (with nothing lost, what waits is the stream from  *)
(* the end of a frame on), CountersInv (the two counters are those of the  *)
(* last frame) and BatchInv (where in a batch without a gap the manager    *)
(* is).  Skipped is a CHOOSE and words come after words, so both need the  *)
(* least number of a set and induction: Least and Induction derive them    *)
(* from the well-foundedness of the natural numbers.                       *)
(***************************************************************************)
EXTENDS FrameAssembly, TLAPS, WellFoundedInduction

\* What waits is words of frames.
WordsOK ==
  /\ pending \in Seq(Word) /\ rest \in Seq(Word)
  /\ saved \in Seq(Word) /\ batch \in Seq(Word)

\* Between batches nothing is in work; what is saved fits before the next batch.
ControlOK ==
  /\ sent \in 0 .. Len(Stream) /\ losses \in Nat /\ misread \in Misreadings
  /\ pc \in {"request", "parse", "crashed"}
  /\ pc = "request" => rest = <<>>
  /\ saved # <<>> => rest = <<>>
  /\ Len(saved) <= Room

\* The counters are in their range.
CountOK ==
  /\ frames \in Seq({0} \cup DOMAIN Sizes)
  /\ m_last_frame_count \in -1 .. FrameMod - 1 /\ last_count \in -1 .. PacketMod - 1
  /\ printed \subseteq {"F", "L"} /\ updated \in BOOLEAN

\* The inductive invariant.
Inv == WordsOK /\ ControlOK /\ CountOK

\* v is sent before w.
Before(v, w) == v.f < w.f \/ (v.f = w.f /\ v.k < w.k)

\* The words are in the order of the stream.
Sorted(s) == \A i, j \in 1 .. Len(s) : i < j => Before(s[i], s[j])

\* Every word of s is before every word of t.
Ahead(s, t) == \A i \in 1 .. Len(s), j \in 1 .. Len(t) : Before(s[i], t[j])

\* Every word is of a later frame than n.
Past(n, s) == \A i \in 1 .. Len(s) : n < s[i].f

\* The words the radio has not sent yet.
ToCome == SubSeq(Stream, sent + 1, Len(Stream))

\* What was taken, what the listener holds and what is to come are in this order.
OrderOK ==
  /\ Sorted(rest) /\ Sorted(saved) /\ Sorted(pending)
  /\ Ahead(rest, pending) /\ Ahead(saved, pending)
  /\ Ahead(rest, ToCome) /\ Ahead(saved, ToCome) /\ Ahead(pending, ToCome)

\* All of it is later than any frame that was processed.
PastOK ==
  \A n \in 1 .. Len(frames) : frames[n] # 0 =>
    Past(frames[n], rest) /\ Past(frames[n], saved) /\ Past(frames[n], pending)
    /\ Past(frames[n], ToCome)

\* The inductive invariant of the order.
OrderInv == OrderOK /\ PastOK /\ FramesInOrder

-----------------------------------------------------------------------------
\* Every set of natural numbers that has an element has a least one.
LEMMA Least ==
  ASSUME NEW T \in SUBSET Nat, T # {}
  PROVE  \E x \in T : \A y \in T : x <= y
<1> DEFINE R == {p \in Nat \X Nat : p[1] < p[2]}
<1>1. IsWellFoundedOn(R, Nat)
  BY NatLessThanWellFounded DEF OpToRel
<1> HIDE DEF R
<1>2. T \subseteq Nat
  OBVIOUS
<1>3. PICK x \in T : \A y \in T : ~(<<y, x>> \in R)
  BY <1>1, <1>2, WFMin
<1>4. \A y \in T : x <= y
  <2>1. SUFFICES ASSUME NEW y \in T, y < x PROVE FALSE
    OBVIOUS
  <2>2. <<y, x>> \in Nat \X Nat /\ <<y, x>>[1] = y /\ <<y, x>>[2] = x
    OBVIOUS
  <2>3. <<y, x>> \in R
    BY <2>1, <2>2 DEF R
  <2> QED BY <1>3, <2>3
<1> QED BY <1>4

\* Induction, of a set instead of a formula.
LEMMA Induction ==
  ASSUME NEW S \in SUBSET Nat, 0 \in S, \A n \in S : n + 1 \in S
  PROVE  S = Nat
<1> SUFFICES ASSUME S # Nat PROVE FALSE
  OBVIOUS
<1>1. Nat \ S # {} /\ Nat \ S \in SUBSET Nat
  OBVIOUS
<1>2. PICK x \in Nat \ S : \A y \in Nat \ S : x <= y
  BY <1>1, Least
<1>3. x # 0 /\ x - 1 \in Nat /\ x - 1 \in S
  BY <1>2
<1> QED BY <1>2, <1>3

\* A word is in a frame long enough to be found and short enough to be kept.
LEMMA WordFacts ==
  ASSUME NEW w \in Word
  PROVE  /\ w = [f |-> w.f, k |-> w.k] /\ w.f \in DOMAIN Sizes /\ w.f \in Nat /\ w.k \in Nat
         /\ w.k < Sizes[w.f]
         /\ Sizes[w.f] \in Nat /\ Sizes[w.f] >= 5 /\ Sizes[w.f] - 1 <= Room
  BY SizesAssumption DEF Word, MinWords

\* The words of a frame are numbered from 0.
LEMMA FrameWordsFacts ==
  ASSUME NEW f \in DOMAIN Sizes
  PROVE  /\ f \in Nat /\ Sizes[f] \in Nat /\ Sizes[f] >= 5 /\ Sizes[f] - 1 <= Room
         /\ FrameWords(f) \in Seq(Word) /\ Len(FrameWords(f)) = Sizes[f]
         /\ \A m \in 1 .. Sizes[f] : FrameWords(f)[m] = [f |-> f, k |-> m - 1]
<1>1. f \in Nat /\ Sizes[f] \in Nat /\ Sizes[f] >= 5 /\ Sizes[f] - 1 <= Room
  BY SizesAssumption DEF MinWords
<1>2. \A m \in 1 .. Sizes[f] : [f |-> f, k |-> m - 1] \in Word
  BY <1>1 DEF Word
<1> QED BY <1>1, <1>2 DEF FrameWords

\* The test of Found, word by word.
LEMMA IntactIff ==
  ASSUME NEW words \in Seq(Word), NEW i \in 0 .. Len(words), NEW f \in DOMAIN Sizes
  PROVE  IsPrefix(FrameWords(f), SubSeq(words, i + 1, Len(words))) <=>
           /\ Sizes[f] <= Len(words) - i
           /\ \A m \in 1 .. Sizes[f] : words[i + m] = [f |-> f, k |-> m - 1]
<1> DEFINE s == FrameWords(f)
           t == SubSeq(words, i + 1, Len(words))
<1>1. /\ s \in Seq(Word) /\ Len(s) = Sizes[f] /\ Sizes[f] \in Nat
      /\ \A m \in 1 .. Sizes[f] : s[m] = [f |-> f, k |-> m - 1]
  BY FrameWordsFacts
<1>2. t \in Seq(Word) /\ Len(t) = Len(words) - i
      /\ \A m \in 1 .. Len(words) - i : t[m] = words[i + m]
  OBVIOUS
<1> HIDE DEF s, t
<1>3. SubSeq(s, 1, Len(s)) = s
  BY <1>1
<1>4. ASSUME Sizes[f] <= Len(t) 
      PROVE  s = SubSeq(t, 1, Len(s)) <=> \A m \in 1 .. Sizes[f] : s[m] = t[m]
  <2>1. SubSeq(t, 1, Len(s)) \in Seq(Word) /\ Len(SubSeq(t, 1, Len(s))) = Sizes[f]
        /\ \A m \in 1 .. Sizes[f] : SubSeq(t, 1, Len(s))[m] = t[m]
    BY <1>1, <1>2, <1>4
  <2> QED BY <1>1, <2>1
<1>5. Sizes[f] <= Len(t) => \A m \in 1 .. Sizes[f] : t[m] = words[i + m]
  BY <1>1, <1>2
<1>6. IsPrefix(s, t) <=> Sizes[f] <= Len(t) /\ s = SubSeq(t, 1, Len(s))
  BY <1>1, <1>3 DEF IsPrefix
<1>7. IsPrefix(s, t) <=> Sizes[f] <= Len(t) /\ \A m \in 1 .. Sizes[f] : words[i + m] = [f |-> f, k |-> m - 1]
  BY <1>1, <1>4, <1>5, <1>6
<1> QED BY <1>2, <1>7 DEF s, t

\* The search stops at the first alignment word, or where too little is left.
LEMMA SkippedFacts ==
  ASSUME NEW words \in Seq(Word)
  PROVE  /\ Skipped(words) \in 0 .. Len(words)
         /\ Len(words) - Skipped(words) < 5 \/ words[Skipped(words) + 1].k = 0
         /\ \A j \in 0 .. Skipped(words) - 1 : words[j + 1].k # 0
<1> DEFINE T == {i \in 0 .. Len(words) : Len(words) - i < 5 \/ words[i + 1].k = 0}
<1>1. T \in SUBSET Nat /\ Len(words) \in T
  OBVIOUS
<1>2. PICK i \in T : \A j \in T : i <= j
  BY <1>1, Least
<1>3. i \in 0 .. Len(words) /\ (Len(words) - i < 5 \/ words[i + 1].k = 0)
  BY <1>2
<1>4. ASSUME NEW j \in 0 .. i - 1 PROVE words[j + 1].k # 0
  <2>1. j \in 0 .. Len(words) /\ j < i
    BY <1>3
  <2>2. j \notin T
    <3> HIDE DEF T
    <3> QED BY <1>1, <1>2, <1>3, <2>1
  <2> QED BY <2>1, <2>2
<1> QED BY <1>3, <1>4 DEF Skipped, MinWords

\* A frame that was parsed lies within the data; if it is not torn it is all there.
LEMMA DoneFacts ==
  ASSUME NEW words \in Seq(Word), misread \in Misreadings, Parse(words) = "done"
  PROVE  /\ Found(words).skipped \in Nat /\ Found(words).size \in Nat \ {0}
         /\ Advance(Found(words)) \in Nat /\ Advance(Found(words)) <= Len(words)
         /\ Found(words).skipped + 1 \in 1 .. Len(words)
         /\ words[Found(words).skipped + 1] = [f |-> Found(words).f, k |-> 0]
         /\ Found(words).f \in DOMAIN Sizes
         /\ Found(words).intact \in BOOLEAN
         /\ Found(words).intact =>
              /\ Found(words).size = Sizes[Found(words).f]
              /\ \A m \in 1 .. Sizes[Found(words).f] :
                   words[Found(words).skipped + m] = [f |-> Found(words).f, k |-> m - 1]
<1> DEFINE i == Skipped(words)
           f == words[i + 1].f
           size == IF words[i + 2] = [f |-> f, k |-> 1] THEN Sizes[f] ELSE misread.size
           intact == IsPrefix(FrameWords(f), SubSeq(words, i + 1, Len(words)))
<1>1. /\ Found(words).f = f /\ Found(words).skipped = i /\ Found(words).size = size
      /\ Found(words).intact = intact
  BY DEF Found
<1>2. i \in 0 .. Len(words) /\ (Len(words) - i < 5 \/ words[i + 1].k = 0)
  BY SkippedFacts
<1>3. Len(words) - i >= 5 /\ ~(Found(words).size > Len(words) - i)
  BY <1>2 DEF Parse, MinWords
<1>4. i + 1 \in 1 .. Len(words) /\ i + 2 \in 1 .. Len(words)
  BY <1>2, <1>3
<1>5. words[i + 1] = [f |-> f, k |-> 0] /\ f \in DOMAIN Sizes
  <2>1. words[i + 1] \in Word /\ words[i + 1].k = 0
    BY <1>2, <1>3, <1>4
  <2> QED BY <2>1, WordFacts
<1>6. size \in Nat \ {0}
  <2>1. Sizes[f] \in Nat \ {0}
    BY <1>5, FrameWordsFacts
  <2>2. misread.size \in Nat \ {0}
    BY MisreadingsAssumption
  <2> QED BY <2>1, <2>2
<1>7. intact => Sizes[f] <= Len(words) - i
                /\ \A m \in 1 .. Sizes[f] : words[i + m] = [f |-> f, k |-> m - 1]
  BY <1>2, <1>5, IntactIff
<1>8. intact => size = Sizes[f]
  <2>1. 2 \in 1 .. Sizes[f] /\ 2 - 1 = 1
    BY <1>5, FrameWordsFacts
  <2> QED BY <1>7, <2>1
<1>9. intact \in BOOLEAN
  BY DEF IsPrefix
<1> HIDE DEF i, f, size, intact
<1>10. i + size \in Nat /\ i + size <= Len(words)
  BY <1>1, <1>2, <1>3, <1>6
<1> QED BY <1>1, <1>2, <1>4, <1>5, <1>6, <1>7, <1>8, <1>9, <1>10 DEF Advance

\* Words before words before others.
LEMMA BeforeTransitive ==
  ASSUME NEW u \in Word, NEW v \in Word, NEW w \in Word, Before(u, v), Before(v, w)
  PROVE  Before(u, w)
<1> DEFINE uf == u.f  uk == u.k  vf == v.f  vk == v.k  wf == w.f  wk == w.k
<1>1. uf \in Nat /\ uk \in Nat /\ vf \in Nat /\ vk \in Nat /\ wf \in Nat /\ wk \in Nat
  BY WordFacts
<1>2. (uf < vf \/ (uf = vf /\ uk < vk)) /\ (vf < wf \/ (vf = wf /\ vk < wk))
  BY DEF Before
<1> HIDE DEF uf, uk, vf, vk, wf, wk
<1>3. uf < wf \/ (uf = wf /\ uk < wk)
  BY <1>1, <1>2
<1> QED BY <1>3 DEF Before, uf, uk, wf, wk

\* The stream is in order, however far apart two words are.
LEMMA StreamOrder ==
  ASSUME NEW i \in 1 .. Len(Stream), NEW j \in 1 .. Len(Stream), i < j
  PROVE  Before(Stream[i], Stream[j])
<1> DEFINE S == {n \in Nat : i + n + 1 <= Len(Stream) => Before(Stream[i], Stream[i + n + 1])}
<1>0. Stream \in Seq(Word) /\ WithoutGap(Stream)
  BY StreamAssumption
<1>1. ASSUME NEW n \in 1 .. Len(Stream) - 1 PROVE Before(Stream[n], Stream[n + 1])
  <2>1. Stream[n] \in Word /\ Stream[n + 1] \in Word
    BY <1>0
  <2>2. Stream[n + 1] = [Stream[n] EXCEPT !.k = @ + 1]
        \/ Stream[n + 1] = [f |-> Stream[n].f + 1, k |-> 0]
    BY <1>0 DEF WithoutGap
  <2>3. \/ Stream[n + 1].f = Stream[n].f /\ Stream[n + 1].k = Stream[n].k + 1
        \/ Stream[n + 1].f = Stream[n].f + 1
    BY <2>1, <2>2 DEF Word
  <2> QED BY <2>1, <2>3, WordFacts DEF Before
<1>2. 0 \in S
  BY <1>0, <1>1
<1>3. ASSUME NEW n \in S PROVE n + 1 \in S
  <2> SUFFICES ASSUME i + (n + 1) + 1 <= Len(Stream)
               PROVE  Before(Stream[i], Stream[i + (n + 1) + 1])
    OBVIOUS
  <2> DEFINE p == i + n + 1
  <2>1. p \in 1 .. Len(Stream) - 1 /\ p + 1 = i + (n + 1) + 1 /\ p + 1 \in 1 .. Len(Stream)
    BY <1>0
  <2>2. Before(Stream[i], Stream[p])
    BY <1>0, <2>1
  <2>3. Before(Stream[p], Stream[p + 1])
    BY <1>1, <2>1
  <2> HIDE DEF p
  <2>4. Stream[i] \in Word /\ Stream[p] \in Word /\ Stream[p + 1] \in Word
    BY <1>0, <2>1
  <2>5. Before(Stream[i], Stream[p + 1])
    BY <2>2, <2>3, <2>4, BeforeTransitive
  <2> QED BY <2>1, <2>5
<1>4. S = Nat
  <2>1. S \in SUBSET Nat
    OBVIOUS
  <2> HIDE DEF S
  <2> QED BY <1>2, <1>3, <2>1, Induction
<1>5. j - i - 1 \in S /\ i + (j - i - 1) + 1 = j
  <2>1. j - i - 1 \in Nat /\ i + (j - i - 1) + 1 = j
    BY <1>0
  <2> HIDE DEF S
  <2> QED BY <1>4, <2>1
<1> QED BY <1>0, <1>5

\* Without a gap, the words after the first of a frame are the others of it.
LEMMA Contiguous ==
  ASSUME NEW words \in Seq(Word), WithoutGap(words), NEW i \in 1 .. Len(words),
         words[i].k = 0,
         NEW m \in 0 .. Sizes[words[i].f] - 1, i + m <= Len(words)
  PROVE  words[i + m] = [f |-> words[i].f, k |-> m]
<1> DEFINE f == words[i].f
           S == {n \in Nat : n < Sizes[f] /\ i + n <= Len(words) => words[i + n] = [f |-> f, k |-> n]}
<1>0. words[i] \in Word /\ Sizes[f] \in Nat /\ words[i] = [f |-> f, k |-> 0]
  <2>1. words[i] \in Word
    OBVIOUS
  <2> QED BY <2>1, WordFacts
<1>1. 0 \in S
  <2>1. i + 0 = i
    OBVIOUS
  <2> QED BY <1>0, <2>1
<1>2. ASSUME NEW n \in S PROVE n + 1 \in S
  <2> SUFFICES ASSUME n + 1 < Sizes[f], i + (n + 1) <= Len(words)
               PROVE  words[i + (n + 1)] = [f |-> f, k |-> n + 1]
    OBVIOUS
  <2> DEFINE p == i + n
  <2>1. p \in 1 .. Len(words) - 1 /\ p + 1 = i + (n + 1)
    OBVIOUS
  <2>2. words[p] = [f |-> f, k |-> n]
    BY <1>0
  <2>3. \/ words[p + 1] = [words[p] EXCEPT !.k = @ + 1]
        \/ words[p].k = Sizes[words[p].f] - 1
    BY <2>1 DEF WithoutGap
  <2> HIDE DEF p
  <2>4. words[p].k # Sizes[words[p].f] - 1
    BY <1>0, <2>2
  <2>5. words[p + 1] = [f |-> f, k |-> n + 1]
    BY <2>2, <2>3, <2>4
  <2> QED BY <2>1, <2>5
<1>3. S = Nat
  <2>1. S \in SUBSET Nat
    OBVIOUS
  <2> HIDE DEF S
  <2> QED BY <1>1, <1>2, <2>1, Induction
<1> QED BY <1>0, <1>3

-----------------------------------------------------------------------------
\* The elements of the rest of a sequence.
LEMMA TailFacts ==
  ASSUME NEW S, NEW s \in Seq(S), NEW a \in 0 .. Len(s)
  PROVE  /\ SubSeq(s, a + 1, Len(s)) \in Seq(S)
         /\ Len(SubSeq(s, a + 1, Len(s))) = Len(s) - a
         /\ \A i \in 1 .. Len(s) - a : SubSeq(s, a + 1, Len(s))[i] = s[a + i]
  OBVIOUS

\* The elements of two sequences, one after the other.
LEMMA ConcatFacts ==
  ASSUME NEW S, NEW s \in Seq(S), NEW t \in Seq(S)
  PROVE  /\ s \o t \in Seq(S) /\ Len(s \o t) = Len(s) + Len(t)
         /\ \A i \in 1 .. Len(s) : (s \o t)[i] = s[i]
         /\ \A i \in 1 .. Len(t) : (s \o t)[Len(s) + i] = t[i]
         /\ \A i \in 1 .. Len(s) + Len(t) :
              \/ i \in 1 .. Len(s) /\ (s \o t)[i] = s[i]
              \/ i - Len(s) \in 1 .. Len(t) /\ (s \o t)[i] = t[i - Len(s)]
  OBVIOUS

\* The words of a datagram.
LEMMA ArriveFacts ==
  ASSUME Inv, NEW n \in Datagrams, sent + n <= Len(Stream), sent' = sent + n
  PROVE  /\ sent' \in 0 .. Len(Stream)
         /\ SubSeq(Stream, sent + 1, sent + n) \in Seq(Word)
         /\ Len(SubSeq(Stream, sent + 1, sent + n)) = n
         /\ \A i \in 1 .. n : SubSeq(Stream, sent + 1, sent + n)[i] = Stream[sent + i]
         /\ n \in Nat /\ Stream \in Seq(Word) /\ sent \in Nat
<1>1. n \in Nat /\ Stream \in Seq(Word) /\ sent \in 0 .. Len(Stream)
  BY SizesAssumption, StreamAssumption DEF Inv, ControlOK
<1> QED BY <1>1

\* It holds before anything is sent.
LEMMA InitInv == Init => Inv
<1> SUFFICES ASSUME Init PROVE Inv
  OBVIOUS
<1>1. WordsOK
  BY DEF Init, WordsOK
<1>2. ControlOK
  BY StreamAssumption, SizesAssumption DEF Init, ControlOK
<1>3. CountOK
  <2>1. -1 \in -1 .. FrameMod - 1 /\ -1 \in -1 .. PacketMod - 1
    BY CountersAssumption
  <2>2. frames = <<>> /\ m_last_frame_count = -1 /\ last_count = -1 /\ printed = {}
        /\ updated = FALSE
    BY DEF Init
  <2>3. frames \in Seq({0} \cup DOMAIN Sizes)
    BY <2>2
  <2>4. updated \in BOOLEAN
    BY <2>2
  <2> QED BY <2>1, <2>2, <2>3, <2>4 DEF CountOK
<1> QED BY <1>1, <1>2, <1>3 DEF Inv

\* Every step takes its words from what waited or from the stream.
LEMMA WordsNext == Inv /\ [Next]_vars => WordsOK'
<1> SUFFICES ASSUME Inv, [Next]_vars PROVE WordsOK'
  OBVIOUS
<1>0. WordsOK /\ misread \in Misreadings
  BY DEF Inv, ControlOK
<1>1. ASSUME NEW n \in Datagrams, Arrive(n) PROVE WordsOK'
  <2>1. /\ pending' = pending \o SubSeq(Stream, sent + 1, sent + n)
        /\ sent + n <= Len(Stream) /\ sent' = sent + n /\ UNCHANGED <<rest, saved, batch>>
    BY <1>1 DEF Arrive, Network
  <2>2. SubSeq(Stream, sent + 1, sent + n) \in Seq(Word)
    BY <2>1, ArriveFacts
  <2>3. pending' \in Seq(Word)
    BY <1>0, <2>1, <2>2, ConcatFacts DEF WordsOK
  <2> QED BY <1>0, <2>1, <2>3 DEF WordsOK
<1>2. ASSUME NEW n \in Datagrams, Lose(n) PROVE WordsOK'
  BY <1>0, <1>2 DEF Lose, Network, WordsOK
<1>3. CASE NextBatch
  BY <1>0, <1>3, ConcatFacts DEF NextBatch, WordsOK
<1>4. CASE ProcessFrame
  <2>1. /\ Parse(rest) = "done" /\ UNCHANGED <<pending, saved, batch>>
        /\ rest' = SubSeq(rest, Advance(Found(rest)) + 1, Len(rest))
    BY <1>4 DEF ProcessFrame
  <2>2. Advance(Found(rest)) \in 0 .. Len(rest)
    <3>1. rest \in Seq(Word)
      BY <1>0 DEF WordsOK
    <3>2. Advance(Found(rest)) \in Nat /\ Advance(Found(rest)) <= Len(rest)
      BY <1>0, <2>1, <3>1, DoneFacts
    <3> QED BY <3>1, <3>2
  <2>3. rest' \in Seq(Word)
    BY <1>0, <2>1, <2>2, TailFacts DEF WordsOK
  <2> QED BY <1>0, <2>1, <2>3 DEF WordsOK
<1>5. CASE SaveRest \/ GiveUpRest
  <2>1. /\ UNCHANGED <<pending, batch>>
        /\ \/ saved' = rest /\ rest' = <<>>
           \/ saved' = saved /\ rest' = rest
           \/ saved' = <<>> /\ rest' = <<>>
    BY <1>5 DEF SaveRest, GiveUpRest
  <2>2. <<>> \in Seq(Word)
    OBVIOUS
  <2> QED BY <1>0, <2>1, <2>2 DEF WordsOK
<1>6. CASE BatchDone \/ Update \/ UNCHANGED vars
  BY <1>0, <1>6 DEF BatchDone, Update, vars, WordsOK
<1> QED BY <1>1, <1>2, <1>3, <1>4, <1>5, <1>6 DEF Next

\* Every step keeps the order of request, parse and save.
LEMMA ControlNext == Inv /\ [Next]_vars => ControlOK'
<1> SUFFICES ASSUME Inv, [Next]_vars PROVE ControlOK'
  OBVIOUS
<1>0. ControlOK /\ WordsOK
  BY DEF Inv
<1>1. ASSUME NEW n \in Datagrams, Arrive(n) \/ Lose(n) PROVE ControlOK'
  <2>1. /\ sent + n <= Len(Stream) /\ sent' = sent + n
        /\ UNCHANGED <<rest, saved, pc, misread>>
        /\ losses' = losses \/ losses' = losses + 1
    BY <1>1 DEF Arrive, Lose, Network
  <2>2. sent' \in 0 .. Len(Stream)
    BY <2>1, ArriveFacts
  <2> QED BY <1>0, <2>1, <2>2 DEF ControlOK
<1>2. CASE NextBatch
  BY <1>0, <1>2, SizesAssumption DEF NextBatch, Manager, ControlOK
<1>3. CASE ProcessFrame
  BY <1>0, <1>3 DEF ProcessFrame, Manager, ControlOK
<1>4. CASE SaveRest
  BY <1>0, <1>4 DEF SaveRest, Manager, ControlOK
<1>5. CASE GiveUpRest \/ BatchDone \/ Update \/ UNCHANGED vars
  BY <1>0, <1>5, SizesAssumption DEF GiveUpRest, BatchDone, Update, vars, Manager,
       ControlOK
<1> QED BY <1>1, <1>2, <1>3, <1>4, <1>5 DEF Next

\* Quotient and remainder.
LEMMA ModRange ==
  ASSUME NEW x \in Int, NEW m \in Nat, m > 0
  PROVE  x % m \in 0 .. m - 1 /\ x \div m \in Int /\ x = m * (x \div m) + (x % m)
  OBVIOUS

\* What a frame tells of its counters, intact or torn, is in their range.
LEMMA CountersRange ==
  ASSUME Inv, NEW found, found.f \in Nat, found.intact \in BOOLEAN,
         NEW got \in Counters(found)
  PROVE  got.frame \in 0 .. FrameMod - 1 /\ got.last \in -1 .. PacketMod - 1
<1>0. /\ FrameMod \in Nat /\ FrameMod > 0 /\ PacketMod \in Nat /\ PacketMod > 0
      /\ PacketsPerFrame \in Nat /\ last_count \in -1 .. PacketMod - 1
  BY CountersAssumption DEF Inv, CountOK
<1>1. CASE found.intact
  <2>1. got.frame = found.f % FrameMod
        /\ got.last = (found.f * PacketsPerFrame - 1) % PacketMod
    BY <1>1 DEF Counters
  <2>2. found.f * PacketsPerFrame - 1 \in Int
    BY <1>0
  <2>3. found.f % FrameMod \in 0 .. FrameMod - 1
    BY <1>0, ModRange
  <2>4. (found.f * PacketsPerFrame - 1) % PacketMod \in 0 .. PacketMod - 1
    BY <1>0, <2>2, ModRange
  <2> QED BY <1>0, <2>1, <2>3, <2>4
<1>2. CASE ~found.intact
  <2>1. \/ \E n \in 0 .. FrameMod - 1, c \in 0 .. PacketMod - 1 : got.frame = n /\ got.last = c
        \/ \E n \in 0 .. FrameMod - 1 : got.frame = n /\ got.last = last_count
    BY <1>2 DEF Counters
  <2> QED BY <1>0, <2>1
<1> QED BY <1>1, <1>2

\* Every step keeps the counters in their range.
LEMMA CountNext == Inv /\ [Next]_vars => CountOK'
<1> SUFFICES ASSUME Inv, [Next]_vars PROVE CountOK'
  OBVIOUS
<1>0. CountOK /\ WordsOK /\ misread \in Misreadings
  BY DEF Inv, ControlOK
<1>1. CASE ProcessFrame
  <2> DEFINE found == Found(rest)
  <2>0. Parse(rest) = "done" /\ updated' = FALSE
    BY <1>1 DEF ProcessFrame
  <2>1. PICK got \in Counters(found) :
          /\ printed' \subseteq {"F", "L"} /\ m_last_frame_count' = got.frame
          /\ last_count' = got.last
          /\ frames' = Append(frames, IF found.intact THEN found.f ELSE 0)
    BY <1>1 DEF ProcessFrame
  <2>2. found.f \in DOMAIN Sizes /\ found.intact \in BOOLEAN
    BY <1>0, <2>0, DoneFacts DEF WordsOK
  <2>3. found.f \in Nat
    BY <2>2, FrameWordsFacts
  <2> HIDE DEF found
  <2>4. m_last_frame_count' \in 0 .. FrameMod - 1 /\ last_count' \in -1 .. PacketMod - 1
    BY <2>1, <2>2, <2>3, CountersRange
  <2>5. frames' \in Seq({0} \cup DOMAIN Sizes)
    BY <1>0, <2>1, <2>2 DEF CountOK
  <2>6. m_last_frame_count' \in -1 .. FrameMod - 1
    BY <2>4, CountersAssumption
  <2> QED BY <2>0, <2>1, <2>4, <2>5, <2>6 DEF CountOK
<1>2. CASE UNCHANGED <<frames, m_last_frame_count, printed>>
  <2>1. (last_count' = last_count \/ last_count' = -1) /\ (updated' = updated \/ updated' = TRUE)
    BY <1>1, <1>2 DEF Next, Arrive, Lose, Network, NextBatch, SaveRest, GiveUpRest,
         BatchDone, Update, vars,
       ProcessFrame
  <2>2. updated' \in BOOLEAN
    BY <1>0, <2>1 DEF CountOK
  <2>3. last_count' \in -1 .. PacketMod - 1
    BY <1>0, <2>1, CountersAssumption DEF CountOK
  <2> QED BY <1>0, <1>2, <2>2, <2>3 DEF CountOK
<1>3. ProcessFrame \/ UNCHANGED <<frames, m_last_frame_count, printed>>
  BY DEF Next, Arrive, Lose, Network, NextBatch, SaveRest, GiveUpRest, BatchDone, Update,
       vars
<1> QED BY <1>1, <1>2, <1>3

\* Words, control and counters have their types in every state.
THEOREM Invariant == Spec => []Inv
<1>1. Inv /\ [Next]_vars => Inv'
  BY WordsNext, ControlNext, CountNext DEF Inv
<1> QED BY InitInv, <1>1, PTL DEF Spec

-----------------------------------------------------------------------------
\* The order of a part.
LEMMA OrderTail ==
  ASSUME NEW s \in Seq(Word), NEW a \in 0 .. Len(s), NEW t \in Seq(Word), NEW n
  PROVE  LET r == SubSeq(s, a + 1, Len(s))
         IN  /\ Sorted(s) => Sorted(r)
             /\ Ahead(s, t) => Ahead(r, t)
             /\ Ahead(t, s) => Ahead(t, r)
             /\ Past(n, s) => Past(n, r)
<1> DEFINE r == SubSeq(s, a + 1, Len(s))
<1>1. r \in Seq(Word) /\ Len(r) = Len(s) - a /\ \A i \in 1 .. Len(s) - a : r[i] = s[a + i]
  BY TailFacts
<1> HIDE DEF r
<1>2. \A i \in 1 .. Len(r) : a + i \in 1 .. Len(s) /\ r[i] = s[a + i]
  BY <1>1
<1>3. \A i, j \in 1 .. Len(r) : i < j => a + i < a + j
  BY <1>1
<1>4. Sorted(s) => Sorted(r)
  BY <1>2, <1>3 DEF Sorted
<1>5. (Ahead(s, t) => Ahead(r, t)) /\ (Ahead(t, s) => Ahead(t, r)) /\ (Past(n, s) => Past(n, r))
  BY <1>2 DEF Ahead, Past
<1> QED BY <1>4, <1>5 DEF r

\* The order of two sequences, one after the other.
LEMMA OrderConcat ==
  ASSUME NEW s \in Seq(Word), NEW t \in Seq(Word), NEW u \in Seq(Word), NEW n
  PROVE  /\ Sorted(s) /\ Sorted(t) /\ Ahead(s, t) => Sorted(s \o t)
         /\ Ahead(s, u) /\ Ahead(t, u) => Ahead(s \o t, u)
         /\ Ahead(u, s) /\ Ahead(u, t) => Ahead(u, s \o t)
         /\ Past(n, s) /\ Past(n, t) => Past(n, s \o t)
<1> DEFINE c == s \o t
<1>1. c \in Seq(Word) /\ Len(c) = Len(s) + Len(t) /\ Len(s) \in Nat /\ Len(t) \in Nat
  BY ConcatFacts
<1>2. \A i \in 1 .. Len(c) : \/ i \in 1 .. Len(s) /\ c[i] = s[i]
                             \/ i - Len(s) \in 1 .. Len(t) /\ c[i] = t[i - Len(s)]
  BY <1>1, ConcatFacts
<1> HIDE DEF c
<1>3. ASSUME Sorted(s), Sorted(t), Ahead(s, t) PROVE Sorted(c)
  <2> SUFFICES ASSUME NEW i \in 1 .. Len(c), NEW j \in 1 .. Len(c), i < j
               PROVE  Before(c[i], c[j])
    BY DEF Sorted
  <2>1. CASE i \in 1 .. Len(s) /\ c[i] = s[i]
    <3>1. CASE j \in 1 .. Len(s) /\ c[j] = s[j]
      BY <1>3, <2>1, <3>1 DEF Sorted
    <3>2. CASE j - Len(s) \in 1 .. Len(t) /\ c[j] = t[j - Len(s)]
      BY <1>3, <2>1, <3>2 DEF Ahead
    <3> QED BY <1>2, <3>1, <3>2
  <2>2. CASE i - Len(s) \in 1 .. Len(t) /\ c[i] = t[i - Len(s)]
    <3>0. j \notin 1 .. Len(s)
      BY <1>1, <2>2
    <3>1. j - Len(s) \in 1 .. Len(t) /\ c[j] = t[j - Len(s)]
      BY <1>2, <3>0
    <3>2. i - Len(s) < j - Len(s)
      BY <1>1
    <3> QED BY <1>3, <2>2, <3>1, <3>2 DEF Sorted
  <2> QED BY <1>2, <2>1, <2>2
<1>4. (Ahead(s, u) /\ Ahead(t, u) => Ahead(c, u)) /\ (Ahead(u, s) /\ Ahead(u, t) => Ahead(u, c))
  BY <1>2 DEF Ahead
<1>5. Past(n, s) /\ Past(n, t) => Past(n, c)
  BY <1>2 DEF Past
<1> QED BY <1>3, <1>4, <1>5 DEF c

\* Nothing is in any order.
LEMMA EmptyOrder ==
  ASSUME NEW t, NEW n
  PROVE  Sorted(<<>>) /\ Ahead(<<>>, t) /\ Ahead(t, <<>>) /\ Past(n, <<>>)
  BY DEF Sorted, Ahead, Past

\* What the network does to the words to come.
LEMMA ToComeStep ==
  ASSUME Inv, NEW n \in Datagrams, sent + n <= Len(Stream), sent' = sent + n
  PROVE  /\ ToCome \in Seq(Word) /\ n \in 0 .. Len(ToCome)
         /\ ToCome' = SubSeq(ToCome, n + 1, Len(ToCome))
         /\ LET d == SubSeq(Stream, sent + 1, sent + n)
            IN  /\ d \in Seq(Word) /\ Len(d) = n
                /\ \A i \in 1 .. n : i \in 1 .. Len(ToCome) /\ d[i] = ToCome[i]
                /\ Sorted(d) /\ Ahead(d, ToCome')
<1> DEFINE d == SubSeq(Stream, sent + 1, sent + n)
<1>1. /\ sent' \in 0 .. Len(Stream) /\ d \in Seq(Word) /\ Len(d) = n
      /\ \A i \in 1 .. n : d[i] = Stream[sent + i]
      /\ n \in Nat /\ Stream \in Seq(Word) /\ sent \in Nat
  BY ArriveFacts
<1> HIDE DEF d
<1>2. sent \in 0 .. Len(Stream)
  BY <1>1
<1>3. /\ ToCome \in Seq(Word) /\ Len(ToCome) = Len(Stream) - sent
      /\ \A i \in 1 .. Len(Stream) - sent : ToCome[i] = Stream[sent + i]
  BY <1>1, <1>2, TailFacts DEF ToCome
<1>4. n \in 0 .. Len(ToCome)
  BY <1>1, <1>3
<1>5. /\ ToCome' \in Seq(Word) /\ Len(ToCome') = Len(Stream) - sent'
      /\ \A i \in 1 .. Len(Stream) - sent' : ToCome'[i] = Stream[sent' + i]
  BY <1>1, TailFacts DEF ToCome
<1>6. ToCome' = SubSeq(ToCome, n + 1, Len(ToCome))
  <2> DEFINE r == SubSeq(ToCome, n + 1, Len(ToCome))
  <2>1. /\ r \in Seq(Word) /\ Len(r) = Len(ToCome) - n
        /\ \A i \in 1 .. Len(ToCome) - n : r[i] = ToCome[n + i]
    BY <1>3, <1>4, TailFacts
  <2> HIDE DEF r
  <2>2. Len(r) = Len(ToCome')
    BY <1>1, <1>3, <1>5, <2>1
  <2>3. \A i \in 1 .. Len(r) : r[i] = ToCome'[i]
    <3> TAKE i \in 1 .. Len(r)
    <3>0. Len(Stream) \in Nat
      BY <1>1
    <3>1. n + i \in 1 .. Len(Stream) - sent /\ i \in 1 .. Len(Stream) - sent'
          /\ i \in 1 .. Len(ToCome) - n
      BY <1>1, <1>3, <2>1, <3>0
    <3>2. sent + (n + i) = sent' + i
      BY <1>1, <3>0
    <3> QED BY <1>3, <1>5, <2>1, <3>1, <3>2
  <2>4. ToCome' = r
    BY <1>5, <2>1, <2>2, <2>3
  <2> QED BY <2>4 DEF r
<1>7. \A i \in 1 .. n : i \in 1 .. Len(ToCome) /\ d[i] = ToCome[i]
  BY <1>1, <1>3
<1>8. Sorted(d)
  <2> SUFFICES ASSUME NEW i \in 1 .. n, NEW j \in 1 .. n, i < j PROVE Before(d[i], d[j])
    BY <1>1 DEF Sorted
  <2>1. sent + i \in 1 .. Len(Stream) /\ sent + j \in 1 .. Len(Stream)
        /\ sent + i < sent + j
    BY <1>1
  <2>2. Before(Stream[sent + i], Stream[sent + j])
    BY <2>1, StreamOrder
  <2> QED BY <1>1, <2>2
<1>9. Ahead(d, ToCome')
  <2> SUFFICES ASSUME NEW i \in 1 .. n, NEW j \in 1 .. Len(Stream) - sent'
               PROVE  Before(d[i], ToCome'[j])
    BY <1>1, <1>5 DEF Ahead
  <2>1. sent + i \in 1 .. Len(Stream) /\ sent' + j \in 1 .. Len(Stream)
        /\ sent + i < sent' + j
    BY <1>1
  <2>2. Before(Stream[sent + i], Stream[sent' + j])
    BY <2>1, StreamOrder
  <2> QED BY <1>1, <1>5, <2>2
<1> QED BY <1>1, <1>3, <1>4, <1>6, <1>7, <1>8, <1>9 DEF d

\* Nothing has been processed yet.
LEMMA OrderInit == Init => OrderInv
<1> SUFFICES ASSUME Init PROVE OrderInv
  OBVIOUS
<1>1. rest = <<>> /\ saved = <<>> /\ pending = <<>> /\ frames = <<>>
  BY DEF Init
<1>2. OrderOK
  BY <1>1, EmptyOrder DEF OrderOK
<1>3. PastOK /\ FramesInOrder
  BY <1>1 DEF PastOK, FramesInOrder
<1> QED BY <1>2, <1>3 DEF OrderInv

\* What arrives is later than what waits; what is lost leaves the rest in order.
LEMMA OrderNetwork ==
  ASSUME Inv, OrderInv, NEW n \in Datagrams, Arrive(n) \/ Lose(n)
  PROVE  OrderInv'
<1> DEFINE d == SubSeq(Stream, sent + 1, sent + n)
<1>1. /\ sent + n <= Len(Stream) /\ sent' = sent + n /\ UNCHANGED <<rest, saved, frames>>
      /\ pending' = pending \/ pending' = pending \o d
  BY DEF Arrive, Lose, Network
<1>2. /\ ToCome \in Seq(Word) /\ n \in 0 .. Len(ToCome)
      /\ ToCome' = SubSeq(ToCome, n + 1, Len(ToCome))
      /\ d \in Seq(Word) /\ Len(d) = n
      /\ \A i \in 1 .. n : i \in 1 .. Len(ToCome) /\ d[i] = ToCome[i]
      /\ Sorted(d) /\ Ahead(d, ToCome')
  BY <1>1, ToComeStep
<1>3. rest \in Seq(Word) /\ saved \in Seq(Word) /\ pending \in Seq(Word)
  BY DEF Inv, WordsOK
<1> HIDE DEF d
<1>4. ASSUME NEW s \in Seq(Word), Ahead(s, ToCome) PROVE Ahead(s, ToCome') /\ Ahead(s, d)
  <2>1. Ahead(s, SubSeq(ToCome, n + 1, Len(ToCome)))
    BY <1>2, <1>4, OrderTail
  <2>2. Ahead(s, d)
    BY <1>2, <1>4 DEF Ahead
  <2> QED BY <1>2, <2>1, <2>2
<1>5. ASSUME NEW f, Past(f, ToCome) PROVE Past(f, ToCome') /\ Past(f, d)
  <2>1. Past(f, SubSeq(ToCome, n + 1, Len(ToCome)))
    BY <1>2, <1>5, OrderTail
  <2>2. Past(f, d)
    BY <1>2, <1>5 DEF Past
  <2> QED BY <1>2, <2>1, <2>2
<1>6. OrderOK
  BY DEF OrderInv
<1>7. /\ Ahead(rest, ToCome') /\ Ahead(saved, ToCome') /\ Ahead(pending, ToCome')
      /\ Ahead(rest, d) /\ Ahead(saved, d) /\ Ahead(pending, d)
  BY <1>3, <1>4, <1>6 DEF OrderOK
<1>8. /\ Sorted(pending') /\ Ahead(rest, pending') /\ Ahead(saved, pending')
      /\ Ahead(pending', ToCome')
  <2>0. ToCome' \in Seq(Word)
    BY <1>2, TailFacts
  <2>1. /\ Sorted(pending \o d) /\ Ahead(rest, pending \o d) /\ Ahead(saved, pending \o d)
        /\ Ahead(pending \o d, ToCome')
    BY <1>2, <1>3, <1>6, <1>7, <2>0, OrderConcat DEF OrderOK
  <2> QED BY <1>1, <1>6, <1>7, <2>1 DEF OrderOK
<1>9. OrderOK'
  BY <1>1, <1>6, <1>7, <1>8 DEF OrderOK
<1>10. PastOK'
  <2> SUFFICES ASSUME NEW m \in 1 .. Len(frames), frames[m] # 0
               PROVE  /\ Past(frames[m], rest) /\ Past(frames[m], saved)
                      /\ Past(frames[m], pending') /\ Past(frames[m], ToCome')
    BY <1>1 DEF PastOK
  <2>1. /\ Past(frames[m], rest) /\ Past(frames[m], saved) /\ Past(frames[m], pending)
        /\ Past(frames[m], ToCome)
    BY DEF OrderInv, PastOK
  <2>2. Past(frames[m], ToCome') /\ Past(frames[m], d)
    BY <1>5, <2>1
  <2>3. Past(frames[m], pending \o d)
    BY <1>2, <1>3, <2>1, <2>2, OrderConcat
  <2> QED BY <1>1, <2>1, <2>2, <2>3
<1>11. FramesInOrder'
  BY <1>1 DEF OrderInv, FramesInOrder
<1> QED BY <1>9, <1>10, <1>11 DEF OrderInv

\* A frame that is processed is later than those before, and all that is left is
\* later than it: where its last word is, no other word of it comes again.
LEMMA OrderProcess ==
  ASSUME Inv, OrderInv, ProcessFrame
  PROVE  OrderInv'
<1> DEFINE found == Found(rest)
           a == Advance(found)
           f == found.f
<1>0. /\ Parse(rest) = "done" /\ UNCHANGED <<pending, saved, sent>>
      /\ frames' = Append(frames, IF found.intact THEN f ELSE 0)
      /\ rest' = SubSeq(rest, a + 1, Len(rest))
  BY DEF ProcessFrame, Manager
<1>1. /\ rest \in Seq(Word) /\ saved \in Seq(Word) /\ pending \in Seq(Word)
      /\ frames \in Seq({0} \cup DOMAIN Sizes) /\ misread \in Misreadings
  BY DEF Inv, WordsOK, CountOK, ControlOK
<1>2. ToCome \in Seq(Word) /\ ToCome' = ToCome
  BY <1>0, TailFacts, StreamAssumption DEF Inv, ControlOK, ToCome
<1>3. /\ found.skipped \in Nat /\ a \in Nat /\ a <= Len(rest)
      /\ found.skipped + 1 \in 1 .. Len(rest)
      /\ rest[found.skipped + 1] = [f |-> f, k |-> 0]
      /\ f \in DOMAIN Sizes /\ found.intact \in BOOLEAN
  BY <1>0, <1>1, DoneFacts
<1>4. found.intact => /\ a = found.skipped + Sizes[f]
                      /\ \A m \in 1 .. Sizes[f] : rest[found.skipped + m] = [f |-> f, k |-> m - 1]
  BY <1>0, <1>1, DoneFacts DEF Advance
<1>5. f \in Nat /\ Sizes[f] \in Nat /\ Sizes[f] >= 5
  BY <1>3, FrameWordsFacts
<1> HIDE DEF found, a, f
<1>6. a \in 0 .. Len(rest)
  BY <1>1, <1>3
<1>7. rest' \in Seq(Word) /\ Len(rest') = Len(rest) - a
      /\ \A i \in 1 .. Len(rest) - a : rest'[i] = rest[a + i]
  BY <1>0, <1>1, <1>6, TailFacts
<1>8. OrderOK /\ PastOK /\ FramesInOrder
  BY DEF OrderInv
<1>9. OrderOK'
  <2>1. Sorted(rest') /\ Ahead(rest', pending) /\ Ahead(rest', ToCome)
    BY <1>0, <1>1, <1>2, <1>6, <1>8, OrderTail DEF OrderOK
  <2> QED BY <1>0, <1>2, <1>8, <2>1 DEF OrderOK
<1>10. ASSUME NEW m \in 1 .. Len(frames), frames[m] # 0
       PROVE  /\ Past(frames[m], rest') /\ Past(frames[m], saved)
              /\ Past(frames[m], pending)
              /\ Past(frames[m], ToCome) /\ frames[m] < f
  <2>1. /\ Past(frames[m], rest) /\ Past(frames[m], saved) /\ Past(frames[m], pending)
        /\ Past(frames[m], ToCome)
    BY <1>8, <1>10 DEF PastOK
  <2>2. Past(frames[m], rest')
    BY <1>0, <1>1, <1>6, <2>1, OrderTail
  <2>3. frames[m] < f
    BY <1>3, <2>1 DEF Past
  <2> QED BY <2>1, <2>2, <2>3
<1>11. ASSUME found.intact
       PROVE  Past(f, rest') /\ Past(f, saved) /\ Past(f, pending) /\ Past(f, ToCome)
  <2>1. a \in 1 .. Len(rest) /\ rest[a] = [f |-> f, k |-> Sizes[f] - 1]
    <3>1. Sizes[f] \in 1 .. Sizes[f]
      BY <1>5
    <3> QED BY <1>3, <1>4, <1>5, <1>11, <3>1
  <2>2. ASSUME NEW w \in Word, Before(rest[a], w) PROVE f < w.f
    <3>1. w.f \in Nat /\ w.k \in Nat /\ w.k < Sizes[w.f]
      BY <2>2, WordFacts
    <3> QED BY <1>5, <2>1, <2>2, <3>1 DEF Before
  <2>3. ASSUME NEW i \in 1 .. Len(rest') PROVE f < rest'[i].f
    <3>0. Len(rest) \in Nat /\ a \in Nat /\ i \in 1 .. Len(rest) - a
          /\ rest'[i] = rest[a + i]
      BY <1>1, <1>3, <1>7
    <3>1. a + i \in 1 .. Len(rest) /\ a < a + i /\ rest'[i] = rest[a + i]
      BY <3>0
    <3>2. Before(rest[a], rest[a + i]) /\ rest[a + i] \in Word
      BY <1>1, <1>8, <2>1, <3>1 DEF OrderOK, Sorted
    <3> QED BY <2>2, <3>1, <3>2
  <2>4. ASSUME NEW t \in Seq(Word), Ahead(rest, t) PROVE Past(f, t)
    <3> SUFFICES ASSUME NEW i \in 1 .. Len(t) PROVE f < t[i].f
      BY DEF Past
    <3>1. Before(rest[a], t[i]) /\ t[i] \in Word
      BY <2>1, <2>4 DEF Ahead
    <3> QED BY <2>2, <3>1
  <2>5. Past(f, pending) /\ Past(f, ToCome)
    BY <1>1, <1>2, <1>8, <2>4 DEF OrderOK
  <2>6. Past(f, saved)
    <3>1. rest # <<>>
      BY <2>1
    <3>2. saved = <<>>
      BY <3>1 DEF Inv, ControlOK
    <3> QED BY <3>2, EmptyOrder
  <2>7. Past(f, rest')
    BY <2>3 DEF Past
  <2> QED BY <2>5, <2>6, <2>7
<1>12. /\ Len(frames') = Len(frames) + 1 /\ Len(frames) \in Nat
       /\ \A m \in 1 .. Len(frames) : frames'[m] = frames[m]
       /\ frames'[Len(frames) + 1] # 0 => found.intact /\ frames'[Len(frames) + 1] = f
       /\ DOMAIN frames' = 1 .. Len(frames) + 1 /\ DOMAIN frames = 1 .. Len(frames)
  BY <1>0, <1>1
<1>13. PastOK'
  <2> SUFFICES ASSUME NEW m \in 1 .. Len(frames) + 1, frames'[m] # 0
               PROVE  /\ Past(frames'[m], rest') /\ Past(frames'[m], saved)
                      /\ Past(frames'[m], pending) /\ Past(frames'[m], ToCome)
    BY <1>0, <1>2, <1>12 DEF PastOK
  <2>1. CASE m = Len(frames) + 1
    BY <1>11, <1>12, <2>1
  <2>2. CASE m \in 1 .. Len(frames)
    BY <1>10, <1>12, <2>2
  <2> QED BY <1>12, <2>1, <2>2
<1>14. FramesInOrder'
  <2> SUFFICES ASSUME NEW i \in 1 .. Len(frames) + 1, NEW j \in 1 .. Len(frames) + 1,
                      i < j, frames'[i] # 0, frames'[j] # 0
               PROVE  frames'[i] < frames'[j]
    BY <1>12 DEF FramesInOrder
  <2>1. i \in 1 .. Len(frames)
    BY <1>12
  <2>2. CASE j = Len(frames) + 1
    BY <1>10, <1>12, <2>1, <2>2
  <2>3. CASE j \in 1 .. Len(frames)
    BY <1>8, <1>12, <2>1, <2>3 DEF FramesInOrder
  <2> QED BY <1>12, <2>2, <2>3
<1> QED BY <1>9, <1>13, <1>14 DEF OrderInv

\* Every step keeps the order.
LEMMA OrderNext == Inv /\ OrderInv /\ [Next]_vars => OrderInv'
<1> SUFFICES ASSUME Inv, OrderInv, [Next]_vars PROVE OrderInv'
  OBVIOUS
<1>0. /\ rest \in Seq(Word) /\ saved \in Seq(Word) /\ pending \in Seq(Word)
      /\ OrderOK /\ PastOK /\ FramesInOrder
  BY DEF Inv, WordsOK, OrderInv
<1>1. ToCome \in Seq(Word)
  BY TailFacts, StreamAssumption DEF Inv, ControlOK, ToCome
<1>2. CASE NextBatch
  <2>1. /\ rest' = saved \o pending /\ saved' = <<>> /\ pending' = <<>>
        /\ UNCHANGED <<sent, frames>>
    BY <1>2 DEF NextBatch, Manager
  <2>2. ToCome' = ToCome
    BY <2>1 DEF ToCome
  <2>3. Sorted(saved \o pending) /\ Ahead(saved \o pending, ToCome)
    BY <1>0, <1>1, OrderConcat DEF OrderOK
  <2>4. OrderOK'
    BY <2>1, <2>2, <2>3, EmptyOrder DEF OrderOK
  <2>5. \A m \in 1 .. Len(frames) : frames[m] # 0 => Past(frames[m], saved \o pending)
    BY <1>0, OrderConcat DEF PastOK
  <2>6. PastOK'
    BY <1>0, <2>1, <2>2, <2>5, EmptyOrder DEF PastOK
  <2>7. FramesInOrder'
    BY <1>0, <2>1 DEF FramesInOrder
  <2> QED BY <2>4, <2>6, <2>7 DEF OrderInv
<1>3. CASE SaveRest \/ GiveUpRest
  <2>1. /\ UNCHANGED <<pending, sent, frames>>
        /\ \/ saved' = rest /\ rest' = <<>>
           \/ saved' = saved /\ rest' = rest
           \/ saved' = <<>> /\ rest' = <<>>
    BY <1>3 DEF SaveRest, GiveUpRest, Manager
  <2>2. ToCome' = ToCome
    BY <2>1 DEF ToCome
  <2>3. OrderOK'
    BY <1>0, <2>1, <2>2, EmptyOrder DEF OrderOK
  <2>4. PastOK'
    BY <1>0, <2>1, <2>2, EmptyOrder DEF PastOK
  <2>5. FramesInOrder'
    BY <1>0, <2>1 DEF FramesInOrder
  <2> QED BY <2>3, <2>4, <2>5 DEF OrderInv
<1>4. CASE BatchDone \/ Update \/ UNCHANGED vars
  <2>1. UNCHANGED <<rest, saved, pending, sent, frames>>
    BY <1>4 DEF BatchDone, Update, vars, Manager
  <2> QED BY <2>1 DEF OrderInv, OrderOK, PastOK, FramesInOrder, ToCome
<1> QED BY <1>2, <1>3, <1>4, OrderNetwork, OrderProcess DEF Next

\* FramesInOrder holds of every behaviour: no frame is processed twice or after a later
\* one, whatever is lost and however the batches are cut.
THEOREM OrderIsKept == Spec => []FramesInOrder
<1>1. (Inv /\ OrderInv) /\ [Next]_vars => (Inv /\ OrderInv)'
  BY WordsNext, ControlNext, CountNext, OrderNext DEF Inv
<1>2. Inv /\ OrderInv => FramesInOrder
  BY DEF OrderInv
<1> QED BY InitInv, OrderInit, <1>1, <1>2, PTL DEF Spec

-----------------------------------------------------------------------------
\* A part of a sequence without a gap has none.
LEMMA GapFreePart ==
  ASSUME NEW words \in Seq(Word), WithoutGap(words), NEW d \in Nat, NEW part \in Seq(Word),
         d + Len(part) <= Len(words), \A i \in 1 .. Len(part) : part[i] = words[d + i]
  PROVE  WithoutGap(part)
<1> SUFFICES ASSUME NEW i \in 1 .. Len(part) - 1
             PROVE  \/ part[i + 1] = [part[i] EXCEPT !.k = @ + 1]
                    \/ /\ part[i].k = Sizes[part[i].f] - 1
                       /\ part[i + 1] = [f |-> part[i].f + 1, k |-> 0]
  BY DEF WithoutGap
<1>1. d + i \in 1 .. Len(words) - 1 /\ i \in 1 .. Len(part) /\ i + 1 \in 1 .. Len(part)
  OBVIOUS
<1>2. part[i] = words[d + i] /\ part[i + 1] = words[(d + i) + 1]
  <2>1. d + (i + 1) = (d + i) + 1
    OBVIOUS
  <2> QED BY <1>1, <2>1
<1>3. \/ words[(d + i) + 1] = [words[d + i] EXCEPT !.k = @ + 1]
      \/ /\ words[d + i].k = Sizes[words[d + i].f] - 1
         /\ words[(d + i) + 1] = [f |-> words[d + i].f + 1, k |-> 0]
  BY <1>1 DEF WithoutGap
<1> QED BY <1>2, <1>3

\* No frame is complete in these words.
NoneComplete(words) ==
  \A i \in 1 .. Len(words) : words[i].k = 0 => i - 1 + Sizes[words[i].f] > Len(words)

\* Without a gap VRLFrame::parse takes the first complete frame, whole, and gives up
\* only where none is complete; it takes no frame for torn.
LEMMA GapFreeParse ==
  ASSUME NEW words \in Seq(Word), WithoutGap(words), words # <<>>, misread \in Misreadings
  PROVE  /\ Parse(words) = "done" =>
              /\ Found(words).intact /\ Found(words).skipped = Skipped(words)
              /\ \A i \in 1 .. Skipped(words) : words[i].k # 0
         /\ Parse(words) # "done" => NoneComplete(words)
         /\ Parse(words) = "runtime_error" => words[1].k # 0
<1> DEFINE s == Skipped(words)
           f == words[s + 1].f
           size == IF words[s + 2] = [f |-> f, k |-> 1] THEN Sizes[f] ELSE misread.size
           intact == IsPrefix(FrameWords(f), SubSeq(words, s + 1, Len(words)))
<1>1. Found(words).f = f /\ Found(words).skipped = s /\ Found(words).size = size
      /\ Found(words).intact = intact
  BY DEF Found
<1>2. /\ s \in 0 .. Len(words) /\ (Len(words) - s < 5 \/ words[s + 1].k = 0)
      /\ \A j \in 0 .. s - 1 : words[j + 1].k # 0
  BY SkippedFacts
<1>3. Len(words) \in Nat /\ Len(words) > 0 /\ s \in Nat /\ s <= Len(words)
  BY <1>2
<1>4. ASSUME NEW i \in 1 .. s PROVE words[i].k # 0
  <2>1. i - 1 \in 0 .. s - 1 /\ (i - 1) + 1 = i
    BY <1>3
  <2> QED BY <1>2, <2>1
<1>5. \A i \in 1 .. Len(words) : words[i] \in Word
  OBVIOUS
<1>6. CASE Len(words) < 5
  <2>1. Parse(words) = "index_error"
    BY <1>6 DEF Parse, MinWords
  <2>2. ASSUME NEW i \in 1 .. Len(words) PROVE i - 1 + Sizes[words[i].f] > Len(words)
    <3>1. Sizes[words[i].f] \in Nat /\ Sizes[words[i].f] >= 5
      BY <1>5, WordFacts
    <3> QED BY <1>3, <1>6, <3>1
  <2> QED BY <2>1, <2>2 DEF NoneComplete
<1>7. CASE Len(words) >= 5 /\ Len(words) - s < 5
  <2>1. Parse(words) = "runtime_error"
    BY <1>3, <1>7 DEF Parse, MinWords
  <2>2. ASSUME NEW i \in 1 .. Len(words), words[i].k = 0
        PROVE  i - 1 + Sizes[words[i].f] > Len(words)
    <3>1. Sizes[words[i].f] \in Nat /\ Sizes[words[i].f] >= 5
      BY <1>5, WordFacts
    <3>2. i > s
      BY <1>3, <1>4, <2>2
    <3> HIDE DEF s
    <3> QED BY <1>3, <1>7, <3>1, <3>2
  <2>3. words[1].k # 0
    <3>1. 1 \in 1 .. s
      BY <1>3, <1>7
    <3> QED BY <1>4, <3>1
  <2> QED BY <2>1, <2>2, <2>3 DEF NoneComplete
<1>8. CASE Len(words) - s >= 5
  <2>1. s + 1 \in 1 .. Len(words) /\ words[s + 1].k = 0 /\ (s + 1) + 1 \in 1 .. Len(words)
    BY <1>2, <1>3, <1>8
  <2>2. f \in DOMAIN Sizes /\ Sizes[f] \in Nat /\ Sizes[f] >= 5
    BY <1>5, <2>1, WordFacts
  <2>3. ASSUME NEW m \in 0 .. Sizes[f] - 1, s + 1 + m <= Len(words)
        PROVE  words[s + 1 + m] = [f |-> f, k |-> m]
    BY <2>1, <2>3, Contiguous
  <2>4. size = Sizes[f]
    <3>1. 1 \in 0 .. Sizes[f] - 1 /\ s + 1 + 1 <= Len(words) /\ s + 1 + 1 = s + 2
      BY <1>3, <1>8, <2>2
    <3>2. words[s + 1 + 1] = [f |-> f, k |-> 1]
      BY <2>3, <3>1
    <3> QED BY <3>1, <3>2
  <2>5. CASE Sizes[f] > Len(words) - s
    <3>1. Parse(words) = "index_error"
      <4>1. Found(words).size > Len(words) - Skipped(words)
        BY <1>1, <2>4, <2>5
      <4>2. Len(words) >= 5 /\ ~(Len(words) - Skipped(words) < 5)
        BY <1>3, <1>8
      <4> QED BY <1>8, <4>1, <4>2 DEF Parse, MinWords
    <3>2. ASSUME NEW i \in 1 .. Len(words), words[i].k = 0
          PROVE  i - 1 + Sizes[words[i].f] > Len(words)
      <4>1. i > s
        BY <1>3, <1>4, <3>2
      <4>2. i - s - 1 \in 0 .. Sizes[f] - 1 /\ s + 1 + (i - s - 1) = i
        <5> HIDE DEF s, f
        <5> QED BY <1>3, <2>2, <2>5, <4>1
      <4>3. words[i] = [f |-> f, k |-> i - s - 1]
        BY <2>3, <4>2
      <4>4. i = s + 1 /\ words[i].f = f
        <5>1. words[i].f = f /\ i - s - 1 = 0
          BY <3>2, <4>3
        <5> QED BY <1>3, <5>1
      <4> HIDE DEF s, f
      <4> QED BY <1>3, <2>2, <2>5, <4>4
    <3> QED BY <3>1, <3>2 DEF NoneComplete
  <2>6. CASE Sizes[f] <= Len(words) - s
    <3>1. ASSUME NEW m \in 1 .. Sizes[f] PROVE words[s + m] = [f |-> f, k |-> m - 1]
      <4>1. m - 1 \in 0 .. Sizes[f] - 1 /\ s + 1 + (m - 1) <= Len(words)
            /\ s + 1 + (m - 1) = s + m
        <5> HIDE DEF s, f
        <5> QED BY <1>3, <2>2, <2>6
      <4> QED BY <2>3, <4>1
    <3>2. intact
      BY <1>2, <2>2, <2>6, <3>1, IntactIff
    <3>3. Parse(words) = "done"
      <4>1. ~(Found(words).size > Len(words) - Skipped(words)) /\ Found(words).intact
        BY <1>1, <1>3, <2>2, <2>4, <2>6, <3>2
      <4>2. ~(Len(words) < 5) /\ ~(Len(words) - Skipped(words) < 5)
        BY <1>3, <1>8
      <4> QED BY <4>1, <4>2 DEF Parse, MinWords
    <3> QED BY <1>1, <1>4, <3>2, <3>3
  <2> HIDE DEF s, f
  <2> QED BY <1>3, <2>2, <2>5, <2>6
<1> HIDE DEF s
<1> QED BY <1>3, <1>6, <1>7, <1>8

-----------------------------------------------------------------------------
\* The words that are in frames that were processed.
Done == sent - (Len(rest) + Len(saved) + Len(pending))

\* What waits is the stream from there on.
LinedUp ==
  /\ Done \in Nat
  /\ \A i \in 1 .. Len(rest) : rest[i] = Stream[Done + i]
  /\ \A i \in 1 .. Len(saved) : saved[i] = Stream[Done + Len(rest) + i]
  /\ \A i \in 1 .. Len(pending) : pending[i] = Stream[Done + Len(rest) + Len(saved) + i]

\* The frames so far are all the frames of the stream up to there.
AtBoundary ==
  /\ \A i \in 1 .. Len(frames) : frames[i] = i
  /\ \/ Done = 0 /\ Len(frames) = 0
     \/ /\ Done > 0 /\ Len(frames) \in DOMAIN Sizes
        /\ Stream[Done] = [f |-> Len(frames), k |-> Sizes[Len(frames)] - 1]

\* The inductive invariant of the carry-over.
CarryInv == losses = 0 => pc # "crashed" /\ LinedUp /\ AtBoundary

\* With nothing lost, rest begins with a frame and has no gap.
LEMMA RestInStep ==
  ASSUME Inv, LinedUp, AtBoundary, rest # <<>>
  PROVE  WithoutGap(rest) /\ rest[1] = [f |-> Len(frames) + 1, k |-> 0]
<1>1. /\ rest \in Seq(Word) /\ Stream \in Seq(Word) /\ WithoutGap(Stream)
      /\ sent \in 0 .. Len(Stream) /\ Len(saved) \in Nat /\ Len(pending) \in Nat
      /\ frames \in Seq({0} \cup DOMAIN Sizes)
  BY StreamAssumption DEF Inv, WordsOK, ControlOK, CountOK
<1>2. Done \in Nat /\ Done + Len(rest) <= Len(Stream) /\ Len(rest) \in Nat /\ Len(rest) > 0
  BY <1>1 DEF LinedUp, Done
<1>3. \A i \in 1 .. Len(rest) : rest[i] = Stream[Done + i]
  BY DEF LinedUp
<1>4. WithoutGap(rest)
  BY <1>1, <1>2, <1>3, GapFreePart
<1>5. rest[1] = Stream[Done + 1]
  BY <1>2, <1>3
<1>6. CASE Done = 0 /\ Len(frames) = 0
  <2>1. Stream # <<>>
    BY <1>1, <1>2
  <2> QED BY <1>4, <1>5, <1>6, <2>1, StreamAssumption
<1>7. CASE /\ Done > 0 /\ Len(frames) \in DOMAIN Sizes
           /\ Stream[Done] = [f |-> Len(frames), k |-> Sizes[Len(frames)] - 1]
  <2>1. Done \in 1 .. Len(Stream) - 1 /\ Done + 1 \in 1 .. Len(Stream)
    BY <1>1, <1>2, <1>7
  <2>2. \/ Stream[Done + 1] = [Stream[Done] EXCEPT !.k = @ + 1]
        \/ Stream[Done + 1] = [f |-> Stream[Done].f + 1, k |-> 0]
    BY <1>1, <2>1 DEF WithoutGap
  <2>3. Stream[Done + 1] # [Stream[Done] EXCEPT !.k = @ + 1]
    <3>1. Stream[Done + 1] \in Word
      BY <1>1, <2>1
    <3>2. Stream[Done + 1].k < Sizes[Stream[Done + 1].f] /\ Stream[Done + 1].k \in Nat
      BY <3>1, WordFacts
    <3>3. Sizes[Len(frames)] \in Nat
      BY <1>7, FrameWordsFacts
    <3> QED BY <1>7, <3>2, <3>3
  <2> QED BY <1>4, <1>5, <1>7, <2>2, <2>3
<1> QED BY <1>4, <1>6, <1>7 DEF AtBoundary

\* Nothing waits yet.
LEMMA CarryInit == Init => CarryInv
<1> SUFFICES ASSUME Init PROVE pc # "crashed" /\ LinedUp /\ AtBoundary
  BY DEF CarryInv
<1>1. rest = <<>> /\ saved = <<>> /\ pending = <<>> /\ frames = <<>> /\ sent = 0
      /\ pc = "request"
  BY DEF Init
<1>2. Len(rest) = 0 /\ Len(saved) = 0 /\ Len(pending) = 0 /\ Len(frames) = 0
  BY <1>1
<1>3. Done = 0
  <2>1. sent = 0
    BY <1>1
  <2> QED BY <1>2, <2>1 DEF Done
<1> QED BY <1>1, <1>2, <1>3 DEF LinedUp, AtBoundary

\* A datagram continues what waits.
LEMMA CarryArrive ==
  ASSUME Inv, LinedUp, AtBoundary, NEW n \in Datagrams, Arrive(n)
  PROVE  LinedUp' /\ AtBoundary'
<1> DEFINE d == SubSeq(Stream, sent + 1, sent + n)
<1>1. /\ sent + n <= Len(Stream) /\ sent' = sent + n /\ UNCHANGED <<rest, saved, frames>>
      /\ pending' = pending \o d
  BY DEF Arrive, Network
<1>2. /\ d \in Seq(Word) /\ Len(d) = n /\ \A i \in 1 .. n : d[i] = Stream[sent + i]
      /\ n \in Nat /\ sent \in Nat
  BY <1>1, ArriveFacts
<1>3. pending \in Seq(Word) /\ Len(rest) \in Nat /\ Len(saved) \in Nat
      /\ Len(pending) \in Nat
  BY DEF Inv, WordsOK
<1> HIDE DEF d
<1>4. /\ Len(pending') = Len(pending) + n
      /\ \A i \in 1 .. Len(pending) + n :
           \/ i \in 1 .. Len(pending) /\ pending'[i] = pending[i]
           \/ i - Len(pending) \in 1 .. n /\ pending'[i] = d[i - Len(pending)]
  <2>1. pending \in Seq(Word) /\ d \in Seq(Word) /\ Len(d) = n /\ pending' = pending \o d
    BY <1>1, <1>2, <1>3
  <2> QED BY ONLY <2>1, ConcatFacts
<1>5. Done' = Done
  BY <1>1, <1>2, <1>3, <1>4 DEF Done
<1>6. ASSUME NEW i \in 1 .. Len(pending')
      PROVE  pending'[i] = Stream[Done + Len(rest) + Len(saved) + i]
  <2>1. CASE i \in 1 .. Len(pending) /\ pending'[i] = pending[i]
    BY <2>1 DEF LinedUp
  <2>2. CASE i - Len(pending) \in 1 .. n /\ pending'[i] = d[i - Len(pending)]
    <3>1. sent + (i - Len(pending)) = Done + Len(rest) + Len(saved) + i
      BY <1>2, <1>3 DEF Done
    <3>2. pending'[i] = Stream[sent + (i - Len(pending))]
      BY <1>2, <2>2
    <3> QED BY <3>1, <3>2
  <2> QED BY <1>4, <2>1, <2>2
<1>7. LinedUp'
  BY <1>1, <1>5, <1>6 DEF LinedUp
<1> QED BY <1>1, <1>5, <1>7 DEF AtBoundary

\* The next frame of the stream is processed.
LEMMA CarryProcess ==
  ASSUME Inv, LinedUp, AtBoundary, ProcessFrame
  PROVE  LinedUp' /\ AtBoundary'
<1> DEFINE found == Found(rest)
           a == Advance(found)
           f == found.f
<1>0. /\ Parse(rest) = "done" /\ rest # <<>> /\ UNCHANGED <<pending, saved, sent>>
      /\ frames' = Append(frames, IF found.intact THEN f ELSE 0)
      /\ rest' = SubSeq(rest, a + 1, Len(rest))
  BY DEF ProcessFrame, Manager
<1>1. /\ rest \in Seq(Word) /\ saved \in Seq(Word) /\ pending \in Seq(Word)
      /\ frames \in Seq({0} \cup DOMAIN Sizes) /\ misread \in Misreadings /\ sent \in Nat
  BY DEF Inv, WordsOK, CountOK, ControlOK
<1>2. WithoutGap(rest) /\ rest[1] = [f |-> Len(frames) + 1, k |-> 0]
  BY <1>0, RestInStep
<1>3. /\ found.intact /\ found.skipped = Skipped(rest)
      /\ \A i \in 1 .. Skipped(rest) : rest[i].k # 0
  BY <1>0, <1>1, <1>2, GapFreeParse
<1>4. Skipped(rest) = 0
  <2>1. Skipped(rest) \in Nat
    BY <1>1, SkippedFacts
  <2> QED BY <1>2, <1>3, <2>1
<1>5. /\ f \in DOMAIN Sizes /\ a = found.skipped + Sizes[f]
      /\ a \in Nat /\ a <= Len(rest)
      /\ rest[found.skipped + 1] = [f |-> f, k |-> 0]
      /\ \A m \in 1 .. Sizes[f] : rest[found.skipped + m] = [f |-> f, k |-> m - 1]
  BY <1>0, <1>1, <1>3, DoneFacts DEF Advance
<1> HIDE DEF found, a, f
<1>6. f = Len(frames) + 1 /\ Sizes[f] \in Nat /\ Sizes[f] >= 5 /\ a = Sizes[f]
      /\ a \in 0 .. Len(rest)
  <2>1. Sizes[f] \in Nat /\ Sizes[f] >= 5
    BY <1>5, FrameWordsFacts
  <2>2. rest[1] = [f |-> f, k |-> 0] /\ a = Sizes[f]
    BY <1>3, <1>4, <1>5, <2>1
  <2>3. Len(rest) \in Nat
    BY <1>1
  <2> QED BY <1>2, <1>5, <2>1, <2>2, <2>3
<1>7. /\ Len(rest') = Len(rest) - a /\ \A i \in 1 .. Len(rest) - a : rest'[i] = rest[a + i]
  <2>1. rest \in Seq(Word) /\ a \in 0 .. Len(rest) /\ rest' = SubSeq(rest, a + 1, Len(rest))
    BY <1>0, <1>1, <1>6
  <2> QED BY ONLY <2>1, TailFacts
<1>8. Len(rest) \in Nat /\ Len(saved) \in Nat /\ Len(pending) \in Nat /\ a \in Nat /\ a > 0
  BY <1>1, <1>5, <1>6
<1>9. Done' = Done + a /\ Done \in Nat
  <2>1. sent' = sent /\ Len(saved') = Len(saved) /\ Len(pending') = Len(pending)
        /\ Done \in Nat
    BY <1>0 DEF LinedUp
  <2> QED BY <1>1, <1>7, <1>8, <2>1 DEF Done
<1>10. \A i \in 1 .. Len(rest') : rest'[i] = Stream[Done' + i]
  <2> TAKE i \in 1 .. Len(rest')
  <2>1. i \in 1 .. Len(rest) - a /\ a + i \in 1 .. Len(rest) /\ Done + (a + i) = Done' + i
    BY <1>7, <1>8, <1>9
  <2>2. rest[a + i] = Stream[Done + (a + i)]
    BY <2>1 DEF LinedUp
  <2> QED BY <1>7, <2>1, <2>2
<1>11. Done' + Len(rest') = Done + Len(rest)
  BY <1>7, <1>8, <1>9
<1>12. LinedUp'
  <2>1. Done' \in Nat
    BY <1>8, <1>9
  <2>2. \A i \in 1 .. Len(saved') : saved'[i] = Stream[Done' + Len(rest') + i]
    BY <1>0, <1>11 DEF LinedUp
  <2>3. \A i \in 1 .. Len(pending') : pending'[i] = Stream[Done' + Len(rest') + Len(saved') + i]
    BY <1>0, <1>11 DEF LinedUp
  <2> QED BY <1>10, <2>1, <2>2, <2>3 DEF LinedUp
<1>13. /\ Len(frames') = Len(frames) + 1 /\ Len(frames) \in Nat
       /\ \A m \in 1 .. Len(frames) : frames'[m] = frames[m]
       /\ frames'[Len(frames) + 1] = Len(frames) + 1
  <2>1. frames' = Append(frames, f)
    BY <1>0, <1>3
  <2> QED BY <1>1, <1>6, <2>1
<1>14. \A i \in 1 .. Len(frames') : frames'[i] = i
  BY <1>13 DEF AtBoundary
<1>15. Stream[Done'] = [f |-> f, k |-> Sizes[f] - 1]
  <2>1. a \in 1 .. Len(rest) /\ a \in 1 .. Sizes[f] /\ found.skipped + a = a
    BY <1>3, <1>4, <1>6, <1>8
  <2>2. rest[a] = [f |-> f, k |-> a - 1]
    BY <1>5, <2>1
  <2>3. rest[a] = Stream[Done + a]
    BY <2>1 DEF LinedUp
  <2> QED BY <1>6, <1>9, <2>2, <2>3
<1>16. AtBoundary'
  <2>1. Done' > 0 /\ Len(frames') = f
    BY <1>6, <1>8, <1>9, <1>13
  <2> QED BY <1>5, <1>14, <1>15, <2>1 DEF AtBoundary
<1> QED BY <1>12, <1>16

\* Every step keeps the carry-over whole; what is kept is shorter than a frame, and
\* the search for a frame never gives up.
LEMMA CarryNext == Inv /\ CarryInv /\ [Next]_vars => CarryInv'
<1> SUFFICES ASSUME Inv, CarryInv, [Next]_vars, losses' = 0
             PROVE  pc' # "crashed" /\ LinedUp' /\ AtBoundary'
  BY DEF CarryInv
<1>0. losses \in Nat /\ rest \in Seq(Word) /\ saved \in Seq(Word) /\ pending \in Seq(Word)
  BY DEF Inv, ControlOK, WordsOK
<1>1. losses = 0 /\ (losses' = losses \/ losses' = losses + 1)
  BY <1>0 DEF Next, Arrive, Lose, NextBatch, ProcessFrame, SaveRest, GiveUpRest,
       BatchDone, Update,
     Manager, vars
<1>2. pc # "crashed" /\ LinedUp /\ AtBoundary
  BY <1>1 DEF CarryInv
<1>3. ASSUME NEW n \in Datagrams, Arrive(n) PROVE pc' # "crashed" /\ LinedUp' /\ AtBoundary'
  BY <1>2, <1>3, CarryArrive DEF Arrive, Network
<1>4. ASSUME NEW n \in Datagrams, Lose(n) PROVE FALSE
  BY <1>1, <1>4 DEF Lose
<1>5. CASE NextBatch
  <2>1. /\ rest' = saved \o pending /\ saved' = <<>> /\ pending' = <<>>
        /\ UNCHANGED <<sent, frames>>
        /\ pc' = "parse" /\ rest = <<>>
    BY <1>5 DEF NextBatch, Manager, Inv, ControlOK
  <2>2. /\ Len(rest') = Len(saved) + Len(pending) /\ Len(saved') = 0 /\ Len(pending') = 0
        /\ Len(rest) = 0
        /\ Len(saved) \in Nat /\ Len(pending) \in Nat
        /\ \A i \in 1 .. Len(saved) + Len(pending) :
             \/ i \in 1 .. Len(saved) /\ rest'[i] = saved[i]
             \/ i - Len(saved) \in 1 .. Len(pending) /\ rest'[i] = pending[i - Len(saved)]
    BY <1>0, <2>1, ConcatFacts
  <2>3. Done' = Done /\ Done \in Nat
    BY <1>2, <2>1, <2>2 DEF Done, LinedUp
  <2>4. ASSUME NEW i \in 1 .. Len(rest') PROVE rest'[i] = Stream[Done + i]
    <3>1. CASE i \in 1 .. Len(saved) /\ rest'[i] = saved[i]
      <4>1. saved[i] = Stream[Done + Len(rest) + i]
        BY <1>2, <3>1 DEF LinedUp
      <4>2. Done + Len(rest) + i = Done + i
        BY <2>2, <2>3
      <4> QED BY <3>1, <4>1, <4>2
    <3>2. CASE i - Len(saved) \in 1 .. Len(pending) /\ rest'[i] = pending[i - Len(saved)]
      <4>1. pending[i - Len(saved)] = Stream[Done + Len(rest) + Len(saved) + (i - Len(saved))]
        BY <1>2, <3>2 DEF LinedUp
      <4>2. Done + Len(rest) + Len(saved) + (i - Len(saved)) = Done + i
        BY <2>2, <2>3
      <4> QED BY <3>2, <4>1, <4>2
    <3> QED BY <2>2, <3>1, <3>2
  <2>5. LinedUp'
    BY <2>2, <2>3, <2>4 DEF LinedUp
  <2> QED BY <1>2, <2>1, <2>3, <2>5 DEF AtBoundary
<1>6. CASE ProcessFrame
  BY <1>2, <1>6, CarryProcess DEF ProcessFrame
<1>7. CASE SaveRest
  <2>1. rest # <<>> /\ Parse(rest) = "index_error" /\ UNCHANGED <<sent, pending, frames>>
    BY <1>7 DEF SaveRest, Manager
  <2>2. WithoutGap(rest) /\ rest[1] = [f |-> Len(frames) + 1, k |-> 0]
        /\ misread \in Misreadings
    BY <1>2, <2>1, RestInStep DEF Inv, ControlOK
  <2>3. NoneComplete(rest)
    BY <1>0, <2>1, <2>2, GapFreeParse
  <2>4. Len(rest) <= Room
    <3>1. 1 \in 1 .. Len(rest) /\ rest[1] \in Word /\ Len(rest) \in Nat
      BY <1>0, <2>1
    <3>2. 1 - 1 + Sizes[rest[1].f] > Len(rest)
      BY <2>2, <2>3, <3>1 DEF NoneComplete
    <3>3. Sizes[rest[1].f] \in Nat /\ Sizes[rest[1].f] - 1 <= Room
      BY <3>1, WordFacts
    <3> QED BY <3>1, <3>2, <3>3, SizesAssumption
  <2>5. saved' = rest /\ rest' = <<>> /\ pc' = pc /\ saved = <<>>
    <3>1. ~(Len(rest) > Room)
      BY <1>0, <2>4, SizesAssumption
    <3> QED BY <1>7, <2>1, <3>1 DEF SaveRest, Inv, ControlOK
  <2>6. Len(rest') = 0 /\ Len(saved) = 0 /\ Len(saved') = Len(rest) /\ Len(rest) \in Nat
        /\ Len(pending) \in Nat
    BY <1>0, <2>5
  <2>7. Done' = Done /\ Done \in Nat
    BY <1>2, <2>1, <2>6 DEF Done, LinedUp
  <2>8. Done + Len(rest') = Done /\ Done + 0 + Len(saved') = Done + Len(rest) + Len(saved)
    BY <2>6, <2>7
  <2>9. LinedUp'
    BY <1>2, <2>1, <2>5, <2>6, <2>7, <2>8 DEF LinedUp
  <2> QED BY <1>2, <2>1, <2>5, <2>7, <2>9 DEF AtBoundary
<1>8. CASE GiveUpRest
  <2>1. rest # <<>> /\ Parse(rest) = "runtime_error" /\ misread \in Misreadings
    BY <1>8 DEF GiveUpRest, Inv, ControlOK
  <2> QED BY <1>0, <1>2, <2>1, RestInStep, GapFreeParse
<1>9. CASE BatchDone \/ Update \/ UNCHANGED vars
  <2>1. UNCHANGED <<rest, saved, pending, sent, frames>> /\ pc' # "crashed"
    BY <1>2, <1>9 DEF BatchDone, Update, vars, Manager
  <2>2. Done' = Done
    BY <2>1 DEF Done
  <2> QED BY <1>2, <2>1, <2>2 DEF LinedUp, AtBoundary
<1> QED BY <1>3, <1>4, <1>5, <1>6, <1>7, <1>8, <1>9 DEF Next

\* The inductive invariant implies the type invariant of FrameAssembly.
LEMMA InvTypeOK == Inv => TypeOK
<1> SUFFICES ASSUME Inv PROVE TypeOK
  OBVIOUS
<1>1. pending \in Seq(Word) /\ rest \in Seq(Word) /\ saved \in Seq(Word)
  BY DEF Inv, WordsOK
<1>2. pending \o rest \o saved \in Seq(Word)
  <2>1. pending \o rest \in Seq(Word)
    BY <1>1, ConcatFacts
  <2> QED BY <1>1, <2>1, ConcatFacts
<1>3. \A w \in ToSet(pending \o rest \o saved) : w.f \in DOMAIN Sizes
  <2> DEFINE c == pending \o rest \o saved
  <2> HIDE DEF c
  <2>1. c \in Seq(Word)
    BY <1>2 DEF c
  <2>2. \A w \in ToSet(c) : w \in Word
    BY <2>1 DEF ToSet
  <2>3. \A w \in ToSet(c) : w.f \in DOMAIN Sizes
    BY <2>2, WordFacts
  <2> QED BY <2>3 DEF c
<1>4. /\ sent \in 0 .. Len(Stream) /\ pc \in {"request", "parse", "crashed"}
      /\ Len(saved) <= Room /\ (saved # <<>> => rest = <<>>)
  BY DEF Inv, ControlOK
<1>5. /\ m_last_frame_count \in -1 .. FrameMod - 1 /\ last_count \in -1 .. PacketMod - 1
      /\ printed \subseteq {"F", "L"}
  BY DEF Inv, CountOK
<1> QED BY <1>3, <1>4, <1>5 DEF TypeOK

\* The property NothingForgotten, from what is kept of each part.
LEMMA CarryForgetsNothing == Inv /\ CarryInv => NothingForgotten
<1> SUFFICES ASSUME Inv, CarryInv, losses = 0 PROVE NothingForgotten
  BY DEF NothingForgotten
<1> DEFINE waiting == rest \o saved \o pending
           done == sent - Len(waiting)
<1>1. /\ rest \in Seq(Word) /\ saved \in Seq(Word) /\ pending \in Seq(Word)
      /\ sent \in 0 .. Len(Stream)
      /\ Stream \in Seq(Word) /\ frames \in Seq({0} \cup DOMAIN Sizes)
  BY StreamAssumption DEF Inv, WordsOK, ControlOK, CountOK
<1>2. LinedUp /\ AtBoundary
  BY DEF CarryInv
<1>3. /\ Len(rest) \in Nat /\ Len(saved) \in Nat /\ Len(pending) \in Nat /\ sent \in Nat
      /\ sent <= Len(Stream) /\ Len(Stream) \in Nat /\ Done \in Nat
      /\ sent = Done + Len(rest) + Len(saved) + Len(pending)
  <2>1. Done \in Nat
    BY <1>2 DEF LinedUp
  <2> QED BY <1>1, <2>1 DEF Done
<1>4. /\ rest \o saved \in Seq(Word) /\ Len(rest \o saved) = Len(rest) + Len(saved)
      /\ \A i \in 1 .. Len(rest) + Len(saved) : (rest \o saved)[i] = Stream[Done + i]
  <2>1. /\ rest \o saved \in Seq(Word) /\ Len(rest \o saved) = Len(rest) + Len(saved)
        /\ \A i \in 1 .. Len(rest) + Len(saved) :
              \/ i \in 1 .. Len(rest) /\ (rest \o saved)[i] = rest[i]
              \/ i - Len(rest) \in 1 .. Len(saved) /\ (rest \o saved)[i] = saved[i - Len(rest)]
    BY <1>1, ConcatFacts
  <2>2. ASSUME NEW i \in 1 .. Len(rest) + Len(saved)
        PROVE  (rest \o saved)[i] = Stream[Done + i]
    <3>1. CASE i \in 1 .. Len(rest) /\ (rest \o saved)[i] = rest[i]
      BY <1>2, <3>1 DEF LinedUp
    <3>2. CASE i - Len(rest) \in 1 .. Len(saved) /\ (rest \o saved)[i] = saved[i - Len(rest)]
      <4>1. saved[i - Len(rest)] = Stream[Done + Len(rest) + (i - Len(rest))]
        BY <1>2, <3>2 DEF LinedUp
      <4>2. Done + Len(rest) + (i - Len(rest)) = Done + i
        BY <1>3
      <4> QED BY <3>2, <4>1, <4>2
    <3> QED BY <2>1, <3>1, <3>2
  <2> QED BY <2>1, <2>2
<1>5. /\ waiting \in Seq(Word) /\ Len(waiting) = Len(rest) + Len(saved) + Len(pending)
      /\ \A i \in 1 .. Len(waiting) : waiting[i] = Stream[Done + i]
  <2> DEFINE s == rest \o saved
  <2>0. s \in Seq(Word) /\ Len(s) = Len(rest) + Len(saved) /\ waiting = s \o pending
        /\ \A i \in 1 .. Len(s) : s[i] = Stream[Done + i]
    BY <1>4
  <2> HIDE DEF s, waiting
  <2>1. /\ waiting \in Seq(Word) /\ Len(waiting) = Len(s) + Len(pending)
        /\ \A i \in 1 .. Len(s) + Len(pending) :
              \/ i \in 1 .. Len(s) /\ waiting[i] = s[i]
              \/ i - Len(s) \in 1 .. Len(pending) /\ waiting[i] = pending[i - Len(s)]
    <3>1. /\ s \o pending \in Seq(Word) /\ Len(s \o pending) = Len(s) + Len(pending)
          /\ \A i \in 1 .. Len(s) + Len(pending) :
               \/ i \in 1 .. Len(s) /\ (s \o pending)[i] = s[i]
               \/ i - Len(s) \in 1 .. Len(pending) /\ (s \o pending)[i] = pending[i - Len(s)]
      <4>1. s \in Seq(Word) /\ pending \in Seq(Word)
        BY <1>1, <2>0
      <4> QED BY ONLY <4>1, ConcatFacts
    <3> QED BY <2>0, <3>1
  <2>2. ASSUME NEW i \in 1 .. Len(s) + Len(pending) PROVE waiting[i] = Stream[Done + i]
    <3>1. CASE i \in 1 .. Len(s) /\ waiting[i] = s[i]
      BY <2>0, <3>1
    <3>2. CASE i - Len(s) \in 1 .. Len(pending) /\ waiting[i] = pending[i - Len(s)]
      <4>1. pending[i - Len(s)] = Stream[Done + Len(rest) + Len(saved) + (i - Len(s))]
        BY <1>2, <3>2 DEF LinedUp
      <4>2. Done + Len(rest) + Len(saved) + (i - Len(s)) = Done + i
        BY <1>3, <2>0
      <4> QED BY <3>2, <4>1, <4>2
    <3> QED BY <2>1, <3>1, <3>2
  <2> QED BY <1>3, <2>0, <2>1, <2>2
<1> HIDE DEF waiting
<1>6. done = Done
  BY <1>3, <1>5
<1>7. waiting = SubSeq(Stream, Done + 1, sent)
  <2> DEFINE t == SubSeq(Stream, Done + 1, sent)
  <2>1. Done + 1 \in Nat /\ Done + 1 >= 1 /\ Done <= sent /\ sent <= Len(Stream)
    BY <1>3
  <2>2. /\ t \in Seq(Word) /\ Len(t) = sent - Done
        /\ \A i \in 1 .. sent - Done : t[i] = Stream[Done + i]
    BY <1>1, <1>3, <2>1
  <2> HIDE DEF t
  <2>3. Len(t) = Len(waiting) /\ \A i \in 1 .. Len(t) : t[i] = waiting[i]
    <3>1. Len(waiting) = sent - Done
      BY <1>3, <1>5
    <3> QED BY <1>5, <2>2, <3>1
  <2>4. t = waiting
    <3>1. t \in Seq(Word) /\ waiting \in Seq(Word)
      BY <1>5, <2>2
    <3> QED BY ONLY <2>3, <3>1
  <2> QED BY <2>4 DEF t
<1>8. \A i \in DOMAIN frames : frames[i] = i
  BY <1>1, <1>2 DEF AtBoundary
<1>9. \/ Done = 0 /\ frames = <<>>
      \/ Done > 0 /\ frames # <<>> /\ Stream[Done] = Last(FrameWords(Last(frames)))
  <2>1. CASE Done = 0 /\ Len(frames) = 0
    BY <1>1, <2>1
  <2>2. CASE /\ Done > 0 /\ Len(frames) \in DOMAIN Sizes
             /\ Stream[Done] = [f |-> Len(frames), k |-> Sizes[Len(frames)] - 1]
    <3> DEFINE f == Len(frames)
    <3>1. /\ f \in Nat /\ Sizes[f] \in Nat /\ Sizes[f] >= 5 /\ Len(FrameWords(f)) = Sizes[f]
          /\ \A m \in 1 .. Sizes[f] : FrameWords(f)[m] = [f |-> f, k |-> m - 1]
      BY <2>2, FrameWordsFacts
    <3>2. f > 0
      BY <2>2, SizesAssumption
    <3>3. frames # <<>> /\ Last(frames) = f
      <4>1. f \in 1 .. Len(frames)
        BY <3>1, <3>2
      <4>2. frames[f] = f
        BY <1>2, <4>1 DEF AtBoundary
      <4> QED BY <1>1, <4>1, <4>2 DEF Last
    <3>4. Last(FrameWords(f)) = [f |-> f, k |-> Sizes[f] - 1]
      BY <3>1 DEF Last
    <3> QED BY <2>2, <3>3, <3>4
  <2> QED BY <1>2, <2>1, <2>2 DEF AtBoundary
<1> HIDE DEF done
<1>10. /\ waiting = SubSeq(Stream, done + 1, sent)
       /\ \A i \in DOMAIN frames : frames[i] = i
       /\ \/ done = 0 /\ frames = <<>>
          \/ done > 0 /\ frames # <<>> /\ Stream[done] = Last(FrameWords(Last(frames)))
  BY <1>6, <1>7, <1>8, <1>9
<1> QED BY <1>10 DEF NothingForgotten, waiting, done

\* CarryOverSound holds of every behaviour: until something is lost, every word is in a
\* frame that was processed or still waits in its place, and what is kept between two
\* batches fits.
THEOREM CarryOverIsSound == Spec => []CarryOverSound
<1>1. (Inv /\ CarryInv) /\ [Next]_vars => (Inv /\ CarryInv)'
  BY WordsNext, ControlNext, CountNext, CarryNext DEF Inv
<1>2. Inv /\ CarryInv => CarryOverSound
  <2>1. Inv /\ CarryInv => CarryFits
    BY DEF Inv, ControlOK, CarryInv, CarryFits
  <2> QED BY <2>1, InvTypeOK, CarryForgetsNothing DEF CarryOverSound
<1> QED BY InitInv, CarryInit, <1>1, <1>2, PTL DEF Spec

-----------------------------------------------------------------------------
\* The counters are those of the last frame, but for that of packets after an update.
CountersInv ==
  frames # <<>> /\ Last(frames) # 0 =>
    /\ m_last_frame_count = Last(frames) % FrameMod
    /\ IF updated THEN last_count = -1
       ELSE last_count = (Last(frames) * PacketsPerFrame - 1) % PacketMod

\* There is one remainder.
LEMMA ModUnique ==
  ASSUME NEW x \in Int, NEW m \in Nat, m > 0, NEW q \in Int, NEW r \in 0 .. m - 1,
         x = m * q + r
  PROVE  x % m = r
<1> DEFINE p == x \div m
           s == x % m
<1>1. s \in 0 .. m - 1 /\ p \in Int /\ x = m * p + s
  BY ModRange
<1> HIDE DEF p, s
<1>2. m * (q - p) = s - r /\ s - r < m /\ r - s < m
  BY <1>1
<1>3. ~(q - p >= 1)
  <2>1. q - p >= 1 => m * (q - p) >= m
    BY <1>1
  <2> QED BY <1>1, <1>2, <2>1
<1>4. ~(p - q >= 1)
  <2>1. p - q >= 1 => m * (p - q) >= m
    BY <1>1
  <2>2. m * (p - q) = r - s
    BY <1>1
  <2> QED BY <1>1, <1>2, <2>1, <2>2
<1>5. q = p
  BY <1>1, <1>3, <1>4
<1>6. s = r
  BY <1>1, <1>5
<1> QED BY <1>6 DEF s

\* Expected says that nothing is missing exactly if the number of those missing is a
\* multiple of mod.
LEMMA ExpectedCounts ==
  ASSUME NEW a \in Int, NEW b \in Int, NEW mod \in Nat, mod > 1
  PROVE  Expected(a % mod, b % mod, mod) = b % mod <=> (b - a - 1) % mod = 0
<1> DEFINE r == a % mod
           s == b % mod
           p == a \div mod
           q == b \div mod
           x == b - a - 1
<1>1. r \in 0 .. mod - 1 /\ p \in Int /\ a = mod * p + r
  BY ModRange
<1>2. s \in 0 .. mod - 1 /\ q \in Int /\ b = mod * q + s
  BY ModRange
<1>3. x \in Int
  OBVIOUS
<1> HIDE DEF r, s, p, q
<1>4. x = mod * (q - p) + (s - r - 1)
  BY <1>1, <1>2
<1>5. CASE r = mod - 1
  <2>1. Expected(r, s, mod) = 0
    BY <1>1, <1>5 DEF Expected
  <2>2. x = mod * (q - p - 1) + s
    BY <1>1, <1>2, <1>4, <1>5
  <2>3. x % mod = s
    <3> HIDE DEF x
    <3> QED BY <1>1, <1>2, <1>3, <2>2, ModUnique
  <2> HIDE DEF x
  <2> QED BY <1>2, <2>1, <2>3 DEF r, s, x
<1>6. CASE r < mod - 1
  <2>1. Expected(r, s, mod) = r + 1
    BY <1>1, <1>6 DEF Expected
  <2>2. CASE s >= r + 1
    <3>1. x % mod = s - r - 1
      <4> DEFINE t == s - r - 1
                 u == q - p
      <4>1. t \in 0 .. mod - 1 /\ u \in Int /\ x = mod * u + t
        BY <1>1, <1>2, <1>4, <2>2
      <4> HIDE DEF x, t, u
      <4>2. x % mod = t
        BY <1>3, <4>1, ModUnique
      <4> QED BY <4>2 DEF t
    <3>2. s = r + 1 <=> s - r - 1 = 0
      BY <1>1, <1>2
    <3> HIDE DEF x
    <3> QED BY <1>1, <1>2, <2>1, <3>1, <3>2 DEF r, s, x
  <2>3. CASE s < r + 1
    <3>1. x % mod = s - r - 1 + mod
      <4> DEFINE t == s - r - 1 + mod
                 u == q - p - 1
      <4>1. t \in 0 .. mod - 1 /\ u \in Int /\ x = mod * u + t
        BY <1>1, <1>2, <1>4, <2>3
      <4> HIDE DEF x, t, u
      <4>2. x % mod = t
        BY <1>3, <4>1, ModUnique
      <4> QED BY <4>2 DEF t
    <3>2. s # r + 1 /\ s - r - 1 + mod # 0
      BY <1>1, <1>2, <1>6, <2>3
    <3> HIDE DEF x
    <3> QED BY <1>1, <1>2, <2>1, <3>1, <3>2 DEF r, s, x
  <2> QED BY <1>1, <1>2, <2>2, <2>3
<1> QED BY <1>1, <1>5, <1>6

\* The last element is the one that was appended.
LEMMA LastAppended ==
  ASSUME NEW S, NEW s \in Seq(S), NEW e \in S
  PROVE  Append(s, e) # <<>> /\ Last(Append(s, e)) = e /\ Len(Append(s, e)) > Len(s)
  BY DEF Last

\* No frame was processed.
LEMMA CountersInit == Init => CountersInv
  BY DEF Init, CountersInv

\* A frame sets both counters, handle_update forgets that of packets.
LEMMA CountersNext == Inv /\ CountersInv /\ [Next]_vars => CountersInv'
<1> SUFFICES ASSUME Inv, CountersInv, [Next]_vars PROVE CountersInv'
  OBVIOUS
<1>1. CASE ProcessFrame
  <2> DEFINE found == Found(rest)
             e == IF found.intact THEN found.f ELSE 0
  <2>1. PICK got \in Counters(found) :
          /\ m_last_frame_count' = got.frame /\ last_count' = got.last
          /\ frames' = Append(frames, e)
    BY <1>1 DEF ProcessFrame
  <2>2. updated' = FALSE /\ Parse(rest) = "done"
    BY <1>1 DEF ProcessFrame
  <2>3. found.f \in DOMAIN Sizes /\ found.intact \in BOOLEAN
    BY <2>2, DoneFacts DEF Inv, WordsOK, ControlOK
  <2>4. Last(frames') = e
    <3>1. frames \in Seq({0} \cup DOMAIN Sizes) /\ e \in {0} \cup DOMAIN Sizes
      BY <2>3 DEF Inv, CountOK
    <3> HIDE DEF e
    <3> QED BY <2>1, <3>1, LastAppended
  <2>5. CASE e # 0
    <3>1. found.intact /\ e = found.f
      BY <2>3, <2>5
    <3>2. got.frame = found.f % FrameMod
          /\ got.last = (found.f * PacketsPerFrame - 1) % PacketMod
      BY <3>1 DEF Counters
    <3> HIDE DEF found, e
    <3> QED BY <2>1, <2>2, <2>4, <3>1, <3>2 DEF CountersInv
  <2>6. CASE e = 0
    <3> HIDE DEF found, e
    <3> QED BY <2>4, <2>6 DEF CountersInv
  <2> QED BY <2>5, <2>6
<1>2. CASE Update
  BY <1>2 DEF Update, CountersInv
<1>3. CASE UNCHANGED <<frames, m_last_frame_count, last_count, updated>>
  BY <1>3 DEF CountersInv
<1>4. ProcessFrame \/ Update \/ UNCHANGED <<frames, m_last_frame_count, last_count, updated>>
  BY DEF Next, Arrive, Lose, Network, NextBatch, SaveRest, GiveUpRest, BatchDone, vars
<1> QED BY <1>1, <1>2, <1>3, <1>4

\* What the step that processes a frame prints.
LEMMA LossStep ==
  ASSUME Inv, CountersInv, [Next]_vars, Len(frames') > Len(frames), frames # <<>>,
         Last(frames) # 0, Last(frames') # 0
  PROVE  LET missing == Last(frames') - Last(frames) - 1
         IN  /\ "F" \in printed' <=> missing % FrameMod # 0
             /\ "L" \in printed' <=> (missing * PacketsPerFrame) % PacketMod # 0 /\ ~updated
<1> DEFINE found == Found(rest)
           e == IF found.intact THEN found.f ELSE 0
           l == Last(frames)
           f == found.f
           missing == f - l - 1
<1>1. frames \in Seq({0} \cup DOMAIN Sizes) /\ Len(frames) \in Nat
  BY DEF Inv, CountOK
<1>2. ProcessFrame
  <2>1. ProcessFrame \/ frames' = frames
    BY DEF Next, Arrive, Lose, Network, NextBatch, SaveRest, GiveUpRest, BatchDone,
         Update, vars
  <2> QED BY <1>1, <2>1
<1>3. PICK got \in Counters(found) :
        /\ printed' = (IF Expected(m_last_frame_count, got.frame, FrameMod) # got.frame
                       THEN {"F"} ELSE {})
                      \cup (IF Expected(last_count, got.first, PacketMod) # got.first
                            THEN {"L"} ELSE {})
        /\ frames' = Append(frames, e)
  BY <1>2 DEF ProcessFrame
<1>4. found.f \in DOMAIN Sizes /\ found.intact \in BOOLEAN
  BY <1>2, DoneFacts DEF Inv, WordsOK, ControlOK, ProcessFrame
<1>5. Last(frames') = e
  <2>1. e \in {0} \cup DOMAIN Sizes
    BY <1>4
  <2> HIDE DEF e
  <2> QED BY <1>1, <1>3, <2>1, LastAppended
<1>6. found.intact /\ Last(frames') = f
  BY <1>4, <1>5
<1>7. got.frame = f % FrameMod /\ got.first = ((f - 1) * PacketsPerFrame) % PacketMod
  BY <1>6 DEF Counters
<1>8. f \in Nat /\ l \in Nat
  <2>1. l \in {0} \cup DOMAIN Sizes
    <3>1. Len(frames) \in 1 .. Len(frames)
      BY <1>1
    <3> QED BY <1>1, <3>1 DEF Last
  <2> QED BY <1>4, <2>1, FrameWordsFacts
<1>9. /\ m_last_frame_count = l % FrameMod
      /\ updated => last_count = -1
      /\ ~updated => last_count = (l * PacketsPerFrame - 1) % PacketMod
  BY DEF CountersInv
<1>10. /\ "F" \in printed' <=> Expected(m_last_frame_count, got.frame, FrameMod) # got.frame
       /\ "L" \in printed' <=> Expected(last_count, got.first, PacketMod) # got.first
  BY <1>3
<1> HIDE DEF found, e, l, f
<1>11. /\ FrameMod \in Nat /\ FrameMod > 1 /\ PacketMod \in Nat /\ PacketMod > 1
       /\ PacketsPerFrame \in Nat
  BY CountersAssumption
<1>12. "F" \in printed' <=> missing % FrameMod # 0
  <2>1. Expected(l % FrameMod, f % FrameMod, FrameMod) = f % FrameMod <=> (f - l - 1) % FrameMod = 0
    <3>1. f \in Int /\ l \in Int
      BY <1>8
    <3> QED BY <1>11, <3>1, ExpectedCounts
  <2> QED BY <1>7, <1>9, <1>10, <2>1
<1>13. "L" \in printed' <=> (missing * PacketsPerFrame) % PacketMod # 0 /\ ~updated
  <2>1. CASE updated
    <3>1. Expected(last_count, got.first, PacketMod) = got.first
      <4>1. last_count = -1
        BY <1>9, <2>1
      <4>2. ~(last_count + 1 > PacketMod - 1)
        BY <1>11, <4>1
      <4> QED BY <4>1, <4>2 DEF Expected
    <3> QED BY <1>10, <2>1, <3>1
  <2>2. CASE ~updated
    <3> DEFINE b == (f - 1) * PacketsPerFrame
               a == l * PacketsPerFrame - 1
    <3>1. a \in Int /\ b \in Int
      BY <1>8, <1>11
    <3>2. b - a - 1 = missing * PacketsPerFrame
      BY <1>8, <1>11
    <3>3. got.first = b % PacketMod /\ last_count = a % PacketMod
      BY <1>7, <1>9, <2>2
    <3> HIDE DEF a, b, missing
    <3>4. Expected(a % PacketMod, b % PacketMod, PacketMod) = b % PacketMod <=> (b - a - 1) % PacketMod = 0
      BY <1>11, <3>1, ExpectedCounts
    <3> QED BY <1>10, <2>2, <3>2, <3>3, <3>4
  <2> QED BY <2>1, <2>2
<1> QED BY <1>6, <1>12, <1>13 DEF l

\* LossReported holds of every behaviour: F and L are printed exactly if the frames and
\* the packets missing before a frame are not a multiple of the range of their counter.
THEOREM LossIsReported == Spec => LossReported
<1> DEFINE Report ==
       Follows =>
         /\ "F" \in printed' <=> Missing % FrameMod # 0
         /\ "L" \in printed' <=> (Missing * PacketsPerFrame) % PacketMod # 0 /\ ~updated
<1>1. (Inv /\ CountersInv) /\ [Next]_vars => (Inv /\ CountersInv)'
  BY WordsNext, ControlNext, CountNext, CountersNext DEF Inv
<1>2. (Inv /\ CountersInv) /\ [Next]_vars => [Report]_vars
  <2> SUFFICES ASSUME Inv, CountersInv, [Next]_vars PROVE Report
    OBVIOUS
  <2> QED BY LossStep DEF Follows, Missing
<1>3. Spec => [][Report]_vars
  <2> HIDE DEF Report
  <2> QED BY InitInv, CountersInit, <1>1, <1>2, PTL DEF Spec
<1> QED BY <1>3 DEF LossReported

-----------------------------------------------------------------------------
\* The frame is one of these.
Listed(f, fs) == \E n \in 1 .. Len(fs) : fs[n] = f

\* So is every frame that begins in the first p words.
AllListed(words, p, fs) == \A i \in 1 .. p : words[i].k = 0 => Listed(words[i].f, fs)

\* The part is what comes after the first p words.
TailAt(words, p, part) ==
  Len(part) = Len(words) - p /\ \A i \in 1 .. Len(part) : part[i] = words[p + i]

\* The frame that begins at q ends at p.
EndsAt(words, q, p) == words[q].k = 0 /\ p = q - 1 + Sizes[words[q].f]

\* The inductive invariant of a batch without a gap: nothing of it was taken, or it
\* has no complete frame, or the manager is behind the end of one and has processed
\* all that begin before.
BatchInv ==
  batch # <<>> /\ WithoutGap(batch) =>
    \/ rest = batch /\ saved = <<>>
    \/ rest = <<>> /\ NoneComplete(batch)
    \/ \E p, q \in 1 .. Len(batch) :
         /\ EndsAt(batch, q, p) /\ AllListed(batch, p, frames)
         /\ \/ saved = <<>> /\ TailAt(batch, p, rest)
            \/ rest = <<>> /\ TailAt(batch, p, saved) /\ NoneComplete(saved)

\* After a complete frame the next begins.
LEMMA NextStart ==
  ASSUME NEW words \in Seq(Word), WithoutGap(words), NEW q \in 1 .. Len(words),
         NEW p \in 1 .. Len(words),
         EndsAt(words, q, p)
  PROVE  /\ words[p] = [f |-> words[q].f, k |-> Sizes[words[q].f] - 1]
         /\ p < Len(words) => words[p + 1].k = 0
<1> DEFINE f == words[q].f
<1>1. words[q] \in Word /\ words[q].k = 0 /\ p = q - 1 + Sizes[f] /\ Len(words) \in Nat
  BY DEF EndsAt
<1>2. Sizes[f] \in Nat /\ Sizes[f] >= 5
  BY <1>1, WordFacts
<1>3. Sizes[f] - 1 \in 0 .. Sizes[f] - 1 /\ q + (Sizes[f] - 1) = p
  BY <1>1, <1>2
<1>4. words[p] = [f |-> f, k |-> Sizes[f] - 1]
  <2>1. q + (Sizes[f] - 1) <= Len(words)
    BY <1>3
  <2>2. words[q + (Sizes[f] - 1)] = [f |-> f, k |-> Sizes[f] - 1]
    BY <1>1, <1>3, <2>1, Contiguous
  <2> QED BY <1>3, <2>2
<1>5. ASSUME p < Len(words) PROVE words[p + 1].k = 0
  <2>1. p \in 1 .. Len(words) - 1 /\ p + 1 \in 1 .. Len(words)
    BY <1>1, <1>5
  <2>2. \/ words[p + 1] = [words[p] EXCEPT !.k = @ + 1]
        \/ words[p + 1] = [f |-> words[p].f + 1, k |-> 0]
    BY <2>1 DEF WithoutGap
  <2>3. words[p + 1] # [words[p] EXCEPT !.k = @ + 1]
    <3>1. words[p + 1] \in Word
      BY <2>1
    <3>2. words[p + 1].k < Sizes[words[p + 1].f] /\ words[p + 1].k \in Nat
      BY <3>1, WordFacts
    <3> QED BY <1>2, <1>4, <3>2
  <2> QED BY <2>2, <2>3
<1> QED BY <1>4, <1>5

\* What is left of a batch without a gap has none.
LEMMA TailGapFree ==
  ASSUME NEW words \in Seq(Word), WithoutGap(words), NEW p \in 0 .. Len(words),
         NEW part \in Seq(Word),
         TailAt(words, p, part)
  PROVE  WithoutGap(part)
<1>1. p + Len(part) <= Len(words) /\ p \in Nat
  BY DEF TailAt
<1> QED BY <1>1, GapFreePart DEF TailAt

\* Processing a frame of the batch, the first or one after.
LEMMA BatchProcess ==
  ASSUME Inv, ProcessFrame, WithoutGap(batch), saved = <<>>,
         NEW p \in 0 .. Len(batch), AllListed(batch, p, frames), TailAt(batch, p, rest)
  PROVE  BatchInv'
<1> DEFINE found == Found(rest)
           s == found.skipped
           a == Advance(found)
           f == found.f
<1>0. /\ Parse(rest) = "done" /\ rest # <<>> /\ UNCHANGED <<saved, batch>>
      /\ frames' = Append(frames, IF found.intact THEN f ELSE 0)
      /\ rest' = SubSeq(rest, a + 1, Len(rest))
  BY DEF ProcessFrame
<1>1. /\ rest \in Seq(Word) /\ batch \in Seq(Word) /\ misread \in Misreadings
      /\ frames \in Seq({0} \cup DOMAIN Sizes)
  BY DEF Inv, WordsOK, CountOK, ControlOK
<1>2. WithoutGap(rest)
  BY <1>1, TailGapFree
<1>3. found.intact /\ s = Skipped(rest) /\ \A i \in 1 .. s : rest[i].k # 0
  BY <1>0, <1>1, <1>2, GapFreeParse
<1>4. /\ f \in DOMAIN Sizes /\ a = s + Sizes[f] /\ a \in Nat /\ a <= Len(rest)
      /\ s \in Nat /\ s + 1 \in 1 .. Len(rest) /\ rest[s + 1] = [f |-> f, k |-> 0]
      /\ \A m \in 1 .. Sizes[f] : rest[s + m] = [f |-> f, k |-> m - 1]
  BY <1>0, <1>1, <1>3, DoneFacts DEF Advance
<1>5. Sizes[f] \in Nat /\ Sizes[f] >= 5
  BY <1>4, FrameWordsFacts
<1>6. frames' = Append(frames, f)
  BY <1>0, <1>3
<1> HIDE DEF found, s, a, f
<1>7. /\ Len(rest) \in Nat /\ Len(batch) \in Nat /\ p \in Nat /\ Len(rest) = Len(batch) - p
      /\ \A i \in 1 .. Len(rest) : rest[i] = batch[p + i]
  BY <1>1 DEF TailAt
<1>8. /\ p + s + 1 \in 1 .. Len(batch) /\ p + a \in 1 .. Len(batch)
      /\ p + a = (p + s + 1) - 1 + Sizes[f]
  BY <1>4, <1>5, <1>7
<1>9. batch[p + s + 1] = [f |-> f, k |-> 0]
  <2>1. p + (s + 1) = p + s + 1
    BY <1>4, <1>7
  <2> QED BY <1>4, <1>7, <2>1
<1>10. EndsAt(batch, p + s + 1, p + a)
  BY <1>8, <1>9 DEF EndsAt
<1>11. /\ Listed(f, frames') /\ \A g : Listed(g, frames) => Listed(g, frames')
  <2>1. /\ Len(frames') = Len(frames) + 1 /\ Len(frames) \in Nat
        /\ frames'[Len(frames) + 1] = f
        /\ \A n \in 1 .. Len(frames) : n \in 1 .. Len(frames') /\ frames'[n] = frames[n]
    BY <1>1, <1>4, <1>6
  <2>2. Len(frames) + 1 \in 1 .. Len(frames')
    BY <2>1
  <2> QED BY <2>1, <2>2 DEF Listed
<1>12. ASSUME NEW i \in 1 .. p + a, batch[i].k = 0 PROVE Listed(batch[i].f, frames')
  <2>1. CASE i <= p
    <3>1. i \in 1 .. p
      BY <1>7, <2>1
    <3> QED BY <1>11, <1>12, <3>1 DEF AllListed
  <2>2. CASE i > p /\ i <= p + s
    <3>1. i - p \in 1 .. s /\ i - p \in 1 .. Len(rest) /\ p + (i - p) = i
      BY <1>4, <1>7, <2>2
    <3> QED BY <1>3, <1>7, <1>12, <3>1
  <2>3. CASE i > p + s
    <3>1. i - p - s \in 1 .. Sizes[f] /\ s + (i - p - s) \in 1 .. Len(rest)
          /\ p + (s + (i - p - s)) = i
      <4>1. /\ s \in Nat /\ p \in Nat /\ a = s + Sizes[f] /\ a <= Len(rest)
            /\ Len(rest) \in Nat
            /\ Sizes[f] \in Nat /\ i \in 1 .. p + a
        BY <1>4, <1>5, <1>7
      <4> QED BY <2>3, <4>1
    <3>2. batch[i] = [f |-> f, k |-> i - p - s - 1]
      BY <1>4, <1>7, <3>1
    <3> QED BY <1>11, <3>2
  <2> QED BY <1>4, <1>7, <2>1, <2>2, <2>3
<1>13. TailAt(batch, p + a, rest')
  <2>1. a \in 0 .. Len(rest)
    BY <1>4, <1>7
  <2>2. /\ Len(rest') = Len(rest) - a
        /\ \A i \in 1 .. Len(rest) - a : rest'[i] = rest[a + i]
    <3>1. rest \in Seq(Word) /\ rest' = SubSeq(rest, a + 1, Len(rest))
      BY <1>0, <1>1
    <3> QED BY ONLY <2>1, <3>1, TailFacts
  <2>3. Len(rest') = Len(batch) - (p + a)
    BY <1>4, <1>7, <2>2
  <2>4. ASSUME NEW i \in 1 .. Len(rest') PROVE rest'[i] = batch[(p + a) + i]
    <3>1. i \in 1 .. Len(rest) - a /\ a + i \in 1 .. Len(rest) /\ p + (a + i) = (p + a) + i
      <4>1. Len(rest') = Len(rest) - a /\ Len(rest) \in Nat /\ a \in Nat /\ p \in Nat
        BY <1>4, <1>7, <2>2
      <4> QED BY <4>1
    <3> QED BY <1>7, <2>2, <3>1
  <2> QED BY <2>3, <2>4 DEF TailAt
<1>14. AllListed(batch, p + a, frames')
  BY <1>12 DEF AllListed
<1> DEFINE x == p + a
           y == p + s + 1
<1>15. x \in 1 .. Len(batch) /\ y \in 1 .. Len(batch) /\ EndsAt(batch, y, x)
       /\ AllListed(batch, x, frames') /\ TailAt(batch, x, rest')
  BY <1>8, <1>10, <1>13, <1>14
<1> HIDE DEF x, y
<1> QED BY <1>0, <1>15 DEF BatchInv

\* Every step keeps the invariant of the batch.
LEMMA BatchNext == Inv /\ BatchInv /\ [Next]_vars => BatchInv'
<1> SUFFICES ASSUME Inv, BatchInv, [Next]_vars PROVE BatchInv'
  OBVIOUS
<1>0. /\ rest \in Seq(Word) /\ saved \in Seq(Word) /\ batch \in Seq(Word)
      /\ misread \in Misreadings
      /\ (saved # <<>> => rest = <<>>)
  BY DEF Inv, ControlOK, WordsOK
<1>1. CASE NextBatch
  BY <1>1 DEF NextBatch, BatchInv
<1>2. CASE UNCHANGED <<batch, rest, saved, frames>>
  BY <1>2 DEF BatchInv
<1>3. ASSUME batch # <<>>, WithoutGap(batch), rest # <<>>
      PROVE  \/ rest = batch /\ saved = <<>>
             \/ \E p, q \in 1 .. Len(batch) :
                  /\ EndsAt(batch, q, p) /\ AllListed(batch, p, frames)
                  /\ saved = <<>> /\ TailAt(batch, p, rest)
  BY <1>3 DEF BatchInv
<1>4. CASE ProcessFrame
  <2>0. batch' = batch /\ rest # <<>>
    BY <1>4 DEF ProcessFrame
  <2> SUFFICES ASSUME batch # <<>>, WithoutGap(batch) PROVE BatchInv'
    BY <2>0 DEF BatchInv
  <2>1. CASE rest = batch /\ saved = <<>>
    <3>1. 0 \in 0 .. Len(batch) /\ AllListed(batch, 0, frames) /\ TailAt(batch, 0, rest)
      BY <1>0, <2>1 DEF AllListed, TailAt
    <3> QED BY <1>4, <2>1, <3>1, BatchProcess
  <2>2. ASSUME NEW p \in 1 .. Len(batch), AllListed(batch, p, frames), saved = <<>>,
               TailAt(batch, p, rest)
        PROVE  BatchInv'
    <3>1. p \in 0 .. Len(batch)
      BY <2>2
    <3> QED BY <1>4, <2>2, <3>1, BatchProcess
  <2> QED BY <1>3, <2>0, <2>1, <2>2
<1>5. CASE (SaveRest \/ GiveUpRest) /\ ~UNCHANGED <<batch, rest, saved, frames>>
  <2>1. /\ batch' = batch /\ rest # <<>> /\ frames' = frames /\ rest' = <<>>
        /\ \/ saved' = rest /\ Parse(rest) = "index_error"
           \/ saved' = <<>> /\ Parse(rest) = "runtime_error"
    BY <1>5 DEF SaveRest, GiveUpRest
  <2> SUFFICES ASSUME batch # <<>>, WithoutGap(batch) PROVE BatchInv'
    BY <2>1 DEF BatchInv
  <2>2. CASE rest = batch /\ saved = <<>>
    <3>1. NoneComplete(batch)
      BY <1>0, <2>1, <2>2, GapFreeParse
    <3> QED BY <2>1, <3>1 DEF BatchInv
  <2>3. ASSUME NEW p \in 1 .. Len(batch), NEW q \in 1 .. Len(batch), EndsAt(batch, q, p),
               AllListed(batch, p, frames), saved = <<>>, TailAt(batch, p, rest)
        PROVE  BatchInv'
    <3>1. WithoutGap(rest)
      <4>1. p \in 0 .. Len(batch)
        BY <2>3
      <4> QED BY <1>0, <2>3, <4>1, TailGapFree
    <3>2. NoneComplete(rest)
      BY <1>0, <2>1, <3>1, GapFreeParse
    <3>3. Parse(rest) # "runtime_error"
      <4>1. Len(rest) \in Nat /\ Len(rest) > 0 /\ Len(batch) \in Nat
        BY <1>0, <2>1
      <4>2. p < Len(batch) /\ 1 \in 1 .. Len(rest)
        BY <4>1, <2>3 DEF TailAt
      <4>3. rest[1].k = 0
        <5>1. batch[p + 1].k = 0
          BY <1>0, <2>3, <4>2, NextStart
        <5>2. rest[1] = batch[p + 1]
          BY <2>3, <4>2 DEF TailAt
        <5> QED BY <5>1, <5>2
      <4> QED BY <1>0, <2>1, <3>1, <4>3, GapFreeParse
    <3>4. saved' = rest
      BY <2>1, <3>3
    <3>5. EndsAt(batch, q, p) /\ AllListed(batch, p, frames) /\ TailAt(batch, p, saved')
          /\ NoneComplete(saved')
      BY <2>3, <3>2, <3>4
    <3> QED BY <2>1, <3>5 DEF BatchInv
  <2> QED BY <1>3, <2>1, <2>2, <2>3
<1>6. \/ NextBatch \/ ProcessFrame \/ SaveRest \/ GiveUpRest
      \/ UNCHANGED <<batch, rest, saved, frames>>
  BY DEF Next, Arrive, Lose, Network, BatchDone, Update, vars
<1> QED BY <1>1, <1>2, <1>4, <1>5, <1>6

\* The invariant of a batch without a gap holds of every behaviour.
THEOREM BatchInvariant == Spec => [](Inv /\ BatchInv)
<1>1. (Inv /\ BatchInv) /\ [Next]_vars => (Inv /\ BatchInv)'
  BY WordsNext, ControlNext, CountNext, BatchNext DEF Inv
<1>2. Init => BatchInv
  BY DEF Init, BatchInv
<1> QED BY InitInv, <1>1, <1>2, PTL DEF Spec

\* The property BackInStep, from where the manager is when it asks for the next batch.
LEMMA BatchInStep == Inv /\ BatchInv => BackInStep
<1> SUFFICES ASSUME Inv, BatchInv, pc = "request", batch # <<>>, WithoutGap(batch)
             PROVE  BackInStep
  BY DEF BackInStep
<1> DEFINE n == Len(batch)
           f == Last(batch).f
           complete == {w.f : w \in {x \in ToSet(batch) :
                          x.k = 0 /\ (x.f < f \/ Last(batch).k = Sizes[f] - 1)}}
<1>1. rest = <<>> /\ batch \in Seq(Word) /\ saved \in Seq(Word)
      /\ frames \in Seq({0} \cup DOMAIN Sizes)
  BY DEF Inv, WordsOK, ControlOK, CountOK
<1>2. n \in Nat /\ n > 0 /\ n \in 1 .. n /\ Last(batch) = batch[n]
  BY <1>1 DEF Last
<1>3. \A c \in complete : \E i \in 1 .. n :
        batch[i].f = c /\ batch[i].k = 0 /\ (c < f \/ batch[n].k = Sizes[f] - 1)
  BY <1>1, <1>2 DEF ToSet
<1>4. \A i \in 1 .. n : batch[i].k = 0 /\ (batch[i].f < f \/ batch[n].k = Sizes[f] - 1)
                          => batch[i].f \in complete
  BY <1>1, <1>2 DEF ToSet
<1>5. f = batch[n].f
  BY <1>2
<1> HIDE DEF complete, f
<1>6. \A i \in 1 .. n : /\ batch[i] \in Word /\ batch[i].f \in Nat /\ Sizes[batch[i].f] \in Nat
                        /\ Sizes[batch[i].f] >= 5 /\ batch[i].k \in Nat
  <2> TAKE i \in 1 .. n
  <2>1. batch[i] \in Word
    BY <1>1
  <2> QED BY <2>1, WordFacts
  \* A frame whose beginning is there and whose end is not is the last.
<1>7. ASSUME NEW i \in 1 .. n, batch[i].k = 0, i - 1 + Sizes[batch[i].f] > n
      PROVE  batch[n] = [f |-> batch[i].f, k |-> n - i] /\ n - i # Sizes[batch[i].f] - 1
  <2>1. n - i \in 0 .. Sizes[batch[i].f] - 1 /\ i + (n - i) = n
        /\ n - i # Sizes[batch[i].f] - 1
    <3> DEFINE size == Sizes[batch[i].f]
    <3>1. size \in Nat /\ i - 1 + size > n /\ n \in Nat /\ i \in 1 .. n
      BY <1>2, <1>6, <1>7
    <3> HIDE DEF size, n
    <3>2. n - i \in 0 .. size - 1 /\ i + (n - i) = n /\ n - i # size - 1
      BY <3>1
    <3> QED BY <3>2 DEF size
  <2>2. batch[i + (n - i)] = [f |-> batch[i].f, k |-> n - i]
    <3> DEFINE m == n - i
    <3>1. m \in 0 .. Sizes[batch[i].f] - 1 /\ i + m <= Len(batch) /\ i \in 1 .. Len(batch)
      BY <1>2, <2>1
    <3> HIDE DEF m, n
    <3>2. batch[i + m] = [f |-> batch[i].f, k |-> m]
      BY <1>1, <1>7, <3>1, Contiguous
    <3> QED BY <3>2 DEF m
  <2> QED BY <2>1, <2>2
<1>8. ASSUME NEW i \in 1 .. n, batch[i].k = 0, i - 1 + Sizes[batch[i].f] > n,
             batch[i].f < f \/ batch[n].k = Sizes[f] - 1
      PROVE  FALSE
  <2>1. batch[n] = [f |-> batch[i].f, k |-> n - i] /\ n - i # Sizes[batch[i].f] - 1
    BY <1>7, <1>8
  <2>2. f = batch[i].f /\ batch[n].k # Sizes[f] - 1 /\ f \in Nat
    BY <1>5, <1>6, <2>1
  <2> QED BY <1>8, <2>2
<1>9. CASE NoneComplete(batch)
  <2>1. complete = {}
    <3> SUFFICES ASSUME NEW c \in complete PROVE FALSE
      OBVIOUS
    <3>1. PICK i \in 1 .. n :
              batch[i].f = c /\ batch[i].k = 0 /\ (c < f \/ batch[n].k = Sizes[f] - 1)
      BY <1>3
    <3>2. i - 1 + Sizes[batch[i].f] > n
      BY <1>9, <3>1 DEF NoneComplete
    <3> QED BY <1>8, <3>1, <3>2
  <2>2. complete \subseteq ToSet(frames)
    BY <2>1
  <2> QED BY <2>1, <2>2 DEF BackInStep, complete, f
<1>10. ASSUME NEW p \in 1 .. n, NEW q \in 1 .. n, EndsAt(batch, q, p),
              AllListed(batch, p, frames),
              TailAt(batch, p, saved), NoneComplete(saved)
       PROVE  BackInStep
  <2>1. Len(saved) \in Nat /\ Len(saved) = n - p
        /\ \A i \in 1 .. Len(saved) : saved[i] = batch[p + i]
    BY <1>1, <1>10 DEF TailAt
  <2>2. ASSUME NEW i \in 1 .. n, i > p, batch[i].k = 0 PROVE i - 1 + Sizes[batch[i].f] > n
    <3>1. i - p \in 1 .. Len(saved) /\ p + (i - p) = i
      BY <1>2, <2>1, <2>2
    <3>2. saved[i - p] = batch[i]
      BY <2>1, <3>1
    <3>3. (i - p) - 1 + Sizes[batch[i].f] > Len(saved)
      BY <1>10, <2>2, <3>1, <3>2 DEF NoneComplete
    <3>4. Sizes[batch[i].f] \in Nat
      BY <1>6
    <3> QED BY <1>2, <2>1, <3>3, <3>4
  <2>3. complete \subseteq ToSet(frames)
    <3> SUFFICES ASSUME NEW c \in complete PROVE c \in ToSet(frames)
      OBVIOUS
    <3>1. PICK i \in 1 .. n :
              batch[i].f = c /\ batch[i].k = 0 /\ (c < f \/ batch[n].k = Sizes[f] - 1)
      BY <1>3
    <3>2. ~(i > p)
      BY <1>8, <2>2, <3>1
    <3>3. i \in 1 .. p
      BY <1>2, <3>2
    <3>4. Listed(c, frames)
      BY <1>10, <3>1, <3>3 DEF AllListed
    <3> QED BY <1>1, <3>4 DEF Listed, ToSet
  <2>4. ASSUME f \notin complete PROVE saved = SubSeq(FrameWords(f), 1, batch[n].k + 1)
    <3>1. p # n
      <4> SUFFICES ASSUME p = n PROVE FALSE
        OBVIOUS
      <4>1. batch[n] = [f |-> batch[q].f, k |-> Sizes[batch[q].f] - 1] /\ batch[q].k = 0
        <5>1. batch[p] = [f |-> batch[q].f, k |-> Sizes[batch[q].f] - 1]
          BY <1>1, <1>10, NextStart
        <5> QED BY <1>10, <5>1 DEF EndsAt
      <4>2. batch[q].f \in complete /\ f = batch[q].f
        BY <1>4, <1>5, <4>1
      <4> QED BY <2>4, <4>2
    <3>2. p + 1 \in 1 .. n /\ p < n /\ p + 1 > p
      BY <1>2, <3>1
    <3>3. batch[p + 1].k = 0
      BY <1>1, <1>10, <3>2, NextStart
    <3> DEFINE size == Sizes[batch[p + 1].f]
    <3>4. (p + 1) - 1 + size > n /\ size \in Nat
      BY <1>6, <2>2, <3>2, <3>3
    <3>5. batch[n] = [f |-> batch[p + 1].f, k |-> n - (p + 1)]
      BY <1>7, <3>2, <3>3, <3>4
    <3>6. f = batch[p + 1].f /\ batch[n].k + 1 = n - p /\ f \in DOMAIN Sizes
      <4>1. f = batch[p + 1].f /\ batch[n].k = n - (p + 1)
        BY <1>5, <3>5
      <4>2. f \in DOMAIN Sizes
        BY <1>6, <3>2, <4>1, WordFacts
      <4> QED BY <1>2, <4>1, <4>2
    <3> DEFINE t == SubSeq(FrameWords(f), 1, n - p)
    <3>7. /\ t \in Seq(Word) /\ Len(t) = n - p
          /\ \A m \in 1 .. n - p : t[m] = [f |-> f, k |-> m - 1]
      <4>1. /\ Sizes[f] \in Nat /\ FrameWords(f) \in Seq(Word)
            /\ Len(FrameWords(f)) = Sizes[f]
            /\ \A m \in 1 .. Sizes[f] : FrameWords(f)[m] = [f |-> f, k |-> m - 1]
        BY <3>6, FrameWordsFacts
      <4>2. n - p \in Nat /\ n - p <= Sizes[f]
        BY <1>2, <3>2, <3>4, <3>6
      <4> HIDE DEF n
      <4> QED BY <4>1, <4>2
    <3>8. \A m \in 1 .. n - p : saved[m] = [f |-> f, k |-> m - 1]
      <4> TAKE m \in 1 .. n - p
      <4>1. m - 1 \in 0 .. size - 1 /\ (p + 1) + (m - 1) <= n /\ (p + 1) + (m - 1) = p + m
        BY <1>2, <3>2, <3>4
      <4>2. batch[(p + 1) + (m - 1)] = [f |-> batch[p + 1].f, k |-> m - 1]
        BY <1>1, <3>2, <3>3, <4>1, Contiguous
      <4>3. saved[m] = batch[p + m]
        BY <2>1
      <4> QED BY <3>6, <4>1, <4>2, <4>3
    <3> HIDE DEF t
    <3>9. saved = t
      <4>1. Len(saved) = Len(t) /\ \A m \in 1 .. Len(t) : saved[m] = t[m]
        BY <2>1, <3>7, <3>8
      <4>2. saved \in Seq(Word) /\ t \in Seq(Word)
        BY <1>1, <3>7
      <4> QED BY ONLY <4>1, <4>2
    <3> QED BY <3>6, <3>9 DEF t
  <2>5. Last(batch).k = batch[n].k
    BY <1>2
  <2> QED BY <2>3, <2>4, <2>5 DEF BackInStep, complete, f
<1>11. CASE \E p, q \in 1 .. Len(batch) :
             /\ EndsAt(batch, q, p) /\ AllListed(batch, p, frames)
             /\ \/ saved = <<>> /\ TailAt(batch, p, rest)
                \/ rest = <<>> /\ TailAt(batch, p, saved) /\ NoneComplete(saved)
  <2>1. PICK p \in 1 .. n, q \in 1 .. n :
             /\ EndsAt(batch, q, p) /\ AllListed(batch, p, frames)
             /\ \/ saved = <<>> /\ TailAt(batch, p, rest)
                \/ rest = <<>> /\ TailAt(batch, p, saved) /\ NoneComplete(saved)
    BY <1>11
  <2>2. TailAt(batch, p, saved) /\ NoneComplete(saved)
    <3>1. CASE saved = <<>> /\ TailAt(batch, p, rest)
      BY <1>1, <3>1 DEF NoneComplete
    <3> QED BY <2>1, <3>1
  <2> QED BY <1>10, <2>1, <2>2
<1> QED BY <1>1, <1>9, <1>11 DEF BatchInv

\* BackInStep holds of every behaviour: a batch without a gap brings the manager back in
\* step, whatever was lost before it.
THEOREM StepIsRegained == Spec => []BackInStep
<1>1. Inv /\ BatchInv => BackInStep
  BY BatchInStep
<1> QED BY BatchInvariant, <1>1, PTL
=============================================================================
