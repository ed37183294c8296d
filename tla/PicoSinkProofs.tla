--------------------------- MODULE PicoSinkProofs ---------------------------
(***************************************************************************)
(* Proofs about PicoSink, for every table of rates and bandwidths, every   *)
(* size of the calls of work and every bound on time, samples and calls.   *)
(*                                                                         *)
(* Inv is inductive by itself: types, and in which unit m_sample_rate is.  *)
(* PaceInv rests on it: the two copies of the rate, the clock and the      *)
(* count, wherever work and set_sample_rate are.  SessionInv rests on      *)
(* both: which query is open, and what the block knows of the radio, as    *)
(* long as no answer came late.                                            *)
(***************************************************************************)
EXTENDS PicoSink, TLAPS

\* The mnemonics this block sends.
Mnemonics ==
  {m \in [name : {"RCH", "SIP", "ISM", "HLP", "FRQ", "TXP", "SPR", "BWT", "help_SPR", "help_BWT"},
           value : Int] :
     m.name = "BWT" /\ ~IsQuery(m) => m.value \in Bandwidths}

\* A rate as set_sample_rate leaves it, in samples a second.
Scaled == {v * Mega : v \in Values}

\* set_sample_rate has the rate, and sets what work computes with.
Resetting == {"m_start", "m_total_samples", "per_tick", "per_us"}

\* There is no data without a session, and work only goes on with both.
ConnectionOK ==
  /\ m_data_connected \in BOOLEAN /\ m_mne_connected \in BOOLEAN
  /\ m_data_connected => m_mne_connected
  /\ Working => m_data_connected /\ m_mne_connected

\* The radio has a rate that its bandwidth has.
RadioOK == radio \in [rate : Nat, bw : Bandwidths] /\ radio.rate \in Available[radio.bw]

\* m_sample_rate is in Msps while set_sample_rate has not scaled it, and in
\* samples a second when the throttle is set from it.
SampleRateOK ==
  /\ m_sample_rate \in Values \cup Scaled
  /\ gpc = "scale" => m_sample_rate \in Values
  /\ gpc \in Resetting => m_sample_rate \in Scaled
  /\ want \in Nat

\* The count and the clock begin together, and never in the future.
ThrottleOK ==
  /\ m_samples_per_tick \in Values /\ m_samples_per_us \in Values
  /\ now \in Nat /\ m_start \in 0 .. now /\ since = m_start
  /\ m_total_samples \in Nat /\ given \in Nat /\ load \in Nat
  /\ items \in {0} \cup Items
  /\ expected \in Int /\ wake \in Int

\* The inductive invariant.
Inv == ConnectionOK /\ RadioOK /\ SampleRateOK /\ ThrottleOK /\ line \in Seq(Mnemonics)

-----------------------------------------------------------------------------
\* The two copies of the rate are the same but between their assignments, and are
\* the rate that set_sample_rate last finished with.
AgreeOK ==
  /\ gpc # "per_us" => m_samples_per_us = m_samples_per_tick
  /\ gpc = "per_us" \/ (~late /\ gpc \notin Assigning) =>
       m_sample_rate = m_samples_per_tick * Mega

\* set_sample_rate is in its resets only between calls of work, and has done those
\* that come before where it is.
StageOK ==
  /\ gpc \in Resetting => ~Working
  /\ gpc = "m_total_samples" => given = 0
  /\ gpc \in {"per_tick", "per_us"} => m_total_samples = 0

\* The radio is given nothing that is not counted.
CountOK ==
  /\ given <= m_total_samples
  /\ wpc = "send" /\ m_samples_per_tick > 0 => given + items <= m_total_samples
  /\ wpc = "store" => load = m_total_samples

\* The count is never more than a call and a tick ahead of the clock.
PacedOK ==
  m_samples_per_tick > 0 /\ gpc # "m_total_samples" =>
    m_total_samples < m_samples_per_tick * (now - m_start) + m_samples_per_tick + MaxItems

\* What work knows at each point: the expected count is one of the past; a sleep
\* ends when the clock has caught up, but for the fraction of a tick.
WorkOK ==
  /\ wpc \in {"expect", "compare", "sleep", "load", "store"} => m_samples_per_tick > 0
  /\ wpc = "compare" =>
       /\ expected <= m_samples_per_tick * (now - m_start)
       /\ m_total_samples - expected < m_samples_per_tick + MaxItems
  /\ wpc = "sleep" =>
       /\ m_samples_per_tick * (wake - now) < m_samples_per_tick + MaxItems
       /\ m_total_samples < m_samples_per_tick * (wake - m_start) + m_samples_per_tick
  /\ wpc \in {"load", "store"} =>
       m_total_samples < m_samples_per_tick * (now - m_start) + m_samples_per_tick
  /\ wpc # "stuck"

\* What work and set_sample_rate keep between them while their calls do not overlap.
Pace == StageOK /\ CountOK /\ PacedOK /\ WorkOK

\* The inductive invariant of the throttle.
PaceInv == AgreeOK /\ (~late /\ ~overlap => Pace)

-----------------------------------------------------------------------------
\* None of the mnemonics asks something.
NoQuery(l) == \A i \in 1 .. Len(l) : ~IsQuery(l[i])

\* None of them changes the rate of the radio.
NoChange(l) == \A i \in 1 .. Len(l) : l[i].name \in {"SPR", "BWT"} => IsQuery(l[i])

\* The last one is the query, and the only one.
Asks(l, name) ==
  l # <<>> /\ l[Len(l)] = Query(name) /\ \A i \in 1 .. Len(l) - 1 : ~IsQuery(l[i])

\* The answer is there, in one segment or two.
Answered(a, v) ==
  \/ a = <<[value |-> v, more |-> FALSE]>>
  \/ a = <<[value |-> 0, more |-> TRUE], [value |-> v, more |-> FALSE]>>

\* A query for name, to be answered with v, is open and nothing else is.
Waiting(l, a, name, v) ==
  \/ a = <<>> /\ Asks(l, name)
  \/ l = <<>> /\ Answered(a, v)

\* Where a setter waits for an answer.
Waits == {"help", "power", "bandwidth", "bandwidth_help", "rate", "rate_again", "rate_help"}

\* A setter that waits has its own query open and no other; a setter that is left
\* has none, and only those that wait to be told of a change have sent one.
SessionOK ==
  /\ gpc = "help" => Waiting(line, answers, "HLP", 0)
  /\ gpc = "power" => Waiting(line, answers, "TXP", 0)
  /\ gpc = "bandwidth" => Waiting(line, answers, "BWT", radio.bw)
  /\ gpc = "bandwidth_help" => Waiting(line, answers, "help_BWT", 0)
  /\ gpc \in {"rate", "rate_again"} => Waiting(line, answers, "SPR", radio.rate)
  /\ gpc = "rate_help" => Waiting(line, answers, "help_SPR", 0)
  /\ gpc \notin Waits => answers = <<>> /\ NoQuery(line)
  /\ gpc \notin {"rate", "rate_again", "bandwidth"} => NoChange(line)

\* Where no change of the rate is under way.
Settled == {"construct", "idle", "help", "power", "rate_help", "destroyed"}

\* The block throttles to the rate of the radio when no change is under way, and
\* knows the rate it is changing to once it has read it.  No rate it keeps is above
\* its limit, so that set_bandwidth can always set it again.
KnownOK ==
  /\ gpc \in Settled => m_samples_per_tick = 0 \/ m_samples_per_tick = radio.rate
  /\ gpc \notin Assigning => m_samples_per_tick <= MAX_SR_MHZ
  /\ gpc = "rate_again" =>
       \/ line = <<Cmd("SPR", 0), Query("SPR")>>
       \/ NoChange(line) /\ radio.rate <= MAX_SR_MHZ
  /\ gpc = "scale" => m_sample_rate = radio.rate /\ radio.rate <= MAX_SR_MHZ
  /\ gpc \in Resetting => m_sample_rate = radio.rate * Mega /\ radio.rate <= MAX_SR_MHZ
  /\ gpc = "per_us" => m_samples_per_tick = radio.rate

\* The inductive invariant of the session.
SessionInv == ~late => SessionOK /\ KnownOK

-----------------------------------------------------------------------------
USE DEF throttle, connection, session, block, gui, count, client

\* Products of a rate and a time.
LEMMA MulMono ==
  ASSUME NEW p \in Nat, NEW a \in Int, NEW b \in Int, a <= b
  PROVE  p * a <= p * b /\ p * a \in Int /\ p * b \in Int
  OBVIOUS

\* A rate and a time that are not negative.
LEMMA MulNat ==
  ASSUME NEW p \in Nat, NEW a \in Int, 0 <= a
  PROVE  0 <= p * a /\ p * a \in Int
  OBVIOUS

\* A rate over two times in a row.
LEMMA MulAdd ==
  ASSUME NEW p \in Nat, NEW a \in Int, NEW b \in Int
  PROVE  p * (a + b) = p * a + p * b /\ p * a \in Int /\ p * b \in Int
  OBVIOUS

\* The sleep is rounded down to a tick.
LEMMA DivBounds ==
  ASSUME NEW x \in Nat, NEW p \in Nat, p > 0
  PROVE  x \div p \in Nat /\ p * (x \div p) <= x /\ x < p * (x \div p) + p
  OBVIOUS

\* A scaled rate divides evenly.
LEMMA DivExact ==
  ASSUME NEW v \in Nat, NEW p \in Nat, p > 0
  PROVE  (v * p) \div p = v
  OBVIOUS

\* A rate that was not scaled divides to zero.
LEMMA DivSmall ==
  ASSUME NEW v \in Nat, NEW p \in Nat, v < p
  PROVE  v \div p = 0
  OBVIOUS

\* Values are rates and bandwidths in Msps and MHz, and rates of the radio are not
\* zero.
LEMMA ValuesFacts ==
  /\ 0 \in Values
  /\ \A v \in Values : v \in Nat /\ v < Mega
  /\ \A b \in Bandwidths : \A r \in Available[b] : r \in Values /\ r \in Nat /\ r > 0
  BY RatesAssumption, MegaAssumption DEF Values

\* What start and set_sample_rate divide.
LEMMA PerTick ==
  ASSUME NEW r \in Values \cup Scaled
  PROVE  /\ r \in Nat /\ r \div Mega \in Values
         /\ r \in Scaled => (r \div Mega) * Mega = r
<1>1. CASE r \in Scaled
  <2>1. PICK v \in Values : r = v * Mega
    BY <1>1 DEF Scaled
  <2>2. v \in Nat /\ Mega \in Nat /\ Mega > 0
    BY ValuesFacts, MegaAssumption
  <2>3. (v * Mega) \div Mega = v
    BY <2>2, DivExact
  <2>4. v * Mega \in Nat
    BY <2>2
  <2> QED BY <2>1, <2>3, <2>4
<1>2. CASE r \in Values /\ r \notin Scaled
  <2>1. r \in Nat /\ r < Mega /\ Mega \in Nat /\ 0 \in Values
    BY <1>2, ValuesFacts, MegaAssumption
  <2>2. r \div Mega = 0
    BY <2>1, DivSmall
  <2> QED BY <1>2, <2>1, <2>2
<1> QED BY <1>1, <1>2

\* No call of work has more than MaxItems.
LEMMA MaxItemsFacts == MaxItems \in Nat /\ \A n \in {0} \cup Items : n \in Nat /\ n <= MaxItems
<1>1. MaxItems \in Items /\ \A m \in Items : m <= MaxItems
  BY ItemsAssumption DEF MaxItems
<1> QED BY <1>1, ItemsAssumption

\* Which actions change which variable.
Footprint ==
  /\ UNCHANGED connection \/ Construct \/ Destroy
  /\ UNCHANGED radio \/ RadioObeys
  /\ UNCHANGED line \/ RadioAnswers \/ RadioObeys \/ Gui
  /\ UNCHANGED <<answers, late>> \/ RadioAnswers \/ Gui
  /\ UNCHANGED m_sample_rate \/ RateAnswered \/ ScaleRate
  /\ UNCHANGED <<m_start, since>> \/ start \/ ResetStart
  /\ UNCHANGED m_total_samples \/ start \/ StoreTotal \/ ResetTotal
  /\ UNCHANGED m_samples_per_tick \/ start \/ SetPerTick
  /\ UNCHANGED m_samples_per_us \/ start \/ SetPerUs
  /\ UNCHANGED given \/ start \/ ResetStart \/ SendData
  /\ UNCHANGED block \/ Block
  /\ UNCHANGED gui \/ Gui
  /\ UNCHANGED now \/ Tick

\* Every step keeps to the footprint.
LEMMA FootprintLemma == [Next]_vars => Footprint
<1> SUFFICES ASSUME [Next]_vars PROVE Footprint
  OBVIOUS
<1>1. CASE Radio
  BY <1>1 DEF Radio, RadioAnswers, RadioObeys, Reply, Footprint
<1>2. CASE Tick \/ UNCHANGED vars
  BY <1>2 DEF Tick, vars, Footprint
<1>3. CASE Block
  BY <1>3 DEF Block, BlockStep, start, work, ThrottleOn, Expect, Compare, Wake,
       LoadTotal, StoreTotal,
     SendData, StopFlowgraph, Footprint
<1>4. CASE Gui
  <2> USE DEF GuiStep, Footprint
  <2>1. CASE Construct \/ Destroy \/ Throw \/ set_frequency \/ set_power
    BY <1>4, <2>1 DEF Construct, Destroy, Throw, set_frequency, set_power
  <2>2. ASSUME NEW at, NEW next, Ignore(at, next) PROVE Footprint
    BY <1>4, <2>2 DEF Ignore
  <2>3. ASSUME NEW v, set_sample_rate(v) \/ set_bandwidth(v) PROVE Footprint
    BY <1>4, <2>3 DEF set_sample_rate, set_bandwidth
  <2>4. CASE BandwidthAnswered \/ Resample \/ RateAnswered \/ ScaleRate
    BY <1>4, <2>4 DEF BandwidthAnswered, Resample, RateAnswered, ScaleRate
  <2>5. CASE ResetStart \/ ResetTotal \/ SetPerTick \/ SetPerUs
    BY <1>4, <2>5 DEF ResetStart, ResetTotal, SetPerTick, SetPerUs
  <2> QED BY <1>4, <2>1, <2>2, <2>3, <2>4, <2>5 DEF Gui
<1> QED BY <1>1, <1>2, <1>3, <1>4 DEF Next

\* A block that is about to be constructed has the invariant.
LEMMA InitInv == Init => Inv
<1> SUFFICES ASSUME Init PROVE Inv
  OBVIOUS
<1>1. ConnectionOK
  BY DEF Init, ConnectionOK, Working
<1>2. RadioOK
  BY RatesAssumption DEF Init, RadioOK
<1>3. SampleRateOK
  BY ValuesFacts DEF Init, SampleRateOK, Resetting
<1>4. ThrottleOK
  BY ValuesFacts DEF Init, ThrottleOK
<1>5. line \in Seq(Mnemonics)
  BY DEF Init, ClientInit
<1> QED BY <1>1, <1>2, <1>3, <1>4, <1>5 DEF Inv

\* The constructor connects the session before the data, the destructor ends both
\* while the block does not work.
LEMMA ConnectionNext == Inv /\ [Next]_vars => ConnectionOK'
<1> SUFFICES ASSUME Inv, [Next]_vars PROVE ConnectionOK'
  OBVIOUS
<1>0. ConnectionOK /\ Footprint
  BY FootprintLemma DEF Inv
<1>1. CASE Construct
  <2>1. wpc' = wpc
    BY <1>1 DEF Construct, GuiStep
  <2>2. Working' = Working
    BY <2>1 DEF Working
  <2>3. \/ UNCHANGED connection
        \/ m_mne_connected' = TRUE /\ m_data_connected' = m_data_connected
        \/ m_mne_connected' = TRUE /\ m_data_connected' = TRUE
    BY <1>1 DEF Construct
  <2>4. CASE UNCHANGED connection
    BY <1>0, <2>2, <2>4 DEF ConnectionOK
  <2>5. CASE m_mne_connected' = TRUE /\ m_data_connected' = m_data_connected
    BY <1>0, <2>2, <2>5 DEF ConnectionOK
  <2>6. CASE m_mne_connected' = TRUE /\ m_data_connected' = TRUE
    BY <2>6 DEF ConnectionOK
  <2> QED BY <2>3, <2>4, <2>5, <2>6
<1>2. CASE Destroy
  <2>1. m_data_connected' = FALSE /\ m_mne_connected' = FALSE /\ wpc' = wpc /\ wpc \in {"stopped", "done"}
    BY <1>2 DEF Destroy, GuiStep
  <2>2. ~Working'
    BY <2>1 DEF Working
  <2> QED BY <2>1, <2>2 DEF ConnectionOK
<1>3. CASE UNCHANGED connection
  <2>1. UNCHANGED block => ConnectionOK'
    BY <1>0, <1>3 DEF ConnectionOK, Working
  <2>2. ASSUME Block PROVE Working' => Working \/ (m_data_connected /\ m_mne_connected)
    BY <2>2 DEF Block, start, work, ThrottleOn, Expect, Compare, Wake, LoadTotal,
         StoreTotal,
       SendData, StopFlowgraph, Working
  <2>3. Block => ConnectionOK'
    BY <1>0, <1>3, <2>2 DEF ConnectionOK
  <2> QED BY <1>0, <2>1, <2>3 DEF Footprint
<1> QED BY <1>0, <1>1, <1>2, <1>3 DEF Footprint

\* The radio is only asked for bandwidths it has, and takes a rate of its bandwidth.
LEMMA RadioNext == Inv /\ [Next]_vars => RadioOK'
<1> SUFFICES ASSUME Inv, [Next]_vars PROVE RadioOK'
  OBVIOUS
<1>0. RadioOK /\ Footprint /\ line \in Seq(Mnemonics)
  BY FootprintLemma DEF Inv
<1>1. CASE RadioObeys
  <2>0. Head(line) \in Mnemonics /\ ~IsQuery(Head(line))
    BY <1>0, <1>1 DEF RadioObeys
  <2>1. CASE Head(line).name = "SPR"
    <3>1. PICK r \in Available[radio.bw] : radio' = [radio EXCEPT !.rate = r]
      BY <1>1, <2>1 DEF RadioObeys
    <3>2. r \in Nat
      BY <1>0, ValuesFacts DEF RadioOK
    <3> QED BY <1>0, <3>1, <3>2 DEF RadioOK
  <2>2. CASE Head(line).name = "BWT"
    <3>0. Head(line).value \in Bandwidths
      BY <2>0, <2>2 DEF Mnemonics
    <3>1. PICK r \in Available[Head(line).value] : radio' = [rate |-> r, bw |-> Head(line).value]
      BY <1>1, <2>2 DEF RadioObeys
    <3>2. r \in Nat
      BY <3>0, ValuesFacts
    <3> QED BY <3>0, <3>1, <3>2 DEF RadioOK
  <2>3. CASE Head(line).name \notin {"SPR", "BWT"}
    BY <1>0, <1>1, <2>3 DEF RadioObeys, RadioOK
  <2> QED BY <2>1, <2>2, <2>3
<1> QED BY <1>0, <1>1 DEF Footprint, RadioOK

\* set_sample_rate stores a value of the radio, scales it once and then sets the
\* throttle.
LEMMA SampleRateNext == Inv /\ [Next]_vars => SampleRateOK'
<1> SUFFICES ASSUME Inv, [Next]_vars PROVE SampleRateOK'
  OBVIOUS
<1>0. SampleRateOK /\ Footprint
  BY FootprintLemma DEF Inv
<1>1. CASE RateAnswered
  BY <1>0, <1>1 DEF RateAnswered, SampleRateOK, Resetting
<1>2. CASE ScaleRate
  <2>1. m_sample_rate \in Values /\ m_sample_rate' = m_sample_rate * Mega /\ gpc' = "m_start"
        /\ UNCHANGED want
    BY <1>0, <1>2 DEF ScaleRate, SampleRateOK
  <2>2. m_sample_rate' \in Scaled
    BY <2>1 DEF Scaled
  <2> QED BY <1>0, <2>1, <2>2 DEF SampleRateOK
<1>3. CASE UNCHANGED m_sample_rate
  <2>0. m_sample_rate' \in Values \cup Scaled
    BY <1>0, <1>3 DEF SampleRateOK
  <2>1. ASSUME Gui PROVE (gpc' \in Resetting => gpc \in Resetting \/ ScaleRate)
                         /\ (gpc' = "scale" => RateAnswered)
    <3> USE DEF Resetting
    <3>1. CASE Construct \/ Destroy \/ Throw \/ set_frequency \/ set_power
      BY <3>1 DEF Construct, Destroy, Throw, set_frequency, set_power, Setter
    <3>2. CASE \/ Ignore("help", "idle") \/ Ignore("power", "idle") \/ Ignore("rate_help", "idle")
               \/ Ignore("bandwidth_help", "resample")
      BY <3>2 DEF Ignore
    <3>3. ASSUME NEW v, set_sample_rate(v) \/ set_bandwidth(v)
          PROVE  gpc' \notin Resetting /\ gpc' # "scale"
      BY <3>3 DEF set_sample_rate, set_bandwidth
    <3>4. CASE BandwidthAnswered \/ Resample \/ RateAnswered \/ ScaleRate
      BY <3>4 DEF BandwidthAnswered, Resample, RateAnswered, ScaleRate
    <3>5. CASE ResetStart \/ ResetTotal \/ SetPerTick \/ SetPerUs
      BY <3>5 DEF ResetStart, ResetTotal, SetPerTick, SetPerUs
    <3> QED BY <2>1, <3>1, <3>2, <3>3, <3>4, <3>5 DEF Gui
  <2>2. ASSUME Gui PROVE want' \in Nat
    <3>0. want \in Nat /\ m_sample_rate \div Mega \in Nat
      BY <1>0, PerTick, ValuesFacts DEF SampleRateOK
    <3>1. \A v \in Requested \cup Bandwidths : v \in Nat
      BY RatesAssumption
    <3> QED BY <3>0, <3>1, <2>2 DEF Gui, Construct, Destroy, Throw, set_frequency,
         set_power, Ignore,
       set_sample_rate, set_bandwidth, BandwidthAnswered, Resample, RateAnswered,
       ScaleRate, ResetStart,
       ResetTotal, SetPerTick, SetPerUs
  <2>3. CASE Gui
    BY <1>0, <1>1, <1>2, <1>3, <2>0, <2>1, <2>2, <2>3 DEF SampleRateOK
  <2>4. CASE UNCHANGED gui
    BY <1>0, <1>3, <2>4 DEF SampleRateOK
  <2> QED BY <1>0, <2>3, <2>4 DEF Footprint
<1> QED BY <1>0, <1>1, <1>2, <1>3 DEF Footprint

\* Every step keeps the types of the throttle, and resets clock and history together.
LEMMA ThrottleNext == Inv /\ [Next]_vars => ThrottleOK'
<1> SUFFICES ASSUME Inv, [Next]_vars PROVE ThrottleOK'
  OBVIOUS
<1>0. ThrottleOK /\ SampleRateOK /\ Footprint
  BY FootprintLemma DEF Inv
<1>1. m_sample_rate \div Mega \in Values /\ \A v \in Values : v \in Int
  BY <1>0, PerTick, ValuesFacts DEF SampleRateOK
<1>2. m_samples_per_tick' \in Values /\ m_samples_per_us' \in Values
  BY <1>0, <1>1 DEF Footprint, ThrottleOK, start, SetPerTick, SetPerUs
<1>3. now' \in Nat /\ now' >= now
  BY <1>0 DEF Footprint, ThrottleOK, Tick
<1>4. m_start' \in 0 .. now' /\ since' = m_start'
  <2>1. CASE start \/ ResetStart
    <3>1. m_start' = now /\ since' = now
      BY <2>1 DEF start, ResetStart
    <3> QED BY <1>0, <1>3, <3>1 DEF ThrottleOK
  <2> QED BY <1>0, <1>3, <2>1 DEF Footprint, ThrottleOK
<1>5. items' \in {0} \cup Items /\ load' \in Nat
  <2>1. CASE Block
    BY <1>0, <2>1 DEF ThrottleOK, Block, start, work, ThrottleOn, Expect, Compare, Wake,
         LoadTotal,
       StoreTotal, SendData, StopFlowgraph
  <2> QED BY <1>0, <2>1 DEF Footprint, ThrottleOK
<1>6. items \in Nat
  BY <1>0, MaxItemsFacts DEF ThrottleOK
<1>7. m_total_samples' \in Nat
  BY <1>0, <1>6 DEF Footprint, ThrottleOK, start, StoreTotal, ResetTotal
<1>8. given' \in Nat
  BY <1>0, <1>6 DEF Footprint, ThrottleOK, start, SendData, ResetStart
<1>9. expected' \in Int /\ wake' \in Int
  <2>0. /\ m_samples_per_tick \in Int /\ m_samples_per_us \in Nat /\ now \in Int /\ m_start \in Int
        /\ m_total_samples \in Int /\ expected \in Int /\ wake \in Int
    BY <1>0, <1>1, ValuesFacts DEF ThrottleOK
  <2>1. CASE Expect
    BY <2>0, <2>1 DEF Expect
  <2>2. CASE Compare
    <3>1. m_total_samples > expected /\ m_samples_per_us # 0 =>
            (m_total_samples - expected) \div m_samples_per_us \in Int
      BY <2>0, DivBounds
    <3> QED BY <2>0, <2>2, <3>1 DEF Compare
  <2>3. CASE Block /\ ~Expect /\ ~Compare
    BY <2>0, <2>3 DEF Block, start, work, ThrottleOn, Wake, LoadTotal, StoreTotal,
         SendData, StopFlowgraph
  <2> QED BY <1>0, <2>0, <2>1, <2>2, <2>3 DEF Footprint
<1> QED BY <1>2, <1>3, <1>4, <1>5, <1>7, <1>8, <1>9 DEF ThrottleOK

\* The mnemonics the block sends.
LEMMA SentMnemonics ==
  /\ \A v \in Nat :
       /\ Cmd("RCH", v) \in Mnemonics /\ Cmd("SIP", v) \in Mnemonics /\ Cmd("ISM", v) \in Mnemonics
       /\ Cmd("FRQ", v) \in Mnemonics /\ Cmd("TXP", v) \in Mnemonics /\ Cmd("SPR", v) \in Mnemonics
  /\ \A b \in Bandwidths : Cmd("BWT", b) \in Mnemonics
  /\ Query("HLP") \in Mnemonics /\ Query("TXP") \in Mnemonics /\ Query("SPR") \in Mnemonics
  /\ Query("BWT") \in Mnemonics /\ Query("help_SPR") \in Mnemonics /\ Query("help_BWT") \in Mnemonics
  /\ \A s : \A v \in Nat : ~IsQuery(Cmd(s, v))
  /\ \A s : IsQuery(Query(s))
<1> USE DEF Mnemonics, Cmd, Query, IsQuery
<1>1. \A v \in Nat :
        /\ Cmd("RCH", v) \in Mnemonics /\ Cmd("SIP", v) \in Mnemonics /\ Cmd("ISM", v) \in Mnemonics
        /\ Cmd("FRQ", v) \in Mnemonics /\ Cmd("TXP", v) \in Mnemonics /\ Cmd("SPR", v) \in Mnemonics
  OBVIOUS
<1>2. \A b \in Bandwidths : Cmd("BWT", b) \in Mnemonics
  BY RatesAssumption
<1>3. Query("HLP") \in Mnemonics /\ Query("TXP") \in Mnemonics /\ Query("SPR") \in Mnemonics
  OBVIOUS
<1>7. Query("help_SPR") \in Mnemonics
  OBVIOUS
<1>8. Query("help_BWT") \in Mnemonics
  OBVIOUS
<1>6. Query("BWT") \in Mnemonics
  <2>1. IsQuery(Query("BWT"))
    OBVIOUS
  <2>2. Query("BWT").name = "BWT" /\ Query("BWT").value \in Int
    OBVIOUS
  <2> QED BY <2>1
<1>4. \A s : \A v \in Nat : ~IsQuery(Cmd(s, v))
  OBVIOUS
<1>5. \A s : IsQuery(Query(s))
  OBVIOUS
<1> HIDE DEF Mnemonics, Cmd, Query, IsQuery
<1> QED BY <1>1, <1>2, <1>3, <1>4, <1>5, <1>6, <1>7, <1>8

\* What a step of the GUI may send.
GuiSends ==
  \/ UNCHANGED line
  \/ Construct
  \/ line' = Append(line, Cmd("FRQ", 0))
  \/ line' = Append(line, Cmd("ISM", 0))
  \/ line' = Append(line, Query("help_BWT"))
  \/ line' = Append(line, Query("help_SPR"))
  \/ line' = line \o <<Cmd("TXP", 0), Query("TXP")>>
  \/ \E v \in Nat : line' = line \o <<Cmd("SPR", v), Query("SPR")>>
  \/ \E b \in Bandwidths : line' = line \o <<Cmd("BWT", b), Query("BWT")>>

\* The setters, the constructor and the destructor send nothing else.
LEMMA GuiSendsLemma == Inv /\ [Next]_vars /\ Gui => GuiSends
<1> SUFFICES ASSUME Inv, [Next]_vars, Gui PROVE GuiSends
  OBVIOUS
<1> USE DEF GuiSends
<1>1. CASE Construct \/ Destroy \/ Throw \/ set_frequency \/ set_power
  BY <1>1 DEF Construct, Destroy, Throw, set_frequency, set_power
<1>2. CASE \/ Ignore("help", "idle") \/ Ignore("power", "idle") \/ Ignore("rate_help", "idle")
           \/ Ignore("bandwidth_help", "resample")
  BY <1>2 DEF Ignore
<1>3. ASSUME NEW sr \in Requested, set_sample_rate(sr) PROVE GuiSends
  <2>1. sr \in Nat
    BY RatesAssumption
  <2> QED BY <1>3, <2>1 DEF set_sample_rate
<1>4. ASSUME NEW bw \in Bandwidths, set_bandwidth(bw) PROVE GuiSends
  BY <1>4 DEF set_bandwidth
<1>5. CASE BandwidthAnswered \/ RateAnswered \/ ScaleRate
  BY <1>5 DEF BandwidthAnswered, RateAnswered, ScaleRate
<1>6. CASE Resample
  <2>1. m_sample_rate \div Mega \in Nat
    BY PerTick, ValuesFacts DEF Inv, SampleRateOK
  <2>2. \/ UNCHANGED line
        \/ line' = line \o <<Cmd("SPR", m_sample_rate \div Mega), Query("SPR")>>
    BY <1>6 DEF Resample
  <2> QED BY <2>1, <2>2
<1>7. CASE ResetStart \/ ResetTotal \/ SetPerTick \/ SetPerUs
  BY <1>7 DEF ResetStart, ResetTotal, SetPerTick, SetPerUs
<1> QED BY <1>1, <1>2, <1>3, <1>4, <1>5, <1>6, <1>7 DEF Gui

\* Only mnemonics of the block are on their way.
LEMMA LineNext == Inv /\ [Next]_vars => line' \in Seq(Mnemonics)
<1> SUFFICES ASSUME Inv, [Next]_vars PROVE line' \in Seq(Mnemonics)
  OBVIOUS
<1>0. line \in Seq(Mnemonics) /\ Footprint
  BY FootprintLemma DEF Inv
<1>1. CASE RadioAnswers \/ RadioObeys
  <2>1. line # <<>> /\ line' = Tail(line)
    BY <1>1 DEF RadioAnswers, RadioObeys, Reply
  <2> QED BY <1>0, <2>1
<1>2. ASSUME NEW m1 \in Mnemonics, NEW m2 \in Mnemonics,
             line' = Append(line, m1) \/ line' = line \o <<m1, m2>>
      PROVE  line' \in Seq(Mnemonics)
  <2>1. CASE line' = Append(line, m1)
    BY <1>0, <2>1
  <2>2. CASE line' = line \o <<m1, m2>>
    BY <1>0, <2>2
  <2> QED BY <1>2, <2>1, <2>2
<1>3. CASE Construct
  <2> DEFINE m1 == Cmd("RCH", 3)
             m2 == Cmd("SIP", 0)
             m3 == Cmd("ISM", 1)
             m4 == Query("HLP")
  <2>1. m1 \in Mnemonics /\ m2 \in Mnemonics /\ m3 \in Mnemonics /\ m4 \in Mnemonics
    BY SentMnemonics
  <2>2. line' = line \/ line' = <<m1, m2, m3, m4>> \/ line' = <<m1, m2, m3>>
    BY <1>3 DEF Construct
  <2> HIDE DEF m1, m2, m3, m4
  <2>3. CASE line' = <<m1, m2, m3, m4>>
    BY <2>1, <2>3
  <2>4. CASE line' = <<m1, m2, m3>>
    BY <2>1, <2>4
  <2> QED BY <1>0, <2>2, <2>3, <2>4
<1>4. CASE Gui
  <2>1. /\ Cmd("FRQ", 0) \in Mnemonics /\ Cmd("ISM", 0) \in Mnemonics /\ Query("help_BWT") \in Mnemonics
        /\ Query("help_SPR") \in Mnemonics /\ Cmd("TXP", 0) \in Mnemonics /\ Query("TXP") \in Mnemonics
        /\ Query("SPR") \in Mnemonics /\ Query("BWT") \in Mnemonics
    BY SentMnemonics
  <2>2. /\ \A v \in Nat : Cmd("SPR", v) \in Mnemonics
        /\ \A b \in Bandwidths : Cmd("BWT", b) \in Mnemonics
    BY SentMnemonics
  <2>3. GuiSends
    BY <1>4, GuiSendsLemma
  <2> QED BY <1>0, <1>2, <1>3, <2>1, <2>2, <2>3, Zenon DEF GuiSends
<1> QED BY <1>0, <1>1, <1>4 DEF Footprint

\* The values of every variable, and the unit m_sample_rate is in at every step of
\* set_sample_rate, hold in every state of the block.
THEOREM Invariant == Spec => []Inv
<1>1. Inv /\ [Next]_vars => Inv'
  BY ConnectionNext, RadioNext, SampleRateNext, ThrottleNext, LineNext DEF Inv
<1> QED BY InitInv, <1>1, PTL DEF Spec

\* The inductive invariant implies the type invariant of PicoSink.
LEMMA InvType == Inv => TypeOK
<1> SUFFICES ASSUME Inv PROVE TypeOK
  OBVIOUS
<1>1. m_sample_rate \in Nat
  BY PerTick DEF Inv, SampleRateOK
<1> QED BY <1>1 DEF Inv, TypeOK, ConnectionOK, RadioOK, ThrottleOK

-----------------------------------------------------------------------------
\* An answer that came late is never forgotten; and what makes an overlap.
LEMMA LateNext == [Next]_vars /\ ~late' => ~late
<1> SUFFICES ASSUME [Next]_vars, ~late' PROVE ~late
  OBVIOUS
<1>1. CASE UNCHANGED <<answers, late>> \/ RadioAnswers
  BY <1>1 DEF RadioAnswers, Reply
<1>2. CASE Gui
  <2>1. ASSUME NEW v, Receive(v) PROVE ~late
    BY <2>1 DEF Receive
  <2>2. CASE ReceiveThrows
    BY <2>2 DEF ReceiveThrows
  <2>3. UNCHANGED late \/ ReceiveThrows \/ \E v \in Values : Receive(v)
    BY <1>2 DEF Gui, Construct, Destroy, Throw, set_frequency, set_power, Ignore,
         set_sample_rate,
       set_bandwidth, BandwidthAnswered, Resample, RateAnswered, ScaleRate, ResetStart,
       ResetTotal,
       SetPerTick, SetPerUs
  <2> QED BY <2>1, <2>2, <2>3
<1> QED BY <1>1, <1>2, FootprintLemma DEF Footprint

\* What every step of the block leaves alone.
LEMMA BlockSteps == Block => BlockStep
  BY DEF Block, start, work, ThrottleOn, Expect, Compare, Wake, LoadTotal, StoreTotal,
       SendData,
     StopFlowgraph

\* What every step of the GUI leaves alone.
LEMMA GuiSteps == Gui => GuiStep
  BY DEF Gui, Construct, Destroy, Throw, set_frequency, set_power, Ignore,
       set_sample_rate,
     set_bandwidth, BandwidthAnswered, Resample, RateAnswered, ScaleRate, ResetStart,
     ResetTotal,
     SetPerTick, SetPerUs

\* As long as no overlap is recorded, the block does not step while set_sample_rate
\* changes the throttle, nor is it then in a call of work.
LEMMA OverlapNext ==
  ASSUME [Next]_vars, ~overlap'
  PROVE  /\ ~overlap
         /\ Block => gpc \notin Assigning
         /\ Gui => ~(Working /\ gpc \in Assigning)
<1>1. ASSUME Block PROVE ~overlap /\ gpc \notin Assigning
  <2>1. overlap' = (overlap \/ gpc \in Assigning)
    BY <1>1, BlockSteps DEF BlockStep
  <2>2. ~(overlap \/ gpc \in Assigning)
    BY <2>1
  <2> QED BY <2>2
<1>2. ASSUME Gui PROVE ~overlap /\ ~(Working /\ gpc \in Assigning)
  <2>1. overlap' = (overlap \/ (Working /\ gpc \in Assigning))
    BY <1>2, GuiSteps DEF GuiStep
  <2>2. ~(overlap \/ (Working /\ gpc \in Assigning))
    BY <2>1
  <2> QED BY <2>2
<1>3. Radio \/ Tick \/ UNCHANGED vars => UNCHANGED overlap
  BY DEF Radio, Tick, vars
<1> QED BY <1>1, <1>2, <1>3 DEF Next

\* Steps of the GUI that leave the throttle alone.
LEMMA GuiElsewhere ==
  ASSUME Gui, ~RateAnswered, ~ScaleRate, ~SetPerTick, ~SetPerUs
  PROVE  /\ gpc' # "per_us" /\ gpc # "per_us"
         /\ gpc' \notin Assigning => gpc \notin Assigning \/ late'
         /\ gpc' \in Assigning => gpc \in Resetting /\ gpc' \in Resetting /\ (ResetStart \/ ResetTotal)
<1> USE DEF Assigning, Resetting
<1>1. CASE Construct \/ Destroy \/ set_frequency \/ set_power
  BY <1>1 DEF Construct, Destroy, set_frequency, set_power, Setter
<1>2. CASE Throw
  BY <1>2 DEF Throw, ReceiveThrows
<1>3. CASE \/ Ignore("help", "idle") \/ Ignore("power", "idle") \/ Ignore("rate_help", "idle")
           \/ Ignore("bandwidth_help", "resample")
  BY <1>3 DEF Ignore
<1>4. ASSUME NEW v, set_sample_rate(v) \/ set_bandwidth(v)
      PROVE  gpc \notin Assigning /\ gpc' \notin Assigning
  BY <1>4 DEF set_sample_rate, set_bandwidth, Setter
<1>5. CASE BandwidthAnswered \/ Resample
  BY <1>5 DEF BandwidthAnswered, Resample
<1>6. CASE ResetStart \/ ResetTotal
  BY <1>6 DEF ResetStart, ResetTotal
<1> QED BY <1>1, <1>2, <1>3, <1>4, <1>5, <1>6 DEF Gui

\* start and set_sample_rate both compute the two copies from m_sample_rate.
LEMMA AgreeNext == Inv /\ AgreeOK /\ [Next]_vars => AgreeOK'
<1> SUFFICES ASSUME Inv, AgreeOK, [Next]_vars PROVE AgreeOK'
  OBVIOUS
<1>0. SampleRateOK /\ ThrottleOK /\ Footprint
  BY FootprintLemma DEF Inv
<1>1. m_samples_per_tick \in Nat /\ Mega \in Nat /\ Mega > 0
  BY <1>0, ValuesFacts, MegaAssumption DEF ThrottleOK
<1>2. (m_samples_per_tick * Mega) \div Mega = m_samples_per_tick
  BY <1>1, DivExact
<1>3. CASE start
  <2>1. /\ m_samples_per_tick' = m_sample_rate \div Mega /\ m_samples_per_us' = m_sample_rate \div Mega
        /\ UNCHANGED <<m_sample_rate, gpc, late>>
    BY <1>3 DEF start, BlockStep
  <2> QED BY <1>2, <2>1 DEF AgreeOK
<1>4. CASE RateAnswered \/ ScaleRate
  <2>1. UNCHANGED <<m_samples_per_us, m_samples_per_tick>> /\ gpc' \in Assigning /\ gpc' # "per_us"
        /\ gpc # "per_us"
    BY <1>4 DEF RateAnswered, ScaleRate, Assigning
  <2> QED BY <2>1 DEF AgreeOK
<1>5. CASE SetPerTick
  <2>1. /\ m_samples_per_tick' = m_sample_rate \div Mega /\ gpc = "per_tick" /\ gpc' = "per_us"
        /\ UNCHANGED m_sample_rate
    BY <1>5 DEF SetPerTick
  <2>2. m_sample_rate \in Scaled
    BY <1>0, <2>1 DEF SampleRateOK, Resetting
  <2>3. (m_sample_rate \div Mega) * Mega = m_sample_rate
    BY <2>2, PerTick
  <2> QED BY <2>1, <2>3 DEF AgreeOK
<1>6. CASE SetPerUs
  <2>1. /\ m_samples_per_us' = m_sample_rate \div Mega /\ gpc = "per_us" /\ gpc' # "per_us"
        /\ UNCHANGED <<m_sample_rate, m_samples_per_tick>>
    BY <1>6 DEF SetPerUs
  <2> QED BY <1>2, <2>1 DEF AgreeOK
<1>7. CASE UNCHANGED <<m_sample_rate, m_samples_per_us, m_samples_per_tick>>
  <2>1. CASE UNCHANGED gui
    <3>1. ~late' => ~late
      BY LateNext
    <3> QED BY <1>7, <2>1, <3>1 DEF AgreeOK
  <2>2. CASE Gui /\ ~RateAnswered /\ ~ScaleRate /\ ~SetPerTick /\ ~SetPerUs
    BY <1>7, <2>2, GuiElsewhere, LateNext DEF AgreeOK
  <2> QED BY <1>0, <1>4, <1>5, <1>6, <2>1, <2>2 DEF Footprint
<1> QED BY <1>0, <1>3, <1>4, <1>5, <1>6, <1>7 DEF Footprint

-----------------------------------------------------------------------------
\* The variables of the throttle are numbers.
LEMMA Numbers ==
  ASSUME Inv
  PROVE  /\ m_samples_per_tick \in Nat /\ m_samples_per_us \in Nat /\ m_sample_rate \in Nat
         /\ now \in Nat /\ m_start \in Nat /\ m_start <= now /\ since = m_start
         /\ m_total_samples \in Nat /\ given \in Nat /\ load \in Nat
         /\ items \in Nat /\ items <= MaxItems /\ MaxItems \in Nat
         /\ expected \in Int /\ wake \in Int
         /\ m_samples_per_tick * (now - m_start) \in Int
<1>1. m_sample_rate \in Nat
  BY PerTick DEF Inv, SampleRateOK
<1>2. m_samples_per_tick \in Nat /\ m_samples_per_us \in Nat
  BY ValuesFacts DEF Inv, ThrottleOK
<1>3. now \in Nat /\ m_start \in Nat /\ m_start <= now
  BY DEF Inv, ThrottleOK
<1>4. m_samples_per_tick * (now - m_start) \in Int
  BY <1>2, <1>3
<1> QED BY <1>1, <1>2, <1>3, <1>4, MaxItemsFacts DEF Inv, ThrottleOK

\* A step that changes none of the variables of the throttle.
LEMMA PaceStays ==
  ASSUME Pace, UNCHANGED <<throttle, wpc, items, expected, wake, load, gpc, now, count>>
  PROVE  Pace'
  BY DEF Pace, StageOK, CountOK, PacedOK, WorkOK, Working

\* Time passes: the clock catches up with the count, and a sleep gets shorter.
LEMMA PaceTick ==
  ASSUME Inv, Pace, Tick
  PROVE  Pace'
<1>1. /\ now' = now + 1
      /\ UNCHANGED <<throttle, wpc, items, expected, wake, load, gpc, count>>
  BY DEF Tick
<1>2. m_samples_per_tick * (now - m_start) <= m_samples_per_tick * (now' - m_start)
      /\ m_samples_per_tick * (now' - m_start) \in Int
  <2>1. now - m_start \in Int /\ now' - m_start \in Int /\ now - m_start <= now' - m_start
    BY <1>1, Numbers
  <2> QED BY <2>1, Numbers, MulMono
<1>3. m_samples_per_tick * (wake - now') <= m_samples_per_tick * (wake - now)
      /\ m_samples_per_tick * (wake - now') \in Int /\ m_samples_per_tick * (wake - now) \in Int
  <2>1. wake - now \in Int /\ wake - now' \in Int /\ wake - now' <= wake - now
    BY <1>1, Numbers
  <2> QED BY <2>1, Numbers, MulMono
<1>4. StageOK' /\ CountOK'
  BY <1>1 DEF Pace, StageOK, CountOK, Working
<1>5. PacedOK'
  <2> DEFINE a == m_samples_per_tick * (now - m_start)
             b == m_samples_per_tick * (now' - m_start)
  <2>1. a \in Int /\ b \in Int /\ a <= b
    BY <1>2, Numbers
  <2>2. m_samples_per_tick > 0 /\ gpc # "m_total_samples" =>
          m_total_samples < a + m_samples_per_tick + MaxItems
    BY DEF Pace, PacedOK
  <2> HIDE DEF a, b
  <2>3. m_samples_per_tick > 0 /\ gpc # "m_total_samples" =>
          m_total_samples < b + m_samples_per_tick + MaxItems
    BY <2>1, <2>2, Numbers
  <2> QED BY <1>1, <2>3 DEF PacedOK, b
<1>6. WorkOK'
  <2> DEFINE a == m_samples_per_tick * (now - m_start)
             b == m_samples_per_tick * (now' - m_start)
             c == m_samples_per_tick * (wake - now)
             d == m_samples_per_tick * (wake - now')
  <2>1. a \in Int /\ b \in Int /\ a <= b /\ c \in Int /\ d \in Int /\ d <= c
    BY <1>2, <1>3, Numbers
  <2>2. /\ wpc = "compare" => expected <= a
        /\ wpc = "sleep" => c < m_samples_per_tick + MaxItems
        /\ wpc \in {"load", "store"} => m_total_samples < a + m_samples_per_tick
    BY DEF Pace, WorkOK
  <2> HIDE DEF a, b, c, d
  <2>3. /\ wpc = "compare" => expected <= b
        /\ wpc = "sleep" => d < m_samples_per_tick + MaxItems
        /\ wpc \in {"load", "store"} => m_total_samples < b + m_samples_per_tick
    BY <2>1, <2>2, Numbers
  <2> QED BY <1>1, <2>3 DEF Pace, WorkOK, b, d
<1> QED BY <1>4, <1>5, <1>6 DEF Pace

\* Every step of start and work.
LEMMA PaceBlock ==
  ASSUME Inv, AgreeOK, Pace, Block, ~late, gpc \notin Assigning
  PROVE  Pace'
<1>0. UNCHANGED <<gpc, now>> /\ m_sample_rate = m_samples_per_tick * Mega
      /\ m_samples_per_us = m_samples_per_tick /\ gpc \notin Resetting /\ gpc # "m_total_samples"
  BY BlockSteps DEF BlockStep, AgreeOK, Assigning, Resetting
<1>1. StageOK'
  BY <1>0 DEF StageOK, Resetting
<1> DEFINE P == m_samples_per_tick
           a == P * (now - m_start)
<1>2. a \in Int
  BY Numbers
<1>3. P > 0 => m_total_samples < a + P + MaxItems
  BY <1>0 DEF Pace, PacedOK
<1>4. CASE start
  <2>1. m_start' = now /\ m_total_samples' = 0 /\ given' = 0 /\ wpc' = "idle"
        /\ m_samples_per_tick' = m_sample_rate \div Mega
    BY <1>4 DEF start
  <2>2. m_samples_per_tick' = P
    <3>1. (P * Mega) \div Mega = P
      BY Numbers, DivExact, MegaAssumption
    <3> QED BY <1>0, <2>1, <3>1
  <2>3. CountOK' /\ WorkOK'
    BY <2>1 DEF CountOK, WorkOK
  <2>4. P * (now' - m_start') = 0
    BY <1>0, <2>1, Numbers
  <2>5. PacedOK'
    BY <2>1, <2>2, <2>4, Numbers DEF PacedOK
  <2> QED BY <1>1, <2>3, <2>5 DEF Pace
<1>5. CASE (\E n \in Items : work(n)) \/ StopFlowgraph
  <2>1. UNCHANGED <<throttle, count>> /\ wpc' \in {"rate?", "done", "stopped"}
    BY <1>5 DEF work, StopFlowgraph
  <2>2. CountOK' /\ WorkOK'
    BY <2>1 DEF Pace, CountOK, WorkOK
  <2>3. PacedOK'
    BY <1>0, <2>1 DEF Pace, PacedOK
  <2> QED BY <1>1, <2>2, <2>3 DEF Pace
<1>6. CASE ThrottleOn
  <2>1. /\ UNCHANGED <<throttle, count, items>>
        /\ \/ wpc' = "expect" /\ m_sample_rate > 0
           \/ wpc' = "send" /\ ~(m_sample_rate > 0)
    BY <1>6 DEF ThrottleOn
  <2>2. m_sample_rate > 0 <=> P > 0
    BY <1>0, Numbers, MegaAssumption
  <2>3. CountOK' /\ WorkOK'
    BY <2>1, <2>2 DEF Pace, CountOK, WorkOK
  <2>4. PacedOK'
    BY <1>0, <2>1 DEF Pace, PacedOK
  <2> QED BY <1>1, <2>3, <2>4 DEF Pace
<1>7. CASE Expect
  <2>1. UNCHANGED <<throttle, count, items>> /\ wpc' = "compare" /\ expected' = a /\ wpc = "expect"
    BY <1>7 DEF Expect
  <2>2. P > 0
    BY <2>1 DEF Pace, WorkOK
  <2>3. m_total_samples - a < P + MaxItems
    BY <1>2, <1>3, <2>2, Numbers
  <2>4. WorkOK'
    BY <1>0, <1>2, <2>1, <2>2, <2>3 DEF WorkOK
  <2>5. CountOK' /\ PacedOK'
    BY <1>0, <2>1 DEF Pace, CountOK, PacedOK
  <2> QED BY <1>1, <2>4, <2>5 DEF Pace
<1>8. CASE Compare
  <2>1. UNCHANGED <<throttle, count, items>> /\ wpc = "compare" /\ wpc' # "send" /\ wpc' # "store"
    BY <1>8 DEF Compare
  <2>2. P > 0 /\ expected <= a /\ m_total_samples - expected < P + MaxItems
    BY <2>1 DEF Pace, WorkOK
  <2>3. CountOK' /\ PacedOK'
    BY <1>0, <2>1 DEF Pace, CountOK, PacedOK
  <2>4. CASE m_total_samples <= expected
    <3>1. wpc' = "load"
      BY <1>8, <2>4, Numbers DEF Compare
    <3>2. m_total_samples < a + P
      BY <1>2, <2>2, <2>4, Numbers
    <3>3. WorkOK'
      BY <1>0, <2>1, <2>2, <3>1, <3>2 DEF WorkOK
    <3> QED BY <1>1, <2>3, <3>3 DEF Pace
  <2>5. CASE m_total_samples > expected
    <3> DEFINE q == (m_total_samples - expected) \div P
    <3>0. m_samples_per_us # 0
      BY <1>0, <2>2, Numbers
    <3>1. wpc' = "sleep" /\ wake' = now + q
      BY <1>0, <1>8, <2>5, <3>0, Numbers DEF Compare
    <3>2. q \in Nat /\ P * q <= m_total_samples - expected /\ m_total_samples - expected < P * q + P
          /\ P * q \in Int
      <4>1. m_total_samples - expected \in Nat
        BY <2>5, Numbers
      <4>2. q \in Nat /\ P * q <= m_total_samples - expected /\ m_total_samples - expected < P * q + P
        BY <2>2, <4>1, Numbers, DivBounds
      <4> HIDE DEF q
      <4>3. P * q \in Int
        BY <4>2, Numbers
      <4> QED BY <4>2, <4>3
    <3> HIDE DEF q
    <3>3. wake' - now' = q
      BY <1>0, <3>1, <3>2, Numbers
    <3>4. P * (wake' - now') < P + MaxItems
      BY <2>2, <3>2, <3>3, Numbers
    <3>5. wake' - m_start = (now - m_start) + q /\ now - m_start \in Int
      BY <3>1, <3>2, Numbers
    <3>6. P * ((now - m_start) + q) = a + P * q
      BY <3>2, <3>5, MulAdd, Numbers
    <3>7. m_total_samples < P * (wake' - m_start) + P
      BY <1>2, <2>2, <3>2, <3>5, <3>6, Numbers
    <3>8. WorkOK'
      BY <2>1, <2>2, <3>1, <3>4, <3>7 DEF WorkOK
    <3> QED BY <1>1, <2>3, <3>8 DEF Pace
  <2> QED BY <2>4, <2>5, Numbers
<1>9. CASE Wake
  <2>1. UNCHANGED <<throttle, count, items>> /\ wpc = "sleep" /\ wpc' = "load" /\ now >= wake
    BY <1>9 DEF Wake
  <2>2. P > 0 /\ m_total_samples < P * (wake - m_start) + P
    BY <2>1 DEF Pace, WorkOK
  <2>3. P * (wake - m_start) <= a /\ P * (wake - m_start) \in Int
    <3>1. wake - m_start \in Int /\ now - m_start \in Int /\ wake - m_start <= now - m_start
      BY <2>1, Numbers
    <3> QED BY <3>1, Numbers, MulMono
  <2>4. m_total_samples < a + P
    BY <1>2, <2>2, <2>3, Numbers
  <2>5. WorkOK'
    BY <1>0, <2>1, <2>2, <2>4 DEF WorkOK
  <2>6. CountOK' /\ PacedOK'
    BY <1>0, <2>1 DEF Pace, CountOK, PacedOK
  <2> QED BY <1>1, <2>5, <2>6 DEF Pace
<1>10. CASE LoadTotal
  <2>1. /\ UNCHANGED <<throttle, count, items>> /\ wpc = "load" /\ wpc' = "store"
        /\ load' = m_total_samples
    BY <1>10 DEF LoadTotal
  <2>2. WorkOK'
    BY <1>0, <2>1 DEF Pace, WorkOK
  <2>3. CountOK' /\ PacedOK'
    BY <1>0, <2>1 DEF Pace, CountOK, PacedOK
  <2> QED BY <1>1, <2>2, <2>3 DEF Pace
<1>11. CASE StoreTotal
  <2>1. /\ UNCHANGED <<m_start, m_samples_per_tick, count, items>> /\ wpc = "store" /\ wpc' = "send"
        /\ m_total_samples' = load + items
    BY <1>11 DEF StoreTotal
  <2>2. P > 0 /\ m_total_samples < a + P /\ load = m_total_samples /\ given <= m_total_samples
    BY <2>1 DEF Pace, WorkOK, CountOK
  <2>3. WorkOK'
    BY <2>1 DEF WorkOK
  <2>4. given + items <= load + items /\ given <= load + items
    BY <2>2, Numbers
  <2>5. CountOK'
    BY <2>1, <2>4 DEF CountOK
  <2>6. load + items < a + P + MaxItems
    BY <1>2, <2>2, Numbers
  <2>7. PacedOK'
    BY <1>0, <2>1, <2>6 DEF PacedOK
  <2> QED BY <1>1, <2>3, <2>5, <2>7 DEF Pace
<1>12. CASE SendData
  <2>1. UNCHANGED throttle /\ wpc = "send" /\ wpc' \in {"idle", "died"}
        /\ (given' = given \/ (given' = given + items /\ m_sample_rate > 0))
    BY <1>12 DEF SendData
  <2>2. m_sample_rate > 0 => P > 0
    BY <1>0, Numbers, MegaAssumption
  <2>3. given' <= m_total_samples
    BY <2>1, <2>2 DEF Pace, CountOK
  <2>4. CountOK' /\ WorkOK'
    BY <2>1, <2>3 DEF CountOK, WorkOK
  <2>5. PacedOK'
    BY <1>0, <2>1 DEF Pace, PacedOK
  <2> QED BY <1>1, <2>4, <2>5 DEF Pace
<1> QED BY <1>4, <1>5, <1>6, <1>7, <1>8, <1>9, <1>10, <1>11, <1>12 DEF Block

\* Every step of the setters: the resets of set_sample_rate come between calls of
\* work, and all of them before the next.
LEMMA PaceGui ==
  ASSUME Inv, AgreeOK, Pace, Gui, ~late, ~(Working /\ gpc \in Assigning)
  PROVE  late' \/ Pace'
<1>0. UNCHANGED <<wpc, items, expected, wake, load, now>>
  BY GuiSteps DEF GuiStep
<1>1. CASE RateAnswered \/ ScaleRate
  <2>1. /\ UNCHANGED <<m_start, m_total_samples, m_samples_per_tick, m_samples_per_us, count>>
        /\ \/ gpc \in {"rate", "rate_again"} /\ gpc' \in {"rate_again", "scale"}
           \/ gpc = "scale" /\ gpc' = "m_start"
    BY <1>1 DEF RateAnswered, ScaleRate
  <2>2. StageOK'
    BY <1>0, <2>1 DEF StageOK, Resetting, Assigning, Working
  <2>3. CountOK' /\ WorkOK'
    BY <1>0, <2>1 DEF Pace, CountOK, WorkOK
  <2>4. PacedOK'
    BY <1>0, <2>1 DEF Pace, PacedOK
  <2> QED BY <2>2, <2>3, <2>4 DEF Pace
<1>2. CASE ResetStart
  <2>1. /\ UNCHANGED <<m_total_samples, m_samples_per_tick, m_samples_per_us>>
        /\ given' = 0 /\ gpc = "m_start" /\ gpc' = "m_total_samples"
    BY <1>2 DEF ResetStart
  <2>2. ~Working
    BY <2>1 DEF Assigning
  <2>3. StageOK' /\ CountOK' /\ WorkOK' /\ PacedOK'
    BY <1>0, <2>1, <2>2, Numbers DEF StageOK, CountOK, WorkOK, PacedOK, Working, Resetting
  <2> QED BY <2>3 DEF Pace
<1>3. CASE ResetTotal
  <2>1. /\ UNCHANGED <<m_start, m_samples_per_tick, m_samples_per_us, count>>
        /\ m_total_samples' = 0 /\ gpc = "m_total_samples" /\ gpc' = "per_tick"
    BY <1>3 DEF ResetTotal
  <2>2. ~Working /\ given = 0
    BY <2>1 DEF Assigning, Pace, StageOK
  <2>3. StageOK' /\ CountOK' /\ WorkOK'
    BY <1>0, <2>1, <2>2, Numbers DEF StageOK, CountOK, WorkOK, Working, Resetting
  <2>4. 0 <= m_samples_per_tick * (now - m_start)
    <3>1. now - m_start \in Int /\ 0 <= now - m_start
      BY Numbers
    <3> QED BY <3>1, Numbers, MulNat
  <2>5. PacedOK'
    BY <1>0, <2>1, <2>4, Numbers DEF PacedOK
  <2> QED BY <2>3, <2>5 DEF Pace
<1>4. CASE SetPerTick
  <2>1. /\ UNCHANGED <<m_start, m_total_samples, m_samples_per_us, m_sample_rate, count>>
        /\ m_samples_per_tick' = m_sample_rate \div Mega /\ gpc = "per_tick" /\ gpc' = "per_us"
    BY <1>4 DEF SetPerTick
  <2>2. ~Working /\ m_total_samples = 0 /\ given <= 0
    BY <2>1 DEF Assigning, Pace, StageOK, CountOK
  <2>3. m_samples_per_tick' \in Nat
    BY <2>1, PerTick, ValuesFacts DEF Inv, SampleRateOK
  <2>4. StageOK' /\ CountOK' /\ WorkOK'
    BY <1>0, <2>1, <2>2, Numbers DEF StageOK, CountOK, WorkOK, Working, Resetting
  <2>5. 0 <= m_samples_per_tick' * (now - m_start)
        /\ m_samples_per_tick' * (now - m_start) \in Int
    <3>1. now - m_start \in Int /\ 0 <= now - m_start
      BY Numbers
    <3> QED BY <2>3, <3>1, MulNat
  <2>6. m_samples_per_tick' > 0 => 0 < m_samples_per_tick' * (now - m_start) + m_samples_per_tick' + MaxItems
    BY <2>3, <2>5, Numbers
  <2>7. PacedOK'
    BY <1>0, <2>1, <2>2, <2>6 DEF PacedOK
  <2> QED BY <2>4, <2>7 DEF Pace
<1>5. CASE SetPerUs
  <2>1. /\ UNCHANGED <<m_start, m_total_samples, m_samples_per_tick, m_sample_rate, count>>
        /\ gpc = "per_us" /\ gpc' \in {"idle", "rate_help"}
    BY <1>5 DEF SetPerUs
  <2>2. StageOK'
    BY <2>1 DEF StageOK, Resetting
  <2>3. CountOK' /\ WorkOK'
    BY <1>0, <2>1 DEF Pace, CountOK, WorkOK
  <2>4. PacedOK'
    BY <1>0, <2>1 DEF Pace, PacedOK
  <2> QED BY <2>2, <2>3, <2>4 DEF Pace
<1>6. CASE ~RateAnswered /\ ~ScaleRate /\ ~ResetStart /\ ~ResetTotal /\ ~SetPerTick /\ ~SetPerUs
  <2>1. UNCHANGED <<throttle, count>>
    BY <1>6 DEF Gui, Construct, Destroy, Throw, set_frequency, set_power, Ignore,
         set_sample_rate,
       set_bandwidth, BandwidthAnswered, Resample
  <2>2. gpc' \notin Assigning /\ (gpc \notin Assigning \/ late')
    BY <1>6, GuiElsewhere
  <2>3. CASE gpc \notin Assigning
    <3>1. StageOK'
      BY <2>2 DEF StageOK, Resetting, Assigning
    <3>2. CountOK' /\ WorkOK'
      BY <1>0, <2>1 DEF Pace, CountOK, WorkOK
    <3>3. PacedOK'
      BY <1>0, <2>1, <2>3 DEF Pace, PacedOK, Assigning
    <3> QED BY <3>1, <3>2, <3>3 DEF Pace
  <2> QED BY <2>2, <2>3
<1> QED BY <1>1, <1>2, <1>3, <1>4, <1>5, <1>6

\* Nothing is counted before the first start.
LEMMA PaceInit == Init => PaceInv
<1> SUFFICES ASSUME Init PROVE PaceInv
  OBVIOUS
<1>1. AgreeOK
  BY MegaAssumption DEF Init, AgreeOK
<1>2. StageOK /\ CountOK /\ PacedOK /\ WorkOK
  BY DEF Init, StageOK, CountOK, PacedOK, WorkOK, Resetting
<1> QED BY <1>1, <1>2 DEF PaceInv, Pace

\* Every step keeps the invariant of the throttle.
LEMMA PaceNext == Inv /\ PaceInv /\ [Next]_vars => PaceInv'
<1> SUFFICES ASSUME Inv, PaceInv, [Next]_vars PROVE PaceInv'
  OBVIOUS
<1>1. AgreeOK /\ AgreeOK'
  BY AgreeNext DEF PaceInv
<1>2. ASSUME ~late', ~overlap' PROVE Pace'
  <2>1. /\ ~late /\ ~overlap
        /\ Block => gpc \notin Assigning
        /\ Gui => ~(Working /\ gpc \in Assigning)
    BY <1>2, LateNext, OverlapNext
  <2>2. Pace
    BY <2>1 DEF PaceInv
  <2>3. CASE Radio \/ UNCHANGED vars
    <3>1. UNCHANGED <<throttle, wpc, items, expected, wake, load, gpc, now, count>>
      BY <2>3 DEF Radio, vars
    <3> QED BY <2>2, <3>1, PaceStays
  <2>4. CASE Tick
    BY <2>2, <2>4, PaceTick
  <2>5. CASE Block
    BY <1>1, <2>1, <2>2, <2>5, PaceBlock
  <2>6. CASE Gui
    BY <1>1, <1>2, <2>1, <2>2, <2>6, PaceGui
  <2> QED BY <2>3, <2>4, <2>5, <2>6 DEF Next
<1> QED BY <1>1, <1>2 DEF PaceInv

\* The rate, the clock and the count agree in every state, but for an answer that came
\* late or a set_sample_rate in the middle of work.
THEOREM PaceInvariant == Spec => [](Inv /\ PaceInv)
<1>1. (Inv /\ PaceInv) /\ [Next]_vars => (Inv /\ PaceInv)'
  BY PaceNext, ConnectionNext, RadioNext, SampleRateNext, ThrottleNext, LineNext DEF Inv
<1> QED BY InitInv, PaceInit, <1>1, PTL DEF Spec

\* SleepBounded holds of every behaviour: no sleep of work is longer than the samples of
\* one call take, and the division by the rate is never by zero, but for a late answer
\* or a set_sample_rate in the middle of work.
THEOREM SleepIsBounded == Spec => []SleepBounded
<1>1. Inv /\ PaceInv => SleepBounded
  <2> SUFFICES ASSUME Inv, PaceInv PROVE SleepBounded
    OBVIOUS
  <2>1. TypeOK
    BY InvType
  <2>2. ASSUME Throttled, wpc = "sleep"
        PROVE  m_samples_per_us * (wake - now) < MaxItems + m_samples_per_us
    <3>1. StageOK /\ WorkOK /\ AgreeOK
      BY <2>2 DEF PaceInv, Pace, Throttled
    <3>2. m_samples_per_us = m_samples_per_tick
      BY <2>2, <3>1 DEF StageOK, AgreeOK, Working, Resetting
    <3>3. m_samples_per_tick * (wake - now) < m_samples_per_tick + MaxItems
      BY <2>2, <3>1 DEF WorkOK
    <3>4. m_samples_per_tick * (wake - now) \in Int
      BY Numbers
    <3> QED BY <3>2, <3>3, <3>4, Numbers
  <2>3. wpc = "stuck" => overlap \/ late
    BY DEF PaceInv, Pace, WorkOK
  <2> QED BY <2>1, <2>2, <2>3 DEF SleepBounded
<1> QED BY PaceInvariant, <1>1, PTL

\* RateHeld holds of every behaviour: over any time since the count began the radio is
\* given no more than its rate, but for one call and the fraction of a tick.
THEOREM RateIsHeld == Spec => []RateHeld
<1>1. Inv /\ PaceInv => RateHeld
  <2> SUFFICES ASSUME Inv, PaceInv, Throttled, gpc \notin Assigning
               PROVE  given <= m_samples_per_tick * (now - since) + MaxItems + m_samples_per_tick
    BY DEF RateHeld
  <2>1. AgreeOK /\ CountOK /\ PacedOK /\ ~late /\ m_sample_rate > 0
    BY DEF PaceInv, Pace, Throttled
  <2>2. m_sample_rate = m_samples_per_tick * Mega
    BY <2>1 DEF AgreeOK
  <2>3. m_samples_per_tick > 0
    BY <2>1, <2>2, Numbers, MegaAssumption
  <2>4. /\ given <= m_total_samples
        /\ m_total_samples < m_samples_per_tick * (now - m_start) + m_samples_per_tick + MaxItems
    BY <2>1, <2>3 DEF CountOK, PacedOK, Assigning
  <2>5. since = m_start /\ m_samples_per_tick * (now - m_start) \in Int
    BY Numbers
  <2> DEFINE a == m_samples_per_tick * (now - m_start)
  <2>6. a \in Int /\ m_total_samples < a + m_samples_per_tick + MaxItems
    BY <2>4, <2>5
  <2> HIDE DEF a
  <2>7. given <= a + MaxItems + m_samples_per_tick
    BY <2>4, <2>6, Numbers
  <2> QED BY <2>5, <2>7 DEF a
<1> QED BY PaceInvariant, <1>1, PTL

-----------------------------------------------------------------------------
\* A sequence without elements.
LEMMA EmptyLine ==
  ASSUME NEW S, NEW l \in Seq(S)
  PROVE  l = <<>> <=> Len(l) = 0
  OBVIOUS

\* The radio takes the first mnemonic.
LEMMA LineTail ==
  ASSUME NEW l \in Seq(Mnemonics), l # <<>>, NEW name
  PROVE  /\ Head(l) \in Mnemonics /\ Tail(l) \in Seq(Mnemonics)
         /\ NoQuery(l) => NoQuery(Tail(l)) /\ ~IsQuery(Head(l))
         /\ NoChange(l) => NoChange(Tail(l)) /\ (Head(l).name \in {"SPR", "BWT"} => IsQuery(Head(l)))
         /\ Asks(l, name) /\ ~IsQuery(Head(l)) => Asks(Tail(l), name)
         /\ Asks(l, name) /\ IsQuery(Head(l)) => Head(l) = Query(name) /\ Tail(l) = <<>>
<1>1. /\ Len(Tail(l)) = Len(l) - 1 /\ Len(l) \in Nat /\ Len(l) >= 1
      /\ \A i \in 1 .. Len(l) - 1 : Tail(l)[i] = l[i + 1]
      /\ Head(l) = l[1] /\ Head(l) \in Mnemonics /\ Tail(l) \in Seq(Mnemonics)
  OBVIOUS
<1>2. NoQuery(l) => NoQuery(Tail(l)) /\ ~IsQuery(Head(l))
  BY <1>1 DEF NoQuery
<1>3. NoChange(l) => NoChange(Tail(l)) /\ (Head(l).name \in {"SPR", "BWT"} => IsQuery(Head(l)))
  BY <1>1 DEF NoChange
<1>4. Asks(l, name) /\ ~IsQuery(Head(l)) => Asks(Tail(l), name)
  <2> SUFFICES ASSUME Asks(l, name), ~IsQuery(Head(l)) PROVE Asks(Tail(l), name)
    OBVIOUS
  <2>1. l[Len(l)] = Query(name) /\ \A i \in 1 .. Len(l) - 1 : ~IsQuery(l[i])
    BY DEF Asks
  <2>2. IsQuery(Query(name))
    BY SentMnemonics
  <2>3. Len(l) # 1
    BY <1>1, <2>1, <2>2
  <2>4. Tail(l) # <<>> /\ Tail(l)[Len(l) - 1] = Query(name)
    <3>1. Len(l) - 1 \in 1 .. Len(l) - 1 /\ (Len(l) - 1) + 1 = Len(l)
      BY <1>1, <2>3
    <3>2. Tail(l)[Len(l) - 1] = l[(Len(l) - 1) + 1]
      BY <1>1, <3>1
    <3>3. Len(Tail(l)) # 0
      BY <1>1, <3>1
    <3>4. Tail(l) # <<>>
      BY <1>1, <3>3, EmptyLine
    <3> QED BY <2>1, <3>1, <3>2, <3>4
  <2>5. \A i \in 1 .. Len(Tail(l)) - 1 : ~IsQuery(Tail(l)[i])
    BY <1>1, <2>1
  <2> QED BY <1>1, <2>4, <2>5 DEF Asks
<1>5. Asks(l, name) /\ IsQuery(Head(l)) => Head(l) = Query(name) /\ Tail(l) = <<>>
  <2> SUFFICES ASSUME Asks(l, name), IsQuery(Head(l)) PROVE Head(l) = Query(name) /\ Tail(l) = <<>>
    OBVIOUS
  <2>1. l[Len(l)] = Query(name) /\ \A i \in 1 .. Len(l) - 1 : ~IsQuery(l[i])
    BY DEF Asks
  <2>2. Len(l) = 1
    BY <1>1, <2>1
  <2>3. Len(Tail(l)) = 0
    BY <1>1, <2>2
  <2>4. Tail(l) = <<>>
    BY <1>1, <2>3, EmptyLine
  <2> QED BY <1>1, <2>1, <2>2, <2>4
<1> QED BY <1>1, <1>2, <1>3, <1>4, <1>5

\* A mnemonic is sent where no query is open.
LEMMA LineAppend ==
  ASSUME NEW l \in Seq(Mnemonics), NEW m \in Mnemonics, NoQuery(l)
  PROVE  /\ ~IsQuery(m) => NoQuery(Append(l, m))
         /\ NoChange(l) /\ (m.name \in {"SPR", "BWT"} => IsQuery(m)) => NoChange(Append(l, m))
         /\ \A name : m = Query(name) => Asks(Append(l, m), name)
<1> DEFINE a == Append(l, m)
<1>1. /\ Len(a) = Len(l) + 1 /\ a[Len(l) + 1] = m /\ Len(l) \in Nat /\ a # <<>>
      /\ \A i \in 1 .. Len(l) : a[i] = l[i]
  OBVIOUS
<1> HIDE DEF a
<1>2. ~IsQuery(m) => NoQuery(a)
  BY <1>1 DEF NoQuery
<1>3. NoChange(l) /\ (m.name \in {"SPR", "BWT"} => IsQuery(m)) => NoChange(a)
  BY <1>1 DEF NoChange
<1>4. ASSUME NEW name, m = Query(name) PROVE Asks(a, name)
  <2>1. a # <<>> /\ a[Len(a)] = Query(name)
    BY <1>1, <1>4
  <2>2. \A i \in 1 .. Len(a) - 1 : ~IsQuery(a[i])
    BY <1>1 DEF NoQuery
  <2> QED BY <2>1, <2>2 DEF Asks
<1> QED BY <1>2, <1>3, <1>4 DEF a

\* A command is sent with its query, where none is open.
LEMMA LinePair ==
  ASSUME NEW l \in Seq(Mnemonics), NEW m1 \in Mnemonics, NEW m2 \in Mnemonics,
         NoQuery(l), ~IsQuery(m1), NEW name, m2 = Query(name)
  PROVE  /\ Asks(l \o <<m1, m2>>, name)
         /\ NoChange(l) /\ m1.name \notin {"SPR", "BWT"} => NoChange(l \o <<m1, m2>>)
<1> DEFINE a == Append(l, m1)
<1>1. a \in Seq(Mnemonics) /\ l \o <<m1, m2>> = Append(a, m2)
  OBVIOUS
<1>2. NoQuery(a) /\ (NoChange(l) /\ m1.name \notin {"SPR", "BWT"} => NoChange(a))
  BY LineAppend
<1>3. IsQuery(m2)
  BY SentMnemonics
<1> HIDE DEF a
<1>4. Asks(Append(a, m2), name) /\ (NoChange(a) => NoChange(Append(a, m2)))
  BY <1>1, <1>2, <1>3, LineAppend
<1> QED BY <1>1, <1>2, <1>4

\* A read that gets the whole answer gets the one to the open query, and leaves nothing.
LEMMA AnswerRead ==
  ASSUME NEW name, NEW u, Waiting(line, answers, name, u), NEW v, Receive(v), ~late'
  PROVE  v = u /\ answers' = <<>> /\ line = <<>>
<1>0. PICK n \in 1 .. Len(answers) :
        /\ v = Head(answers).value
        /\ answers' = SubSeq(answers, n + 1, Len(answers))
        /\ late' = (late \/ Head(answers).more)
  BY DEF Receive
<1>1. answers # <<>>
  BY <1>0
<1>2. line = <<>> /\ Answered(answers, u)
  BY <1>1 DEF Waiting
<1>3. CASE answers = <<[value |-> u, more |-> FALSE]>>
  <2>1. /\ Head(answers).value = u /\ Len(answers) = 1
        /\ answers \in Seq({[value |-> u, more |-> FALSE]})
    BY <1>3
  <2>2. n = 1
    BY <2>1
  <2>3. SubSeq(answers, 1 + 1, 1) = <<>>
    BY <2>1
  <2> QED BY <1>0, <1>2, <2>1, <2>2, <2>3
<1>4. CASE answers = <<[value |-> 0, more |-> TRUE], [value |-> u, more |-> FALSE]>>
  <2>1. Head(answers).more = TRUE
    BY <1>4
  <2> QED BY <1>0, <2>1
<1> QED BY <1>2, <1>3, <1>4 DEF Answered

\* The radio comes nearer to the query, or answers it with what it is set to.
LEMMA WaitingStep ==
  ASSUME Inv, Radio, NEW name, NEW u, NEW w, Waiting(line, answers, name, u),
         RadioAnswers => u = Answer(name) /\ w = u
  PROVE  Waiting(line', answers', name, w)
<1>0. line \in Seq(Mnemonics)
  BY DEF Inv
<1>1. CASE RadioAnswers
  <2>1. line # <<>> /\ IsQuery(Head(line)) /\ Reply(Answer(Head(line).name))
    BY <1>1 DEF RadioAnswers
  <2>2. answers = <<>> /\ Asks(line, name)
    BY <2>1 DEF Waiting
  <2>3. Head(line) = Query(name) /\ Tail(line) = <<>>
    BY <1>0, <2>1, <2>2, LineTail
  <2>4. Head(line).name = name
    BY <2>3 DEF Query, Cmd
  <2>5. Reply(w)
    BY <1>1, <2>1, <2>4
  <2>6. line' = <<>>
    BY <2>3, <2>5 DEF Reply
  <2>7. Answered(answers', w)
    BY <2>2, <2>5 DEF Reply, Answered
  <2> QED BY <2>6, <2>7 DEF Waiting
<1>2. CASE RadioObeys
  <2>1. line # <<>> /\ ~IsQuery(Head(line)) /\ line' = Tail(line) /\ UNCHANGED answers
    BY <1>2 DEF RadioObeys
  <2>2. answers = <<>> /\ Asks(line, name)
    BY <2>1 DEF Waiting
  <2>3. Asks(line', name)
    BY <1>0, <2>1, <2>2, LineTail
  <2> QED BY <2>1, <2>2, <2>3 DEF Waiting
<1> QED BY <1>1, <1>2 DEF Radio

\* A step after which no query is open.
LEMMA QuietSession ==
  ASSUME gpc' \notin Waits, answers' = <<>>, NoQuery(line'), NoChange(line')
  PROVE  SessionOK'
<1>1. gpc' # "help" /\ gpc' # "power" /\ gpc' # "bandwidth" /\ gpc' # "bandwidth_help"
      /\ gpc' \notin {"rate", "rate_again"} /\ gpc' # "rate_help"
  BY DEF Waits
<1>2. NoQuery(line)' /\ NoChange(line)' /\ (answers = <<>>)'
  OBVIOUS
<1> QED BY <1>1, <1>2 DEF SessionOK

\* A line that is empty asks and changes nothing.
LEMMA EmptyQuiet == NoQuery(<<>>) /\ NoChange(<<>>)
  BY DEF NoQuery, NoChange

\* Nothing has been sent before the constructor.
LEMMA SessionInit == Init => SessionInv
<1> SUFFICES ASSUME Init PROVE SessionInv
  OBVIOUS
<1>1. line = <<>> /\ answers = <<>> /\ gpc = "construct" /\ m_samples_per_tick = 0
  BY DEF Init, ClientInit
<1>2. SessionOK
  BY <1>1, EmptyQuiet DEF SessionOK, Waits
<1>3. KnownOK
  BY <1>1, RatesAssumption DEF KnownOK, Resetting
<1> QED BY <1>2, <1>3 DEF SessionInv

\* Steps of the radio: it answers the open query, and changes its rate only for a
\* setter that is going to read it.
LEMMA SessionRadio ==
  ASSUME Inv, SessionOK, KnownOK, Radio
  PROVE  SessionOK' /\ KnownOK'
<1>0. line \in Seq(Mnemonics) /\ RadioOK
  BY DEF Inv
<1>1. UNCHANGED <<gpc, m_sample_rate, m_samples_per_tick>>
  BY DEF Radio
<1>2. line # <<>> /\ line' = Tail(line)
  BY DEF Radio, RadioAnswers, RadioObeys, Reply
<1>3. /\ NoQuery(line) => NoQuery(line') /\ ~IsQuery(Head(line))
      /\ NoChange(line) => NoChange(line') /\ (Head(line).name \in {"SPR", "BWT"} => IsQuery(Head(line)))
  BY <1>0, <1>2, LineTail
<1>4. gpc \notin Waits => answers' = <<>>
  <2>1. ASSUME gpc \notin Waits PROVE answers' = <<>>
    <3>1. answers = <<>> /\ ~IsQuery(Head(line))
      BY <1>3, <2>1 DEF SessionOK
    <3>2. RadioObeys
      BY <3>1 DEF Radio, RadioAnswers
    <3> QED BY <3>1, <3>2 DEF RadioObeys
  <2> QED BY <2>1
<1>5. \A name \in {"HLP", "TXP", "help_BWT", "help_SPR"} :
        Waiting(line, answers, name, 0) => Waiting(line', answers', name, 0)
  <2>1. \A name \in {"HLP", "TXP", "help_BWT", "help_SPR"} : Answer(name) = 0
    BY DEF Answer
  <2> QED BY <2>1, WaitingStep
<1>6. Waiting(line, answers, "BWT", radio.bw) => Waiting(line', answers', "BWT", radio'.bw)
  <2>1. Answer("BWT") = radio.bw /\ (RadioAnswers => radio'.bw = radio.bw)
    BY DEF Answer, RadioAnswers
  <2> QED BY <2>1, WaitingStep
<1>7. Waiting(line, answers, "SPR", radio.rate) => Waiting(line', answers', "SPR", radio'.rate)
  <2>1. Answer("SPR") = radio.rate /\ (RadioAnswers => radio'.rate = radio.rate)
    BY DEF Answer, RadioAnswers
  <2> QED BY <2>1, WaitingStep
<1>8. SessionOK'
  <2>1. /\ gpc' = "help" => Waiting(line', answers', "HLP", 0)
        /\ gpc' = "power" => Waiting(line', answers', "TXP", 0)
        /\ gpc' = "bandwidth" => Waiting(line', answers', "BWT", radio'.bw)
        /\ gpc' = "bandwidth_help" => Waiting(line', answers', "help_BWT", 0)
        /\ gpc' \in {"rate", "rate_again"} => Waiting(line', answers', "SPR", radio'.rate)
        /\ gpc' = "rate_help" => Waiting(line', answers', "help_SPR", 0)
    BY <1>1, <1>5, <1>6, <1>7 DEF SessionOK
  <2>2. gpc' \notin Waits => answers' = <<>> /\ NoQuery(line')
    BY <1>1, <1>3, <1>4 DEF SessionOK
  <2>3. gpc' \notin {"rate", "rate_again", "bandwidth"} => NoChange(line')
    BY <1>1, <1>3 DEF SessionOK
  <2> QED BY <2>1, <2>2, <2>3 DEF SessionOK
<1>9. NoChange(line) => UNCHANGED radio
  <2> SUFFICES ASSUME NoChange(line) PROVE radio' = radio
    OBVIOUS
  <2>1. CASE RadioAnswers
    BY <2>1 DEF RadioAnswers
  <2>2. CASE RadioObeys
    <3>1. ~IsQuery(Head(line))
      BY <2>2 DEF RadioObeys
    <3>2. Head(line).name # "SPR" /\ Head(line).name # "BWT"
      BY <1>3, <3>1
    <3> QED BY <2>2, <3>2 DEF RadioObeys
  <2> QED BY <2>1, <2>2 DEF Radio
<1>10. KnownOK'
  <2>1. gpc \in Settled \cup {"scale"} \cup Resetting => UNCHANGED radio
    BY <1>9 DEF SessionOK, Settled, Resetting
  <2>2. gpc = "rate_again" =>
          \/ line' = <<Cmd("SPR", 0), Query("SPR")>>
          \/ NoChange(line') /\ radio'.rate <= MAX_SR_MHZ
    <3>1. CASE NoChange(line) /\ radio.rate <= MAX_SR_MHZ
      BY <1>3, <1>9, <3>1
    <3>2. CASE line = <<Cmd("SPR", 0), Query("SPR")>>
      <4>1. Head(line) = Cmd("SPR", 0) /\ line' = <<Query("SPR")>>
        BY <1>2, <3>2
      <4>2. ~IsQuery(Head(line)) /\ Head(line).name = "SPR" /\ Head(line).value = 0
        BY <4>1 DEF Cmd, IsQuery
      <4>3. RadioObeys
        BY <4>2 DEF Radio, RadioAnswers
      <4>4. PICK r \in Available[radio.bw] :
              (\A q \in Available[radio.bw] : r <= q) /\ radio' = [radio EXCEPT !.rate = r]
        BY <4>2, <4>3 DEF RadioObeys
      <4>5. radio.bw \in Bandwidths
        BY <1>0 DEF RadioOK
      <4>6. PICK q \in Available[radio.bw] : q <= MAX_SR_MHZ
        BY <4>5, RatesAssumption
      <4>7. r \in Nat /\ q \in Nat /\ r <= q /\ MAX_SR_MHZ \in Nat
        BY <4>4, <4>5, <4>6, ValuesFacts, RatesAssumption
      <4>8. radio'.rate = r
        BY <1>0, <4>4 DEF RadioOK
      <4>9. NoChange(line')
        BY <4>1, SentMnemonics DEF NoChange
      <4> QED BY <4>6, <4>7, <4>8, <4>9
    <3> QED BY <3>1, <3>2 DEF KnownOK
  <2>3. /\ gpc' \in Settled => m_samples_per_tick' = 0 \/ m_samples_per_tick' = radio'.rate
        /\ gpc' \notin Assigning => m_samples_per_tick' <= MAX_SR_MHZ
    BY <1>1, <2>1 DEF KnownOK
  <2>4. /\ gpc' = "scale" => m_sample_rate' = radio'.rate /\ radio'.rate <= MAX_SR_MHZ
        /\ gpc' \in Resetting => m_sample_rate' = radio'.rate * Mega /\ radio'.rate <= MAX_SR_MHZ
        /\ gpc' = "per_us" => m_samples_per_tick' = radio'.rate
    BY <1>1, <2>1 DEF KnownOK, Resetting
  <2> QED BY <1>1, <2>2, <2>3, <2>4 DEF KnownOK
<1> QED BY <1>8, <1>10

\* A step that leaves the session alone.
LEMMA SessionStays ==
  ASSUME SessionOK, UNCHANGED <<line, answers, gpc, radio>>
  PROVE  SessionOK'
  BY DEF SessionOK

\* Steps of the block: start computes the rate that set_sample_rate did.
LEMMA SessionBlock ==
  ASSUME Inv, AgreeOK, SessionOK, KnownOK, Block, ~late
  PROVE  SessionOK' /\ KnownOK'
<1>1. UNCHANGED <<line, answers, gpc, radio>>
  BY BlockSteps DEF BlockStep
<1>2. SessionOK'
  BY <1>1, SessionStays
<1>3. CASE start
  <2>1. UNCHANGED m_sample_rate /\ m_samples_per_tick' = m_sample_rate \div Mega
    BY <1>3 DEF start
  <2>2. (m_samples_per_tick * Mega) \div Mega = m_samples_per_tick
    BY Numbers, DivExact, MegaAssumption
  <2>3. gpc = "per_us" \/ gpc \notin Assigning => UNCHANGED m_samples_per_tick
    BY <2>1, <2>2 DEF AgreeOK
  <2>4. gpc \in Settled => gpc \notin Assigning
    BY DEF Settled, Assigning
  <2>5. KnownOK'
    BY <1>1, <2>1, <2>3, <2>4 DEF KnownOK
  <2> QED BY <1>2, <2>5
<1>4. CASE ~start
  <2>1. UNCHANGED <<m_sample_rate, m_samples_per_tick>>
    BY <1>4 DEF Block, work, ThrottleOn, Expect, Compare, Wake, LoadTotal, StoreTotal,
         SendData,
       StopFlowgraph
  <2>2. KnownOK'
    BY <1>1, <2>1 DEF KnownOK
  <2> QED BY <1>2, <2>2
<1> QED BY <1>3, <1>4

\* A step that asks something and changes nothing.
LEMMA AskingSession ==
  ASSUME answers' = <<>>,
         \/ gpc' = "help" /\ Asks(line', "HLP")
         \/ gpc' = "power" /\ Asks(line', "TXP")
         \/ gpc' = "bandwidth_help" /\ Asks(line', "help_BWT")
         \/ gpc' = "rate_help" /\ Asks(line', "help_SPR"),
         NoChange(line')
  PROVE  SessionOK'
<1>1. \A name, v : Asks(line', name) => Waiting(line', answers', name, v)
  BY DEF Waiting
<1> QED BY <1>1 DEF SessionOK, Waits

\* A step that changes the rate or the bandwidth and asks for it.
LEMMA ChangingSession ==
  ASSUME answers' = <<>>,
         \/ gpc' = "bandwidth" /\ Asks(line', "BWT")
         \/ gpc' \in {"rate", "rate_again"} /\ Asks(line', "SPR")
  PROVE  SessionOK'
<1>1. \A name, v : Asks(line', name) => Waiting(line', answers', name, v)
  BY DEF Waiting
<1> QED BY <1>1 DEF SessionOK, Waits

\* A step that leaves the rates alone.
LEMMA KnownStays ==
  ASSUME KnownOK, UNCHANGED <<radio, m_samples_per_tick>>, gpc \notin Assigning, gpc' \notin Assigning,
         gpc' \in Settled => gpc \in Settled
  PROVE  KnownOK'
<1>1. gpc' # "rate_again" /\ gpc' # "scale" /\ gpc' \notin Resetting /\ gpc' # "per_us"
  BY DEF Assigning, Resetting
<1> QED BY <1>1 DEF KnownOK

\* Every step of the setters.  set_bandwidth sets the rate again because the rate it
\* has is one it accepts.
LEMMA SessionGui ==
  ASSUME Inv, AgreeOK, SessionOK, KnownOK, Gui, ~late, ~late'
  PROVE  SessionOK' /\ KnownOK'
<1>0. line \in Seq(Mnemonics) /\ UNCHANGED radio /\ RadioOK
  BY GuiSteps DEF GuiStep, Inv
<1>1. /\ Cmd("FRQ", 0) \in Mnemonics /\ Cmd("ISM", 0) \in Mnemonics /\ Cmd("TXP", 0) \in Mnemonics
      /\ \A v \in Nat : Cmd("SPR", v) \in Mnemonics /\ ~IsQuery(Cmd("SPR", v))
      /\ ~IsQuery(Cmd("FRQ", 0)) /\ ~IsQuery(Cmd("ISM", 0)) /\ ~IsQuery(Cmd("TXP", 0))
  BY SentMnemonics
<1>2. /\ Query("TXP") \in Mnemonics /\ Query("SPR") \in Mnemonics /\ Query("BWT") \in Mnemonics
      /\ Query("help_BWT") \in Mnemonics /\ Query("help_SPR") \in Mnemonics
  BY SentMnemonics
<1>3. gpc \in {"idle", "resample", "construct"} \cup Resetting \cup {"scale"} =>
        answers = <<>> /\ NoQuery(line) /\ NoChange(line)
  BY DEF SessionOK, Waits, Resetting
<1>4. CASE Construct
  <2>1. gpc = "construct" /\ UNCHANGED <<answers, throttle>>
    BY <1>4 DEF Construct
  <2>2. answers' = <<>> /\ NoQuery(line) /\ NoChange(line)
    BY <1>3, <2>1
  <2> DEFINE m1 == Cmd("RCH", 3)
             m2 == Cmd("SIP", 0)
             m3 == Cmd("ISM", 1)
             m4 == Query("HLP")
  <2>3. /\ ~IsQuery(m1) /\ ~IsQuery(m2) /\ ~IsQuery(m3) /\ IsQuery(m4)
        /\ m1.name = "RCH" /\ m2.name = "SIP" /\ m3.name = "ISM" /\ m4.name = "HLP"
    BY DEF IsQuery, Cmd, Query
  <2>4. \/ gpc' = "idle" /\ line' = line
        \/ gpc' = "help" /\ line' = <<m1, m2, m3, m4>>
        \/ gpc' = "idle" /\ line' = <<m1, m2, m3>>
    BY <1>4 DEF Construct
  <2>5. KnownOK'
    BY <1>0, <2>1, <2>4, KnownStays DEF Assigning, Settled
  <2>6. CASE gpc' = "idle" /\ line' = line
    BY <2>2, <2>5, <2>6, QuietSession DEF Waits
  <2>7. CASE gpc' = "help" /\ line' = <<m1, m2, m3, m4>>
    <3> HIDE DEF m1, m2, m3, m4
    <3>1. /\ Len(line') = 4 /\ line'[1] = m1 /\ line'[2] = m2 /\ line'[3] = m3 /\ line'[4] = m4
          /\ line' # <<>>
      BY <2>7
    <3>2. Asks(line', "HLP")
      BY <2>3, <3>1 DEF Asks, m4
    <3>3. NoChange(line')
      BY <2>3, <3>1 DEF NoChange
    <3> QED BY <2>2, <2>5, <2>7, <3>2, <3>3, AskingSession
  <2>8. CASE gpc' = "idle" /\ line' = <<m1, m2, m3>>
    <3> HIDE DEF m1, m2, m3
    <3>1. /\ Len(line') = 3 /\ line'[1] = m1 /\ line'[2] = m2 /\ line'[3] = m3
      BY <2>8
    <3>2. NoQuery(line') /\ NoChange(line')
      BY <2>3, <3>1 DEF NoQuery, NoChange
    <3> QED BY <2>2, <2>5, <2>8, <3>2, QuietSession DEF Waits
  <2> QED BY <2>4, <2>6, <2>7, <2>8
<1>5. CASE set_frequency \/ Destroy
  <2>1. /\ gpc = "idle" /\ gpc' \in {"idle", "destroyed"} /\ UNCHANGED <<answers, throttle>>
        /\ line' = Append(line, Cmd("FRQ", 0)) \/ line' = Append(line, Cmd("ISM", 0))
    BY <1>5 DEF set_frequency, Destroy, Setter
  <2>2. answers' = <<>> /\ NoQuery(line) /\ NoChange(line)
    BY <1>3, <2>1
  <2>3. Cmd("FRQ", 0).name = "FRQ" /\ Cmd("ISM", 0).name = "ISM"
    BY DEF Cmd
  <2>4. NoQuery(line') /\ NoChange(line')
    BY <1>0, <1>1, <2>1, <2>2, <2>3, LineAppend
  <2>5. KnownOK'
    BY <1>0, <2>1, KnownStays DEF Assigning, Settled
  <2> QED BY <2>1, <2>2, <2>4, <2>5, QuietSession DEF Waits
<1>6. CASE set_power
  <2>1. /\ gpc = "idle" /\ gpc' = "power" /\ UNCHANGED <<answers, throttle>>
        /\ line' = line \o <<Cmd("TXP", 0), Query("TXP")>>
    BY <1>6 DEF set_power, Setter
  <2>2. answers' = <<>> /\ NoQuery(line) /\ NoChange(line)
    BY <1>3, <2>1
  <2>3. Cmd("TXP", 0).name = "TXP"
    BY DEF Cmd
  <2>4. Asks(line', "TXP") /\ NoChange(line')
    BY <1>0, <1>1, <1>2, <2>1, <2>2, <2>3, LinePair
  <2>5. KnownOK'
    BY <1>0, <2>1, KnownStays DEF Assigning, Settled
  <2> QED BY <2>1, <2>2, <2>4, <2>5, AskingSession
<1>7. ASSUME NEW sr \in Requested, set_sample_rate(sr) PROVE SessionOK' /\ KnownOK'
  <2>1. /\ gpc = "idle" /\ gpc' = "rate" /\ UNCHANGED <<answers, throttle>>
        /\ line' = line \o <<Cmd("SPR", sr), Query("SPR")>>
    BY <1>7 DEF set_sample_rate, Setter
  <2>2. answers' = <<>> /\ NoQuery(line)
    BY <1>3, <2>1
  <2>3. sr \in Nat
    BY RatesAssumption
  <2>4. Asks(line', "SPR")
    BY <1>0, <1>1, <1>2, <2>1, <2>2, <2>3, LinePair
  <2>5. KnownOK'
    BY <1>0, <2>1, KnownStays DEF Assigning, Settled
  <2> QED BY <2>1, <2>2, <2>4, <2>5, ChangingSession
<1>8. ASSUME NEW bw \in Bandwidths, set_bandwidth(bw) PROVE SessionOK' /\ KnownOK'
  <2>1. /\ gpc = "idle" /\ gpc' = "bandwidth" /\ UNCHANGED <<answers, throttle>>
        /\ line' = line \o <<Cmd("BWT", bw), Query("BWT")>>
    BY <1>8 DEF set_bandwidth, Setter
  <2>2. answers' = <<>> /\ NoQuery(line)
    BY <1>3, <2>1
  <2>3. Cmd("BWT", bw) \in Mnemonics /\ ~IsQuery(Cmd("BWT", bw))
    BY SentMnemonics, RatesAssumption
  <2>4. Asks(line', "BWT")
    BY <1>0, <1>2, <2>1, <2>2, <2>3, LinePair
  <2>5. KnownOK'
    BY <1>0, <2>1, KnownStays DEF Assigning, Settled
  <2> QED BY <2>1, <2>2, <2>4, <2>5, ChangingSession
<1>9. CASE \/ Ignore("help", "idle") \/ Ignore("power", "idle") \/ Ignore("rate_help", "idle")
           \/ Ignore("bandwidth_help", "resample")
  <2>1. /\ UNCHANGED <<line, throttle>> /\ \E v \in Values : Receive(v)
        /\ \/ gpc \in {"help", "power", "rate_help"} /\ gpc' = "idle"
           \/ gpc = "bandwidth_help" /\ gpc' = "resample"
    BY <1>9 DEF Ignore
  <2>2. \E name : Waiting(line, answers, name, 0)
    BY <2>1 DEF SessionOK
  <2>3. line = <<>> /\ answers' = <<>>
    BY <2>1, <2>2, AnswerRead
  <2>4. NoQuery(line') /\ NoChange(line')
    BY <2>1, <2>3, EmptyQuiet
  <2>5. KnownOK'
    BY <1>0, <2>1, KnownStays DEF Assigning, Settled
  <2> QED BY <2>1, <2>3, <2>4, <2>5, QuietSession DEF Waits
<1>10. CASE BandwidthAnswered
  <2>1. /\ gpc = "bandwidth" /\ UNCHANGED throttle /\ \E v \in Values : Receive(v)
        /\ \/ gpc' = "resample" /\ line' = line
           \/ gpc' = "bandwidth_help" /\ line' = Append(line, Query("help_BWT"))
    BY <1>10 DEF BandwidthAnswered
  <2>2. Waiting(line, answers, "BWT", radio.bw)
    BY <2>1 DEF SessionOK
  <2>3. line = <<>> /\ answers' = <<>>
    BY <2>1, <2>2, AnswerRead
  <2>4. NoQuery(line) /\ NoChange(line)
    BY <2>3, EmptyQuiet
  <2>5. KnownOK'
    BY <1>0, <2>1, KnownStays DEF Assigning, Settled
  <2>6. CASE gpc' = "resample" /\ line' = line
    BY <2>3, <2>4, <2>5, <2>6, QuietSession DEF Waits
  <2>7. CASE gpc' = "bandwidth_help" /\ line' = Append(line, Query("help_BWT"))
    <3>1. IsQuery(Query("help_BWT"))
      BY SentMnemonics
    <3>2. Asks(line', "help_BWT") /\ NoChange(line')
      BY <1>0, <1>2, <2>4, <2>7, <3>1, LineAppend
    <3> QED BY <2>3, <2>5, <2>7, <3>2, AskingSession
  <2> QED BY <2>1, <2>6, <2>7
<1>11. CASE Resample
  <2>1. gpc = "resample" /\ UNCHANGED <<answers, throttle>>
    BY <1>11 DEF Resample
  <2>2. answers' = <<>> /\ NoQuery(line) /\ NoChange(line)
    BY <1>3, <2>1
  <2>3. m_sample_rate = m_samples_per_tick * Mega /\ m_samples_per_tick <= MAX_SR_MHZ
    BY <2>1 DEF AgreeOK, KnownOK, Assigning
  <2>4. m_sample_rate \div Mega = m_samples_per_tick
    BY <2>3, Numbers, DivExact, MegaAssumption
  <2>5. CASE m_sample_rate > 0
    <3>1. gpc' = "rate" /\ line' = line \o <<Cmd("SPR", m_samples_per_tick), Query("SPR")>>
      BY <1>11, <2>3, <2>4, <2>5 DEF Resample
    <3>2. Asks(line', "SPR")
      BY <1>0, <1>1, <1>2, <2>2, <3>1, Numbers, LinePair
    <3>3. KnownOK'
      BY <1>0, <2>1, <3>1, KnownStays DEF Assigning, Settled
    <3> QED BY <2>2, <3>1, <3>2, <3>3, ChangingSession
  <2>6. CASE ~(m_sample_rate > 0)
    <3>1. gpc' = "idle" /\ line' = line
      BY <1>11, <2>6 DEF Resample
    <3>2. m_samples_per_tick = 0
      BY <2>3, <2>6, Numbers, MegaAssumption
    <3>3. KnownOK'
      BY <2>1, <2>3, <3>1, <3>2 DEF KnownOK, Settled, Resetting
    <3> QED BY <2>2, <3>1, <3>3, QuietSession DEF Waits
  <2> QED BY <2>5, <2>6
<1>12. CASE RateAnswered
  <2>1. PICK v \in Values :
          /\ Receive(v) /\ m_sample_rate' = v
          /\ \/ /\ gpc = "rate" /\ v > MAX_SR_MHZ
                /\ line' = line \o <<Cmd("SPR", 0), Query("SPR")>> /\ gpc' = "rate_again"
             \/ (gpc = "rate_again" \/ v <= MAX_SR_MHZ) /\ UNCHANGED line /\ gpc' = "scale"
    BY <1>12 DEF RateAnswered
  <2>2. gpc \in {"rate", "rate_again"} /\ UNCHANGED m_samples_per_tick
    BY <1>12 DEF RateAnswered
  <2>3. Waiting(line, answers, "SPR", radio.rate)
    BY <2>2 DEF SessionOK
  <2>4. v = radio.rate /\ line = <<>> /\ answers' = <<>>
    BY <2>1, <2>3, AnswerRead
  <2>5. NoQuery(line) /\ NoChange(line)
    BY <2>4, EmptyQuiet
  <2>6. CASE line' = line \o <<Cmd("SPR", 0), Query("SPR")>> /\ gpc' = "rate_again"
    <3>1. Asks(line', "SPR")
      BY <1>0, <1>1, <1>2, <2>5, <2>6, LinePair
    <3>2. line' = <<Cmd("SPR", 0), Query("SPR")>>
      BY <2>4, <2>6
    <3>3. KnownOK'
      BY <2>6, <3>2 DEF KnownOK, Settled, Assigning, Resetting
    <3> QED BY <2>4, <2>6, <3>1, <3>3, ChangingSession
  <2>7. CASE (gpc = "rate_again" \/ v <= MAX_SR_MHZ) /\ UNCHANGED line /\ gpc' = "scale"
    <3>1. line # <<Cmd("SPR", 0), Query("SPR")>>
      BY <2>4
    <3>2. radio.rate <= MAX_SR_MHZ
      BY <2>4, <2>7, <3>1 DEF KnownOK
    <3>3. KnownOK'
      BY <1>0, <2>1, <2>4, <2>7, <3>2 DEF KnownOK, Settled, Assigning, Resetting
    <3> QED BY <2>4, <2>5, <2>7, <3>3, QuietSession DEF Waits
  <2> QED BY <2>1, <2>6, <2>7
<1>13. CASE ScaleRate \/ ResetStart \/ ResetTotal \/ SetPerTick
  <2>1. /\ UNCHANGED <<line, answers>> /\ gpc \in Resetting \cup {"scale"} /\ gpc' \in Resetting
    BY <1>13 DEF ScaleRate, ResetStart, ResetTotal, SetPerTick, Resetting
  <2>2. SessionOK'
    BY <1>3, <2>1, QuietSession DEF Waits, Resetting
  <2>3. m_sample_rate' = radio.rate * Mega /\ radio.rate <= MAX_SR_MHZ
    BY <1>13 DEF ScaleRate, ResetStart, ResetTotal, SetPerTick, KnownOK, Resetting
  <2>4. gpc' = "per_us" => m_samples_per_tick' = radio.rate
    <3>1. ASSUME gpc' = "per_us" PROVE m_samples_per_tick' = radio.rate
      <4>1. m_samples_per_tick' = m_sample_rate \div Mega /\ m_sample_rate = radio.rate * Mega
        BY <1>13, <3>1 DEF ScaleRate, ResetStart, ResetTotal, SetPerTick, KnownOK,
             Resetting
      <4>2. (radio.rate * Mega) \div Mega = radio.rate
        BY <1>0, DivExact, MegaAssumption DEF RadioOK
      <4> QED BY <4>1, <4>2
    <3> QED BY <3>1
  <2>5. gpc' \notin Settled /\ gpc' \in Assigning /\ gpc' # "rate_again" /\ gpc' # "scale"
    BY <2>1 DEF Resetting, Settled, Assigning
  <2>6. KnownOK'
    BY <1>0, <2>3, <2>4, <2>5 DEF KnownOK
  <2> QED BY <2>2, <2>6
<1>14. CASE SetPerUs
  <2>1. /\ gpc = "per_us" /\ UNCHANGED <<answers, m_samples_per_tick>>
        /\ \/ gpc' = "idle" /\ line' = line
           \/ gpc' = "rate_help" /\ line' = Append(line, Query("help_SPR"))
    BY <1>14 DEF SetPerUs
  <2>2. answers' = <<>> /\ NoQuery(line) /\ NoChange(line)
    BY <1>3, <2>1 DEF Resetting
  <2>3. m_samples_per_tick = radio.rate /\ radio.rate <= MAX_SR_MHZ
    BY <2>1 DEF KnownOK, Resetting
  <2>4. KnownOK'
    BY <1>0, <2>1, <2>3 DEF KnownOK, Settled, Assigning, Resetting
  <2>5. CASE gpc' = "idle" /\ line' = line
    BY <2>2, <2>4, <2>5, QuietSession DEF Waits
  <2>6. CASE gpc' = "rate_help" /\ line' = Append(line, Query("help_SPR"))
    <3>1. IsQuery(Query("help_SPR"))
      BY SentMnemonics
    <3>2. Asks(line', "help_SPR") /\ NoChange(line')
      BY <1>0, <1>2, <2>2, <2>6, <3>1, LineAppend
    <3> QED BY <2>2, <2>4, <2>6, <3>2, AskingSession
  <2> QED BY <2>1, <2>5, <2>6
<1>15. ~Throw
  BY DEF Throw, ReceiveThrows
<1> QED BY <1>4, <1>5, <1>6, <1>7, <1>8, <1>9, <1>10, <1>11, <1>12, <1>13, <1>14,
     <1>15 DEF Gui

\* Every step keeps the invariant of the session.
LEMMA SessionNext == Inv /\ PaceInv /\ SessionInv /\ [Next]_vars => SessionInv'
<1> SUFFICES ASSUME Inv, PaceInv, SessionInv, [Next]_vars, ~late' PROVE SessionOK' /\ KnownOK'
  BY DEF SessionInv
<1>1. ~late /\ AgreeOK /\ SessionOK /\ KnownOK
  BY LateNext DEF SessionInv, PaceInv
<1>2. CASE Tick \/ UNCHANGED vars
  <2>1. UNCHANGED <<line, answers, gpc, radio, m_sample_rate, m_samples_per_tick>>
    BY <1>2 DEF Tick, vars
  <2>2. KnownOK'
    BY <1>1, <2>1 DEF KnownOK
  <2> QED BY <1>1, <2>1, <2>2, SessionStays
<1> QED BY <1>1, <1>2, SessionRadio, SessionBlock, SessionGui DEF Next

\* RateKnown holds of every behaviour: between setters, whose every answer came in time,
\* no query is open and the block throttles to the rate of the radio.
THEOREM RateIsKnown == Spec => []RateKnown
<1>1. Inv /\ PaceInv /\ SessionInv => RateKnown
  <2> SUFFICES ASSUME Inv, PaceInv, SessionInv, gpc = "idle", ~late
               PROVE  /\ answers = <<>> /\ \A i \in DOMAIN line : ~IsQuery(line[i])
                      /\ m_sample_rate > 0 =>
                           /\ m_sample_rate = radio.rate * Mega
                           /\ m_samples_per_tick = radio.rate /\ m_samples_per_us = radio.rate
    BY DEF RateKnown
  <2>1. AgreeOK /\ SessionOK /\ KnownOK /\ line \in Seq(Mnemonics)
    BY DEF PaceInv, SessionInv, Inv
  <2>2. answers = <<>> /\ NoQuery(line)
    BY <2>1 DEF SessionOK, Waits
  <2>3. \A i \in DOMAIN line : ~IsQuery(line[i])
    BY <2>1, <2>2 DEF NoQuery
  <2>4. m_sample_rate = m_samples_per_tick * Mega /\ m_samples_per_us = m_samples_per_tick
    BY <2>1 DEF AgreeOK, Assigning
  <2>5. m_samples_per_tick = 0 \/ m_samples_per_tick = radio.rate
    BY <2>1 DEF KnownOK, Settled
  <2>6. m_samples_per_tick = 0 => m_sample_rate = 0
    BY <2>4, MegaAssumption
  <2> QED BY <2>2, <2>3, <2>4, <2>5, <2>6
<1>2. (Inv /\ PaceInv /\ SessionInv) /\ [Next]_vars => (Inv /\ PaceInv /\ SessionInv)'
  BY PaceNext, SessionNext, ConnectionNext, RadioNext, SampleRateNext, ThrottleNext,
       LineNext DEF Inv
<1> QED BY InitInv, PaceInit, SessionInit, <1>1, <1>2, PTL DEF Spec
=============================================================================
