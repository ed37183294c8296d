---------------------------- MODULE PicoSrcProofs ----------------------------
(***************************************************************************)
(* Proofs about PicoSrc, for every set of rates and channels asked for,    *)
(* every limit of the rate and every bound on starts, calls and mnemonics. *)
(*                                                                         *)
(* Inv is inductive by itself: types, where the two threads can be, and    *)
(* who has which manager.  Three more rest on it and not on each other:    *)
(* StreamInv, what the mnemonics on their way will make of the stream;     *)
(* SessionInv, which query is open, as long as no answer came late; and    *)
(* TunerInv, how far the channel has got on its way to the manager, as     *)
(* long as no two calls of update_tuners overlapped.                       *)
(***************************************************************************)
EXTENDS PicoSrc, TLAPS

\* The mnemonics this block sends.
Mnemonics ==
  {m \in [name : {"SIP", "END", "setting", "RCH", "VID", "OPM", "SPR"}, value : Int] :
     /\ m.name = "OPM" => m.value \in {0, 1}
     /\ m.name = "SPR" => m.value \in {-1} \cup (MIN_SR_MHZ .. MAX_SR_MHZ)}

\* Where the thread of the block is between making a manager and running, and
\* where the two threads can be.
Starting == {"reset", "delete"} \cup Updating \cup {"stream"}

BlockPcs == {"stopped", "running", "stopping"} \cup Starting
GuiPcs == {"idle", "stream_id", "manager?"} \cup Updating \cup ChangingRate

\* How the pointer, the two threads and the session go together: the manager
\* made last is the one pointed to, but for the moment before reset(); the GUI
\* holds one that was published; without a session there is none.
ControlOK ==
  /\ bpc \in BlockPcs /\ gpc \in GuiPcs
  /\ made \in 0 .. MaxStarts
  /\ crashed \in BOOLEAN /\ overlap \in BOOLEAN /\ raced \in BOOLEAN
  /\ unheard \in BOOLEAN /\ asked \in BOOLEAN /\ late \in BOOLEAN
  /\ m_complex_manager = IF bpc = "reset" THEN made - 1 ELSE made
  /\ bpc \in Starting \/ (bpc # "stopped" /\ m_connected) => made >= 1
  /\ gpc \in Updating => using \in 1 .. m_complex_manager
  /\ gpc \notin Updating => using = 0
  /\ want \in Nat
  /\ ~m_connected => made = 0 /\ gpc \notin ChangingRate

\* Only managers of earlier starts are deleted, and those two starts back when
\* the last one is about to go.
FreedOK ==
  \A n \in Managers :
    managers[n].freed => n < made /\ (bpc \in {"reset", "delete"} => n < made - 1)

\* A manager that was not made has no socket; in the first start nothing has
\* gone wrong.
SocketsOK ==
  /\ \A n \in Managers : n > made => managers[n].socket = "none"
  /\ made <= 1 => ~crashed /\ \A n \in Managers : managers[n].socket # "failed"

\* The parts of the type invariant: the radio, the managers, the channel.
RadioOK == radio \in [on : BOOLEAN, rate : MIN_SR_MHZ .. MAX_SR_MHZ]

ManagerStates ==
  [run : BOOLEAN, socket : {"none", "bound", "failed", "closed"},
   freed : BOOLEAN, m_update_valid_streams : BOOLEAN,
   tuner_valid_safe : BOOLEAN, tuner_valid : BOOLEAN, serving : BOOLEAN]

ManagersOK == managers \in [Managers -> ManagerStates]

ChannelOK == m_connected \in BOOLEAN /\ m_active_channels \in {-1} \cup Values

\* The inductive invariant.
Inv ==
  /\ ManagersOK /\ ChannelOK /\ ControlOK /\ FreedOK /\ SocketsOK /\ RadioOK
  /\ line \in Seq(Mnemonics)

\* Once the first n mnemonics of l are carried out the stream is b, of a radio
\* that has it on or not: the last of them that switches it says so.
After(l, n, on, b) ==
  \/ (on <=> b) /\ \A i \in 1 .. n : l[i].name # "OPM"
  \/ \E i \in 1 .. n :
       /\ l[i].name = "OPM" /\ (l[i].value = 1 <=> b)
       /\ \A j \in i + 1 .. n : l[j].name # "OPM"

\* The stream when all mnemonics on their way are carried out.
WillBe(b) == After(line, Len(line), radio.on, b)

\* A running block is going to have its stream, but in the middle of a change of
\* rate.
RunningOK ==
  bpc = "running" /\ m_connected /\ ~late /\ gpc \notin ChangingRate => WillBe(TRUE)

\* A stopped one is not, and a block without a session never.
StoppedOK ==
  /\ bpc \in {"stopped", "stopping"} /\ ~unheard => WillBe(FALSE)
  /\ ~m_connected => WillBe(FALSE)

\* A mnemonic that sets the rate.
IsRate(m) == m.name = "SPR" /\ ~IsQuery(m)

\* Every rate in l is set where the stream is off by then.
RatesQuiet(l, on) ==
  \A i \in 1 .. Len(l) : IsRate(l[i]) => After(l, i - 1, on, FALSE)

\* Every rate on its way is, as long as start did not switch the stream on in
\* between, and the rate that set_sample_rate is about to send.
RatesOK ==
  ~raced => (gpc = "rate" => WillBe(FALSE)) /\ RatesQuiet(line, radio.on)

StreamInv == RunningOK /\ StoppedOK /\ RatesOK

\* None of the mnemonics, or one of them, asks something.
NoQuery(l) == \A i \in 1 .. Len(l) : ~IsQuery(l[i])

OneQuery(l, name) ==
  \E i \in 1 .. Len(l) :
    /\ l[i] = Query(name)
    /\ \A j \in 1 .. Len(l) : j # i => ~IsQuery(l[j])

\* One of the values vs has come as an answer, in one segment or in two.
Answered(vs) ==
  \E v \in vs :
    \/ answers = <<[value |-> v, more |-> FALSE]>>
    \/ answers = <<[value |-> 0, more |-> TRUE], [value |-> v, more |-> FALSE]>>

\* The query is on its way, or its answer.
Asked(name, vs) ==
  \/ answers = <<>> /\ OneQuery(line, name)
  \/ Answered(vs) /\ NoQuery(line)

\* A setter that waits has one query open and nobody else has any.
SessionOK ==
  /\ gpc \notin {"stream_id", "rate_answer"} => answers = <<>> /\ NoQuery(line)
  /\ gpc = "stream_id" => Asked("VID", {1}) /\ asked
  /\ gpc = "rate_answer" => Asked("SPR", Values)

\* The block knows which channel the user asked for last.
AskedOK == m_connected /\ gpc # "stream_id" => (m_active_channels = 1 <=> asked)

SessionInv == ~late => SessionOK /\ AskedOK

\* The manager of the last start, and whether it should deliver the tuner.
Cur == managers[made]
Tuner == m_active_channels = 1

\* The GUI is in update_tuners of that manager; it has yet to write there what
\* it knows of the tuner.
GuiHere == gpc \in Updating /\ using = made
Pending == gpc = "manager?" \/ (gpc \in {"clear", "match"} /\ using = made)

\* Of two that are in it one has only come.
LateComer == bpc \in Updating /\ GuiHere => bpc = "clear" \/ gpc = "clear"

\* The flag of an update is up only for one who awaits it, and is served from
\* what that caller wrote.
FlagOK ==
  made > 0 =>
    /\ Cur.m_update_valid_streams => bpc = "await" \/ (gpc = "await" /\ using = made)
    /\ Cur.serving => Cur.m_update_valid_streams
    /\ Cur.serving => (Cur.tuner_valid <=> Cur.tuner_valid_safe)

\* The block has stopped updating, or has not begun a manager.
NotStarting == {"stream", "running", "stopping", "stopped"}

\* What start wrote of the tuner is what the block knows, and later what the
\* manager delivers, unless the GUI is going to write it again.
BlockUpdate ==
  ~Pending =>
    /\ bpc \in {"raise", "await"} => (Cur.tuner_valid_safe <=> Tuner)
    /\ bpc = "await" /\ ~Cur.m_update_valid_streams => (Cur.tuner_valid <=> Tuner)
    /\ made > 0 /\ bpc \in NotStarting /\ ~GuiHere => (Cur.tuner_valid <=> Tuner)

\* The same of what set_channel wrote.
GuiUpdate ==
  GuiHere =>
    /\ gpc \in {"raise", "await"} => (Cur.tuner_valid_safe <=> Tuner)
    /\ gpc = "await" /\ ~Cur.m_update_valid_streams => (Cur.tuner_valid <=> Tuner)

TunerOK == LateComer /\ FlagOK /\ BlockUpdate /\ GuiUpdate

TunerInv == ~overlap => TunerOK

-----------------------------------------------------------------------------
\* The inductive invariant implies the type invariant of PicoSrc.
LEMMA InvType == Inv => TypeOK
<1> SUFFICES ASSUME Inv PROVE TypeOK
  OBVIOUS
<1>1. m_complex_manager \in {0, made - 1, made} \cap Nat
  BY SrcAssumption DEF Inv, ControlOK, Starting
<1>2. using \in 0 .. made
  BY SrcAssumption DEF Inv, ControlOK, Starting
<1>3. \A n \in 1 .. made : managers[n].freed => n < m_complex_manager
  <2> SUFFICES ASSUME NEW n \in 1 .. made, managers[n].freed PROVE n < m_complex_manager
    OBVIOUS
  <2>1. made \in 0 .. MaxStarts /\ m_complex_manager = IF bpc = "reset" THEN made - 1 ELSE made
    BY DEF Inv, ControlOK
  <2>2. n < made /\ (bpc \in {"reset", "delete"} => n < made - 1)
    BY <2>1, SrcAssumption DEF Inv, FreedOK, Managers
  <2> QED BY <2>1, <2>2
<1>4. radio.on \in BOOLEAN /\ radio.rate \in MIN_SR_MHZ .. MAX_SR_MHZ
  BY DEF Inv, RadioOK
<1> QED BY <1>1, <1>2, <1>3, <1>4 DEF Inv, TypeOK, ManagersOK, ManagerStates, ChannelOK

\* Which actions change which variable.
Footprint ==
  /\ UNCHANGED m_connected
  /\ UNCHANGED m_active_channels \/ StreamIdAnswered \/ \E c \in ChannelsAsked : set_channel(c)
  /\ UNCHANGED m_complex_manager \/ Reset
  /\ UNCHANGED made \/ start
  /\ \/ UNCHANGED managers
     \/ start \/ DeleteOld \/ StartUpdates \/ StopManager \/ ChannelUpdates
     \/ \E n \in Managers : Manager(n)
  /\ UNCHANGED bpc \/ Block
  /\ UNCHANGED guiVars \/ Gui
  /\ \/ UNCHANGED line
     \/ RadioAnswers \/ RadioObeys
     \/ EnableStream \/ stop \/ SendSetting \/ SendRate \/ RateOn
     \/ \E c \in ChannelsAsked : set_channel(c)
     \/ \E sr \in Requested : set_sample_rate(sr)
  /\ \/ UNCHANGED <<answers, late>>
     \/ RadioAnswers \/ StreamIdAnswered \/ RateAnswered \/ Throw
  /\ UNCHANGED radio \/ RadioObeys
  /\ UNCHANGED crashed \/ UseFreed
  /\ UNCHANGED overlap \/ StartUpdates \/ ChannelUpdates
  /\ UNCHANGED raced \/ EnableStream
  /\ UNCHANGED unheard \/ EnableStream \/ RateOn

USE DEF srcVars, managerVars, client, guiVars, history

\* Every step keeps to the footprint: a variable that is not named there is left
\* alone.
LEMMA FootprintLemma == [Next]_vars => Footprint
<1> SUFFICES ASSUME [Next]_vars PROVE Footprint
  OBVIOUS
<1> USE DEF Footprint
<1>1. CASE Radio
  BY <1>1 DEF Radio, RadioAnswers, RadioObeys, Reply
<1>2. CASE Block
  BY <1>2 DEF Block, start, Reset, DeleteOld, StartUpdates, EnableStream, stop,
       StopManager, BlockOnly
<1>3. CASE Gui
  <2> USE DEF GuiOnly
  <2>1. CASE SendSetting \/ FindManager \/ ChannelUpdates \/ UseFreed
    BY <2>1, <1>3 DEF SendSetting, FindManager, ChannelUpdates, UseFreed
  <2>2. CASE StreamIdAnswered
    BY <2>2, <1>3 DEF StreamIdAnswered
  <2>3. CASE SendRate \/ RateAnswered \/ RateOn \/ Throw
    BY <2>3, <1>3 DEF SendRate, RateAnswered, RateOn, Throw
  <2>4. ASSUME NEW c \in ChannelsAsked, set_channel(c) PROVE Footprint
    BY <2>4, <1>3 DEF set_channel
  <2>5. ASSUME NEW sr \in Requested, set_sample_rate(sr) PROVE Footprint
    BY <2>5, <1>3 DEF set_sample_rate
  <2> QED BY <1>3, <2>1, <2>2, <2>3, <2>4, <2>5 DEF Gui
<1>4. ASSUME NEW n \in Managers, Manager(n) PROVE Footprint
  BY <1>4 DEF Manager, Bind, handle_update, UpdateHandled, InManager
<1>5. CASE UNCHANGED vars
  BY <1>5 DEF vars
<1> QED BY <1>1, <1>2, <1>3, <1>4, <1>5 DEF Next

\* The constructor establishes the invariant.
LEMMA InitInv == Init => Inv
<1> SUFFICES ASSUME Init PROVE Inv
  OBVIOUS
<1> USE SrcAssumption DEF Init
<1>1. ManagersOK
  BY DEF ManagersOK, ManagerStates, NewManager
<1>2. ChannelOK
  BY DEF ChannelOK
<1>3. ControlOK
  <2>1. /\ crashed \in BOOLEAN /\ overlap \in BOOLEAN /\ raced \in BOOLEAN
        /\ unheard \in BOOLEAN /\ asked \in BOOLEAN /\ late \in BOOLEAN
    OBVIOUS
  <2>2. /\ bpc = "stopped" /\ gpc = "idle" /\ made = 0 /\ m_complex_manager = 0 /\ want = 0
        /\ using = 0
    OBVIOUS
  <2> HIDE DEF Init
  <2> QED BY <2>1, <2>2 DEF ControlOK, BlockPcs, GuiPcs, Starting, Updating, ChangingRate
<1>4. FreedOK /\ SocketsOK
  BY DEF FreedOK, SocketsOK, NewManager, Managers
<1>5. RadioOK
  BY DEF RadioOK
<1>6. line \in Seq(Mnemonics)
  <2>1. Cmd("SIP", 0) \in Mnemonics /\ Cmd("END", 0) \in Mnemonics
    BY DEF Mnemonics, Cmd
  <2>2. line = <<>> \/ line = <<Cmd("SIP", 0), Cmd("END", 0)>>
    OBVIOUS
  <2> HIDE DEF Init
  <2>3. CASE line = <<>>
    BY <2>3
  <2>4. CASE line = <<Cmd("SIP", 0), Cmd("END", 0)>>
    BY <2>1, <2>4
  <2> QED BY <2>2, <2>3, <2>4
<1> QED BY <1>1, <1>2, <1>3, <1>4, <1>5, <1>6 DEF Inv

\* set_channel stores -1 or a stream id the radio can answer with.
LEMMA ChannelNext == Inv /\ [Next]_vars => ChannelOK'
<1> SUFFICES ASSUME Inv, [Next]_vars PROVE ChannelOK'
  OBVIOUS
<1>0. ChannelOK
  BY DEF Inv
<1>1. CASE StreamIdAnswered
  BY <1>0, <1>1, FootprintLemma DEF StreamIdAnswered, ChannelOK, Values, Footprint
<1>2. ASSUME NEW c \in ChannelsAsked, set_channel(c) PROVE ChannelOK'
  BY <1>0, <1>2, FootprintLemma DEF set_channel, ChannelOK, Values, Footprint
<1> QED BY <1>0, <1>1, <1>2, FootprintLemma DEF Footprint, ChannelOK

\* The radio is only ever set to a rate within the limits of the block.
LEMMA RadioNext == Inv /\ [Next]_vars => RadioOK'
<1> SUFFICES ASSUME Inv, [Next]_vars PROVE RadioOK'
  OBVIOUS
<1>0. RadioOK /\ line \in Seq(Mnemonics)
  BY DEF Inv
<1>1. CASE RadioObeys
  <2>1. Head(line) \in Mnemonics /\ ~IsQuery(Head(line))
    BY <1>0, <1>1 DEF RadioObeys
  <2>2. CASE Head(line).name = "OPM"
    BY <1>0, <1>1, <2>2 DEF RadioObeys, RadioOK
  <2>3. CASE Head(line).name = "SPR"
    <3>1. Head(line).value \in MIN_SR_MHZ .. MAX_SR_MHZ
      BY <2>1, <2>3 DEF Mnemonics, IsQuery
    <3> QED BY <1>0, <1>1, <2>3, <3>1 DEF RadioObeys, RadioOK
  <2>4. CASE Head(line).name \notin {"OPM", "SPR"}
    BY <1>0, <1>1, <2>4 DEF RadioObeys, RadioOK
  <2> QED BY <2>2, <2>3, <2>4
<1> QED BY <1>0, <1>1, FootprintLemma DEF Footprint, RadioOK

\* The mnemonics the block sends.
LEMMA SentMnemonics ==
  /\ Cmd("OPM", 0) \in Mnemonics /\ Cmd("OPM", 1) \in Mnemonics
  /\ Cmd("setting", 0) \in Mnemonics
  /\ \A c \in Int : Cmd("RCH", c) \in Mnemonics
  /\ Query("VID") \in Mnemonics /\ Query("SPR") \in Mnemonics
  /\ \A r \in MIN_SR_MHZ .. MAX_SR_MHZ : Cmd("SPR", r) \in Mnemonics
  BY SrcAssumption DEF Mnemonics, Cmd, Query

\* Two at once.
LEMMA SentBoth ==
  ASSUME NEW S, NEW s \in Seq(S), NEW c \in S, NEW q \in S
  PROVE  s \o <<c, q>> \in Seq(S)
<1>1. <<c, q>> \in Seq(S)
  OBVIOUS
<1> QED BY <1>1

\* set_sample_rate sends a rate within the limits, whatever it was called with,
\* and asks for it when it had to move it.
LEMMA RateSent ==
  ASSUME Inv, SendRate
  PROVE  \E r \in MIN_SR_MHZ .. MAX_SR_MHZ :
           \/ gpc' = "rate_on" /\ line' = line \o <<Cmd("SPR", r)>>
           \/ gpc' = "rate_answer" /\ line' = line \o <<Cmd("SPR", r), Query("SPR")>>
<1>1. want \in Nat
  BY DEF Inv, ControlOK
<1>2. CASE want \in MIN_SR_MHZ .. MAX_SR_MHZ
  BY <1>2 DEF SendRate, Send
<1>3. CASE want \notin MIN_SR_MHZ .. MAX_SR_MHZ
  <2>1. (IF want > MAX_SR_MHZ THEN MAX_SR_MHZ ELSE MIN_SR_MHZ) \in MIN_SR_MHZ .. MAX_SR_MHZ
    BY SrcAssumption
  <2> QED BY <1>3, <2>1 DEF SendRate, Send
<1> QED BY <1>2, <1>3

\* Nothing else is sent.
LEMMA LineNext == Inv /\ [Next]_vars => line' \in Seq(Mnemonics)
<1> SUFFICES ASSUME Inv, [Next]_vars PROVE line' \in Seq(Mnemonics)
  OBVIOUS
<1>0. line \in Seq(Mnemonics)
  BY DEF Inv
<1>1. CASE RadioAnswers \/ RadioObeys
  <2>1. line # <<>> /\ line' = Tail(line)
    BY <1>1 DEF RadioAnswers, RadioObeys, Reply
  <2> QED BY <1>0, <2>1
<1>2. CASE EnableStream \/ stop \/ SendSetting \/ RateOn
  BY <1>0, <1>2, SentMnemonics DEF EnableStream, stop, SendSetting, RateOn, Send
<1>3. CASE SendRate
  <2>1. PICK r \in MIN_SR_MHZ .. MAX_SR_MHZ :
          \/ line' = line \o <<Cmd("SPR", r)>>
          \/ line' = line \o <<Cmd("SPR", r), Query("SPR")>>
    BY <1>3, RateSent
  <2>2. Cmd("SPR", r) \in Mnemonics /\ Query("SPR") \in Mnemonics
    BY SentMnemonics
  <2>3. CASE line' = line \o <<Cmd("SPR", r)>>
    BY <1>0, <2>2, <2>3
  <2>4. CASE line' = line \o <<Cmd("SPR", r), Query("SPR")>>
    BY <1>0, <2>2, <2>4, SentBoth
  <2> QED BY <2>1, <2>3, <2>4
<1>4. ASSUME NEW c \in ChannelsAsked, set_channel(c) PROVE line' \in Seq(Mnemonics)
  <2>1. line' = line \/ line' = line \o <<Cmd("RCH", c), Query("VID")>>
    BY <1>4 DEF set_channel, Send
  <2>2. Cmd("RCH", c) \in Mnemonics /\ Query("VID") \in Mnemonics
    BY SentMnemonics, SrcAssumption
  <2> QED BY <1>0, <2>1, <2>2, SentBoth
<1>5. ASSUME NEW sr \in Requested, set_sample_rate(sr) PROVE line' \in Seq(Mnemonics)
  BY <1>0, <1>5, SentMnemonics DEF set_sample_rate, Send
<1> QED BY <1>0, <1>1, <1>2, <1>3, <1>4, <1>5, FootprintLemma DEF Footprint

\* The two threads and the pointer stay in step.
LEMMA ControlNext == Inv /\ [Next]_vars => ControlOK'
<1> SUFFICES ASSUME Inv, [Next]_vars PROVE ControlOK'
  OBVIOUS
<1> USE SrcAssumption
<1> DEFINE Flags == /\ crashed \in BOOLEAN /\ overlap \in BOOLEAN /\ raced \in BOOLEAN
                    /\ unheard \in BOOLEAN /\ asked \in BOOLEAN /\ late \in BOOLEAN
           Places == /\ bpc \in BlockPcs /\ made \in 0 .. MaxStarts
                     /\ m_complex_manager = IF bpc = "reset" THEN made - 1 ELSE made
                     /\ bpc \in Starting \/ (bpc # "stopped" /\ m_connected) => made >= 1
                     /\ ~m_connected => made = 0
           Calls == /\ gpc \in GuiPcs /\ want \in Nat
                    /\ gpc \in Updating => using \in 1 .. m_complex_manager
                    /\ gpc \notin Updating => using = 0
                    /\ ~m_connected => gpc \notin ChangingRate
<1>0. Flags /\ Places /\ Calls
  BY DEF Inv, ControlOK
<1>1. Flags'
  <2>1. asked' \in BOOLEAN
    BY <1>0, FootprintLemma DEF Footprint, Gui, SendSetting, set_channel,
         StreamIdAnswered,
       FindManager, ChannelUpdates, UseFreed, set_sample_rate, SendRate, RateAnswered,
       RateOn, Throw
  <2>2. late' \in BOOLEAN
    BY <1>0, FootprintLemma DEF Footprint, RadioAnswers, Reply, StreamIdAnswered,
         RateAnswered,
       Throw, Receive, ReceiveThrows
  <2>3. crashed' \in BOOLEAN
    BY <1>0, FootprintLemma DEF Footprint, UseFreed
  <2>4. overlap' \in BOOLEAN
    BY <1>0, FootprintLemma DEF Footprint, StartUpdates, ChannelUpdates
  <2>5. raced' \in BOOLEAN /\ unheard' \in BOOLEAN
    BY <1>0, FootprintLemma DEF Footprint, EnableStream, RateOn
  <2> QED BY <2>1, <2>2, <2>3, <2>4, <2>5
<1>2. Places'
  <2> USE DEF BlockPcs, Starting, Updating
  <2>1. CASE start
    BY <1>0, <2>1 DEF start, BlockOnly
  <2>2. CASE Reset
    BY <1>0, <2>2 DEF Reset, BlockOnly
  <2>3. CASE DeleteOld \/ EnableStream \/ stop \/ StopManager
    BY <1>0, <2>3 DEF DeleteOld, EnableStream, stop, StopManager, BlockOnly
  <2>4. CASE StartUpdates
    BY <1>0, <2>4 DEF StartUpdates, UpdateStep, BlockOnly
  <2> QED BY <1>0, <2>1, <2>2, <2>3, <2>4, FootprintLemma DEF Footprint, Block
<1>3. Calls'
  <2> USE DEF GuiPcs, Updating, ChangingRate
  <2>0. m_complex_manager' >= m_complex_manager /\ UNCHANGED m_connected
    <3>1. UNCHANGED m_connected /\ (UNCHANGED m_complex_manager \/ Reset)
      BY FootprintLemma DEF Footprint
    <3>2. m_complex_manager \in Int /\ made \in Int
      BY <1>0
    <3>3. CASE Reset
      BY <1>0, <3>1, <3>2, <3>3 DEF Reset
    <3> QED BY <3>1, <3>2, <3>3
  <2>1. CASE UNCHANGED guiVars
    <3>1. m_complex_manager \in Int /\ m_complex_manager' \in Int
      <4>1. made \in Int /\ made' \in Int
        BY <1>0, <1>2
      <4> QED BY <1>0, <1>2, <4>1
    <3> QED BY <1>0, <2>0, <2>1, <3>1
  <2>2. ASSUME NEW c \in ChannelsAsked, set_channel(c) PROVE Calls'
    BY <1>0, <2>0, <2>2 DEF set_channel, Setter, GuiOnly
  <2>3. ASSUME NEW sr \in Requested, set_sample_rate(sr) PROVE Calls'
    BY <1>0, <2>0, <2>3 DEF set_sample_rate, Setter, GuiOnly
  <2>4. CASE FindManager
    BY <1>0, <2>0, <2>4 DEF FindManager, GuiOnly, Starting
  <2>5. CASE ChannelUpdates
    BY <1>0, <2>0, <2>5 DEF ChannelUpdates, UpdateStep, GuiOnly
  <2>6. CASE SendSetting \/ StreamIdAnswered \/ UseFreed
    BY <1>0, <2>0, <2>6 DEF SendSetting, Setter, StreamIdAnswered, UseFreed, GuiOnly
  <2>7. CASE SendRate \/ RateAnswered \/ RateOn \/ Throw
    BY <1>0, <2>0, <2>7 DEF SendRate, RateAnswered, RateOn, Throw, GuiOnly
  <2> QED BY <2>1, <2>2, <2>3, <2>4, <2>5, <2>6, <2>7, FootprintLemma DEF Footprint, Gui
<1> QED BY <1>1, <1>2, <1>3 DEF ControlOK

\* What a step may do to the managers: set fields of the one it works on,
\* begin a new one, or delete the old one.
LEMMA ManagersStep ==
  ASSUME Inv, [Next]_vars
  PROVE  \/ UNCHANGED managers
         \/ \E n \in Managers : \E m \in ManagerStates :
              /\ managers' = [managers EXCEPT ![n] = m]
              /\ m.freed = managers[n].freed
              /\ m.socket = managers[n].socket
              /\ UNCHANGED made
         \/ \E n \in Managers : \E m \in ManagerStates :
              /\ Bind(n)
              /\ managers' = [managers EXCEPT ![n] = m]
              /\ m.freed = managers[n].freed
              /\ UNCHANGED made
         \/ start
         \/ DeleteOld
<1> USE SrcAssumption
<1>0. ManagersOK /\ ControlOK
  BY DEF Inv
<1>1. ASSUME NEW n \in Managers, NEW pc, NEW there, UpdateStep(n, pc, there)
      PROVE  UNCHANGED managers \/
             \E m \in ManagerStates :
              /\ managers' = [managers EXCEPT ![n] = m]
              /\ m.freed = managers[n].freed
              /\ m.socket = managers[n].socket
  <2> DEFINE Kept(m) == /\ managers' = [managers EXCEPT ![n] = m]
                        /\ m.freed = managers[n].freed
                        /\ m.socket = managers[n].socket
  <2>0. managers[n] \in ManagerStates
    BY <1>0 DEF ManagersOK
  <2>1. ASSUME NEW b \in BOOLEAN, managers' = [managers EXCEPT ![n].tuner_valid_safe = b]
        PROVE  \E m \in ManagerStates : Kept(m)
    <3> DEFINE m == [managers[n] EXCEPT !.tuner_valid_safe = b]
    <3>1. m \in ManagerStates /\ m.freed = managers[n].freed /\ m.socket = managers[n].socket
      BY <2>0 DEF ManagerStates
    <3> QED BY <2>1, <3>1
  <2>2. ASSUME managers' = [managers EXCEPT ![n].m_update_valid_streams = TRUE]
        PROVE  \E m \in ManagerStates : Kept(m)
    <3> DEFINE m == [managers[n] EXCEPT !.m_update_valid_streams = TRUE]
    <3>1. m \in ManagerStates /\ m.freed = managers[n].freed /\ m.socket = managers[n].socket
      BY <2>0 DEF ManagerStates
    <3> QED BY <2>2, <3>1
  <2>3. \/ UNCHANGED managers
        \/ \E b \in BOOLEAN : managers' = [managers EXCEPT ![n].tuner_valid_safe = b]
        \/ managers' = [managers EXCEPT ![n].m_update_valid_streams = TRUE]
    <3>1. (m_active_channels = 1) \in BOOLEAN
      OBVIOUS
    <3> QED BY <1>1, <3>1, Zenon DEF UpdateStep
  <2> QED BY <2>1, <2>2, <2>3
<1>2. CASE StartUpdates
  <2>1. made \in Managers
    BY <1>0, <1>2 DEF ControlOK, Managers, StartUpdates, UpdateStep, Starting, Updating
  <2> QED BY <1>1, <1>2, <2>1 DEF StartUpdates
<1>3. CASE ChannelUpdates
  <2>1. using \in Managers
    BY <1>0, <1>3 DEF ControlOK, Managers, ChannelUpdates
  <2> QED BY <1>1, <1>3, <2>1 DEF ChannelUpdates, GuiOnly
<1>4. CASE StopManager
  <2>1. CASE UNCHANGED managers
    BY <2>1
  <2>2. CASE m_complex_manager # 0 /\ managers' = [managers EXCEPT ![m_complex_manager].run = FALSE]
    <3>1. m_complex_manager \in Managers
      BY <1>0, <1>4, <2>2 DEF ControlOK, Managers, StopManager
    <3>2. UNCHANGED made
      BY <1>4 DEF StopManager
    <3> DEFINE m == [managers[m_complex_manager] EXCEPT !.run = FALSE]
    <3>3. m \in ManagerStates /\ m.freed = managers[m_complex_manager].freed
          /\ m.socket = managers[m_complex_manager].socket
      BY <1>0, <3>1 DEF ManagersOK, ManagerStates
    <3> QED BY <2>2, <3>1, <3>2, <3>3
  <2> QED BY <1>4, <2>1, <2>2 DEF StopManager
<1>5. ASSUME NEW n \in Managers, Bind(n)
      PROVE \E m \in ManagerStates :
              /\ managers' = [managers EXCEPT ![n] = m]
              /\ m.freed = managers[n].freed
  <2> DEFINE s == IF \E m \in 1 .. made : managers[m].socket = "bound" THEN "failed" ELSE "bound"
             m == [managers[n] EXCEPT !.socket = s]
  <2>1. s \in {"bound", "failed"}
    OBVIOUS
  <2>2. managers' = [managers EXCEPT ![n].socket = s]
    BY <1>5 DEF Bind
  <2> HIDE DEF s
  <2>3. m \in ManagerStates /\ m.freed = managers[n].freed
    BY <1>0, <2>1 DEF ManagersOK, ManagerStates
  <2> QED BY <2>2, <2>3
<1>6. ASSUME NEW n \in Managers, handle_update(n) \/ UpdateHandled(n)
      PROVE \E m \in ManagerStates :
              /\ managers' = [managers EXCEPT ![n] = m]
              /\ m.freed = managers[n].freed
              /\ m.socket = managers[n].socket
  <2>0. managers[n] \in ManagerStates
    BY <1>0 DEF ManagersOK
  <2>1. CASE handle_update(n)
    <3> DEFINE m == [managers[n] EXCEPT !.tuner_valid = managers[n].tuner_valid_safe,
                                        !.serving = TRUE]
    <3>1. m \in ManagerStates /\ m.freed = managers[n].freed /\ m.socket = managers[n].socket
      BY <2>0 DEF ManagerStates
    <3>2. managers' = [managers EXCEPT ![n] = m]
      BY <1>0, <2>1 DEF handle_update, ManagersOK
    <3> QED BY <3>1, <3>2
  <2>2. CASE UpdateHandled(n)
    <3> DEFINE m == [managers[n] EXCEPT !.m_update_valid_streams = FALSE, !.serving = FALSE]
    <3>1. m \in ManagerStates /\ m.freed = managers[n].freed /\ m.socket = managers[n].socket
      BY <2>0 DEF ManagerStates
    <3>2. managers' = [managers EXCEPT ![n] = m]
      BY <1>0, <2>2 DEF UpdateHandled, ManagersOK
    <3> QED BY <3>1, <3>2
  <2> QED BY <1>6, <2>1, <2>2
<1>7. \/ UNCHANGED managers \/ start \/ DeleteOld \/ StartUpdates \/ StopManager
      \/ ChannelUpdates
      \/ \E n \in Managers : Bind(n) \/ handle_update(n) \/ UpdateHandled(n)
  BY FootprintLemma DEF Footprint, Manager
<1>8. ASSUME NEW n \in Managers, Bind(n) \/ handle_update(n) \/ UpdateHandled(n)
      PROVE  UNCHANGED made
  BY <1>8 DEF InManager, Bind, handle_update, UpdateHandled
<1> QED BY <1>2, <1>3, <1>4, <1>5, <1>6, <1>7, <1>8

\* Managers keep their types, only old ones are deleted, and the first listener
\* gets its port.
LEMMA ManagersNext == Inv /\ [Next]_vars => ManagersOK' /\ FreedOK' /\ SocketsOK'
<1> SUFFICES ASSUME Inv, [Next]_vars PROVE ManagersOK' /\ FreedOK' /\ SocketsOK'
  OBVIOUS
<1> USE SrcAssumption
<1>0. ManagersOK /\ ControlOK /\ FreedOK /\ SocketsOK
  BY DEF Inv
<1>1. ControlOK'
  BY ControlNext
<1>2. made \in 0 .. MaxStarts /\ made' \in 0 .. MaxStarts
  BY <1>0, <1>1 DEF ControlOK
\* Nobody uses the manager of a first start after its end.
<1>3. made' <= 1 => ~crashed'
  <2>1. CASE UseFreed
    <3>1. using \in Managers /\ managers[using].freed /\ UNCHANGED made
      BY <1>0, <2>1 DEF UseFreed, GuiOnly, ControlOK, Managers
    <3>2. using < made /\ using >= 1
      BY <1>0, <3>1 DEF FreedOK, Managers
    <3> QED BY <1>2, <3>1, <3>2 DEF Managers
  <2>2. CASE UNCHANGED crashed
    <3>1. made <= made'
      BY <1>2, FootprintLemma DEF Footprint, start
    <3> QED BY <1>0, <1>2, <2>2, <3>1 DEF SocketsOK
  <2> QED BY <2>1, <2>2, FootprintLemma DEF Footprint
\* What a step may do to where the block is, and what that means for the freed.
<1>4. ASSUME UNCHANGED made, \A n \in Managers : managers'[n].freed = managers[n].freed
      PROVE  FreedOK'
  <2>1. bpc' \in {"reset", "delete"} => bpc \in {"reset", "delete"}
    <3>1. CASE start
      BY <1>2, <1>4, <3>1 DEF start
    <3>2. CASE Block /\ ~start
      BY <3>2 DEF Block, Reset, DeleteOld, StartUpdates, EnableStream, stop, StopManager,
           UpdateStep,
         Updating
    <3> QED BY <3>1, <3>2, FootprintLemma DEF Footprint
  <2> QED BY <1>0, <1>4, <2>1 DEF FreedOK
<1>5. CASE UNCHANGED managers /\ UNCHANGED made
  BY <1>0, <1>3, <1>4, <1>5 DEF ManagersOK, SocketsOK
<1>6. ASSUME NEW n \in Managers, NEW m \in ManagerStates,
             managers' = [managers EXCEPT ![n] = m], m.freed = managers[n].freed,
             UNCHANGED made
      PROVE  /\ ManagersOK' /\ FreedOK'
             /\ m.socket = managers[n].socket => SocketsOK'
             /\ n <= made /\ (made <= 1 => m.socket # "failed") => SocketsOK'
  <2>1. ManagersOK'
    BY <1>0, <1>6 DEF ManagersOK
  <2>2. \A k \in Managers : managers'[k] = IF k = n THEN m ELSE managers[k]
    BY <1>0, <1>6 DEF ManagersOK
  <2>3. FreedOK'
    BY <1>4, <1>6, <2>2
  <2>4. m.socket = managers[n].socket => SocketsOK'
    BY <1>0, <1>3, <1>6, <2>2 DEF SocketsOK
  <2>5. n <= made /\ (made <= 1 => m.socket # "failed") => SocketsOK'
    BY <1>0, <1>2, <1>3, <1>6, <2>2 DEF SocketsOK, Managers
  <2> QED BY <2>1, <2>3, <2>4, <2>5
\* The first listener finds the port free.
<1>7. ASSUME NEW n \in Managers, NEW m \in ManagerStates, Bind(n),
             managers' = [managers EXCEPT ![n] = m], m.freed = managers[n].freed,
             UNCHANGED made
      PROVE  ManagersOK' /\ FreedOK' /\ SocketsOK'
  <2>1. n <= made /\ managers[n].socket = "none"
    BY <1>7 DEF Bind, InManager
  <2>2. made <= 1 => \A k \in 1 .. made : managers[k].socket # "bound"
    BY <1>2, <2>1 DEF Managers
  <2>3. managers'[n] = m /\ managers'[n].socket = IF \E k \in 1 .. made : managers[k].socket = "bound"
                                                  THEN "failed" ELSE "bound"
    BY <1>0, <1>7 DEF Bind, ManagersOK, ManagerStates
  <2>4. made <= 1 => m.socket # "failed"
    BY <2>2, <2>3
  <2> QED BY <1>6, <1>7, <2>1, <2>4
<1>8. CASE start /\ ~UNCHANGED made
  <2>1. made' = made + 1 /\ bpc' = "reset" /\ managers' = [managers EXCEPT ![made'] = NewManager]
    BY <1>8 DEF start
  <2>2. NewManager \in ManagerStates /\ NewManager.socket = "none" /\ ~NewManager.freed
    BY DEF NewManager, ManagerStates
  <2>3. \A k \in Managers : managers'[k] = IF k = made' THEN NewManager ELSE managers[k]
    BY <1>0, <2>1 DEF ManagersOK
  <2>4. ManagersOK'
    BY <1>0, <2>1, <2>2 DEF ManagersOK
  <2>5. FreedOK'
    BY <1>0, <1>2, <2>1, <2>2, <2>3 DEF FreedOK, Managers
  <2>6. SocketsOK'
    BY <1>0, <1>2, <1>3, <2>1, <2>2, <2>3 DEF SocketsOK, Managers
  <2> QED BY <2>4, <2>5, <2>6
<1>9. CASE DeleteOld
  <2> DEFINE gone == [NewManager EXCEPT !.run = FALSE, !.freed = TRUE, !.socket = "closed"]
  <2>1. gone \in ManagerStates /\ gone.socket = "closed"
    BY DEF NewManager, ManagerStates
  <2>2. /\ managers' = [n \in Managers |-> IF n = made - 1 THEN gone ELSE managers[n]]
        /\ UNCHANGED made /\ bpc = "delete" /\ bpc' = "clear"
    BY <1>9 DEF DeleteOld
  <2> HIDE DEF gone
  <2>3. ManagersOK'
    BY <1>0, <2>1, <2>2 DEF ManagersOK
  <2>4. FreedOK'
    <3> SUFFICES ASSUME NEW n \in Managers, managers'[n].freed PROVE n < made
      BY <2>2 DEF FreedOK
    <3>1. CASE n = made - 1
      BY <1>2, <3>1
    <3>2. CASE n # made - 1
      BY <1>0, <2>2, <3>2 DEF FreedOK
    <3> QED BY <3>1, <3>2
  <2>5. SocketsOK'
    BY <1>0, <1>2, <1>3, <2>1, <2>2 DEF SocketsOK, Managers
  <2> QED BY <2>3, <2>4, <2>5
<1>10. CASE UNCHANGED managers
  BY <1>5, <1>8, <1>10, FootprintLemma DEF Footprint
<1>11. CASE start
  <2>1. UNCHANGED made => UNCHANGED managers
    BY <1>2, <1>11 DEF start
  <2> QED BY <1>5, <1>8, <1>11, <2>1
<1> QED BY <1>6, <1>7, <1>9, <1>10, <1>11, ManagersStep

\* The values of every variable, the order of start, reset and delete, and which
\* manager each thread may hold, hold in every state of the block.
THEOREM Invariant == Spec => []Inv
<1>1. Inv /\ [Next]_vars => Inv'
  BY ManagersNext, ChannelNext, ControlNext, RadioNext, LineNext DEF Inv
<1> QED BY InitInv, <1>1, PTL DEF Spec

\* FirstStartSafe holds of every behaviour: until the second start set_channel never
\* uses a deleted manager, and the listener finds its port free.
THEOREM FirstStartIsSafe == Spec => []FirstStartSafe
<1>1. Inv => FirstStartSafe
  BY InvType DEF Inv, SocketsOK, FirstStartSafe
<1> QED BY Invariant, <1>1, PTL

-----------------------------------------------------------------------------
\* Whether the radio streams when it has carried out m.
Obeyed(m, on) == IF m.name = "OPM" THEN m.value = 1 ELSE on

\* Carrying out the first mnemonic leaves what the first n make of the stream.
LEMMA AfterTail ==
  ASSUME NEW l \in Seq(Mnemonics), l # <<>>, NEW n \in 1 .. Len(l), NEW on, NEW on2, NEW b,
         on2 <=> Obeyed(Head(l), on), After(l, n, on, b)
  PROVE  After(Tail(l), n - 1, on2, b)
<1>1. /\ Tail(l) \in Seq(Mnemonics) /\ Len(Tail(l)) = Len(l) - 1
      /\ \A i \in 1 .. Len(l) - 1 : Tail(l)[i] = l[i + 1]
      /\ Head(l) = l[1] /\ Len(l) \in Nat
  OBVIOUS
<1>2. CASE (on <=> b) /\ \A i \in 1 .. n : l[i].name # "OPM"
  <2>1. on2 <=> b
    BY <1>1, <1>2 DEF Obeyed
  <2>2. \A i \in 1 .. n - 1 : Tail(l)[i].name # "OPM"
    BY <1>1, <1>2
  <2> QED BY <2>1, <2>2 DEF After
<1>3. ASSUME NEW i \in 1 .. n, l[i].name = "OPM", l[i].value = 1 <=> b,
             \A j \in i + 1 .. n : l[j].name # "OPM"
      PROVE  After(Tail(l), n - 1, on2, b)
  <2>1. CASE i = 1
    <3>1. on2 <=> b
      BY <1>1, <1>3, <2>1 DEF Obeyed
    <3>2. \A k \in 1 .. n - 1 : Tail(l)[k].name # "OPM"
      BY <1>1, <1>3, <2>1
    <3> QED BY <3>1, <3>2 DEF After
  <2>2. CASE i # 1
    <3>1. i - 1 \in 1 .. n - 1 /\ Tail(l)[i - 1] = l[i]
      BY <1>1, <2>2
    <3>2. \A k \in (i - 1) + 1 .. n - 1 : Tail(l)[k].name # "OPM"
      BY <1>1, <1>3
    <3> QED BY <1>3, <3>1, <3>2 DEF After
  <2> QED BY <2>1, <2>2
<1> QED BY <1>2, <1>3 DEF After

\* Sending a mnemonic leaves what those before it make of the stream; the last
\* one that switches it decides.
LEMMA AfterAppend ==
  ASSUME NEW l \in Seq(Mnemonics), NEW m \in Mnemonics, NEW on
  PROVE  /\ \A n \in 0 .. Len(l) : \A b : After(l, n, on, b) => After(Append(l, m), n, on, b)
         /\ m.name # "OPM" =>
              \A b : After(l, Len(l), on, b) => After(Append(l, m), Len(l) + 1, on, b)
         /\ m.name = "OPM" =>
              \A b : (m.value = 1 <=> b) => After(Append(l, m), Len(l) + 1, on, b)
<1>1. /\ Len(Append(l, m)) = Len(l) + 1 /\ Append(l, m)[Len(l) + 1] = m /\ Len(l) \in Nat
      /\ \A i \in 1 .. Len(l) : Append(l, m)[i] = l[i]
  OBVIOUS
<1> DEFINE a == Append(l, m)
<1> HIDE DEF a
<1>2. ASSUME NEW n \in 0 .. Len(l), NEW b, After(l, n, on, b) PROVE After(a, n, on, b)
  BY <1>1, <1>2 DEF After, a
<1>3. ASSUME m.name # "OPM", NEW b, After(l, Len(l), on, b) PROVE After(a, Len(l) + 1, on, b)
  BY <1>1, <1>3 DEF After, a
<1>4. ASSUME m.name = "OPM", NEW b, m.value = 1 <=> b PROVE After(a, Len(l) + 1, on, b)
  BY <1>1, <1>4 DEF After, a
<1> QED BY <1>2, <1>3, <1>4 DEF a

\* The radio carries out the first mnemonic.
LEMMA RadioStep ==
  ASSUME Inv, RadioAnswers \/ RadioObeys
  PROVE  line # <<>> /\ line' = Tail(line) /\ (radio'.on <=> Obeyed(Head(line), radio.on))
<1>0. RadioOK /\ line \in Seq(Mnemonics)
  BY DEF Inv
<1>1. line # <<>> /\ line' = Tail(line)
  BY DEF RadioAnswers, RadioObeys, Reply
<1>2. Head(line) \in Mnemonics
  BY <1>0, <1>1
<1>3. CASE RadioAnswers
  <2>1. Head(line).name # "OPM"
    BY <1>2, <1>3 DEF RadioAnswers, IsQuery, Mnemonics
  <2> QED BY <1>1, <1>3, <2>1 DEF RadioAnswers, Obeyed
<1>4. CASE RadioObeys
  <2>1. CASE Head(line).name = "OPM"
    <3>1. radio' = [radio EXCEPT !.on = Head(line).value = 1]
      BY <1>4, <2>1 DEF RadioObeys
    <3>2. radio'.on = (Head(line).value = 1)
      BY <1>0, <3>1 DEF RadioOK
    <3> QED BY <1>1, <2>1, <3>2 DEF Obeyed
  <2>2. CASE Head(line).name = "SPR"
    <3>1. radio' = [radio EXCEPT !.rate = Head(line).value]
      BY <1>4, <2>2 DEF RadioObeys
    <3>2. radio'.on = radio.on
      BY <1>0, <3>1 DEF RadioOK
    <3> QED BY <1>1, <2>2, <3>2 DEF Obeyed
  <2>3. CASE Head(line).name \notin {"OPM", "SPR"}
    BY <1>1, <1>4, <2>3 DEF RadioObeys, Obeyed
  <2> QED BY <2>1, <2>2, <2>3
<1> QED BY <1>3, <1>4

\* A rate that is sent where the stream will be off is quiet, and the ones before it
\* stay so.
LEMMA RatesAppend ==
  ASSUME NEW l \in Seq(Mnemonics), NEW m \in Mnemonics, NEW on, RatesQuiet(l, on),
         IsRate(m) => After(l, Len(l), on, FALSE)
  PROVE  RatesQuiet(Append(l, m), on)
<1> DEFINE a == Append(l, m)
<1>1. Len(a) = Len(l) + 1 /\ a[Len(l) + 1] = m /\ Len(l) \in Nat
  OBVIOUS
<1>2. \A i \in 1 .. Len(l) : a[i] = l[i]
  OBVIOUS
<1> HIDE DEF a
<1>3. \A n \in 0 .. Len(l) : After(l, n, on, FALSE) => After(a, n, on, FALSE)
  BY AfterAppend DEF a
<1> SUFFICES ASSUME NEW i \in 1 .. Len(a), IsRate(a[i]) PROVE After(a, i - 1, on, FALSE)
  BY DEF RatesQuiet, a
<1>4. CASE i \in 1 .. Len(l)
  <2>1. IsRate(l[i])
    BY <1>2, <1>4
  <2>2. After(l, i - 1, on, FALSE)
    BY <1>4, <2>1, Zenon DEF RatesQuiet
  <2>3. i - 1 \in 0 .. Len(l)
    BY <1>1, <1>4
  <2> QED BY <1>3, <2>2, <2>3, Zenon
<1>5. CASE i = Len(l) + 1
  <2>1. i - 1 = Len(l) /\ Len(l) \in 0 .. Len(l) /\ IsRate(m)
    BY <1>1, <1>5
  <2> QED BY <1>3, <2>1, Zenon
<1>6. i \in 1 .. Len(l) \/ i = Len(l) + 1
  BY <1>1
<1> QED BY <1>4, <1>5, <1>6

\* The rates that are left when the first mnemonic is carried out stay quiet.
LEMMA RatesTail ==
  ASSUME NEW l \in Seq(Mnemonics), l # <<>>, NEW on, NEW on2, on2 <=> Obeyed(Head(l), on),
         RatesQuiet(l, on)
  PROVE  RatesQuiet(Tail(l), on2)
<1>1. Len(Tail(l)) = Len(l) - 1 /\ Len(l) \in Nat
  OBVIOUS
<1>2. \A i \in 1 .. Len(l) - 1 : Tail(l)[i] = l[i + 1]
  OBVIOUS
<1> SUFFICES ASSUME NEW i \in 1 .. Len(Tail(l)), IsRate(Tail(l)[i])
             PROVE  After(Tail(l), i - 1, on2, FALSE)
  BY DEF RatesQuiet
<1>3. After(l, i, on, FALSE)
  <2>1. i + 1 \in 1 .. Len(l) /\ IsRate(l[i + 1]) /\ (i + 1) - 1 = i
    BY <1>1, <1>2
  <2>2. After(l, (i + 1) - 1, on, FALSE)
    BY <2>1 DEF RatesQuiet
  <2> QED BY <2>1, <2>2
<1>4. i \in 1 .. Len(l)
  BY <1>1
<1> QED BY <1>3, <1>4, AfterTail

\* What one mnemonic that is sent makes of the stream and the rates on their way.
LEMMA Sent ==
  ASSUME Inv, NEW m \in Mnemonics, line' = line \o <<m>>, UNCHANGED radio
  PROVE  /\ m.name # "OPM" => (WillBe(TRUE) => WillBe(TRUE)') /\ (WillBe(FALSE) => WillBe(FALSE)')
         /\ m.name = "OPM" /\ m.value = 1 => WillBe(TRUE)'
         /\ m.name = "OPM" /\ m.value = 0 => WillBe(FALSE)'
         /\ RatesQuiet(line, radio.on) /\ (IsRate(m) => WillBe(FALSE)) => RatesQuiet(line, radio.on)'
<1>1. line \in Seq(Mnemonics) /\ line' = Append(line, m) /\ Len(line') = Len(line) + 1
  BY DEF Inv
<1>2. /\ m.name # "OPM" =>
           \A b : After(line, Len(line), radio.on, b) => After(line', Len(line'), radio.on, b)
      /\ m.name = "OPM" => \A b : (m.value = 1 <=> b) => After(line', Len(line'), radio.on, b)
  BY <1>1, AfterAppend
<1>3. RatesQuiet(line, radio.on) /\ (IsRate(m) => WillBe(FALSE)) => RatesQuiet(line', radio.on)
  BY <1>1, RatesAppend DEF WillBe
<1>4. m.value = 0 => ~(m.value = 1)
  OBVIOUS
<1>5. m.name = "OPM" /\ m.value = 0 => After(line', Len(line'), radio.on, FALSE)
  BY <1>2, <1>4, Zenon
<1>6. m.name = "OPM" /\ m.value = 1 => After(line', Len(line'), radio.on, TRUE)
  BY <1>2, Zenon
<1> QED BY <1>2, <1>3, <1>5, <1>6 DEF WillBe, After

\* The same for two that leave the stream alone: RCH with VID?, SPR with SPR?.
LEMMA SentTwo ==
  ASSUME Inv, NEW m1 \in Mnemonics, NEW m2 \in Mnemonics, line' = line \o <<m1, m2>>,
         UNCHANGED radio, m1.name # "OPM", m2.name # "OPM", ~IsRate(m2)
  PROVE  /\ (WillBe(TRUE) => WillBe(TRUE)') /\ (WillBe(FALSE) => WillBe(FALSE)')
         /\ RatesQuiet(line, radio.on) /\ (IsRate(m1) => WillBe(FALSE)) => RatesQuiet(line, radio.on)'
<1> DEFINE l == Append(line, m1)
<1>1. line \in Seq(Mnemonics) /\ l \in Seq(Mnemonics) /\ Len(l) = Len(line) + 1
  BY DEF Inv
<1>2. line' = Append(l, m2) /\ Len(line') = Len(l) + 1
  BY <1>1
<1>3. \A b : After(line, Len(line), radio.on, b) => After(l, Len(l), radio.on, b)
  BY <1>1, AfterAppend
<1>4. RatesQuiet(line, radio.on) /\ (IsRate(m1) => WillBe(FALSE)) => RatesQuiet(l, radio.on)
  BY <1>1, RatesAppend DEF WillBe
<1> HIDE DEF l
<1>5. \A b : After(l, Len(l), radio.on, b) => After(line', Len(line'), radio.on, b)
  BY <1>1, <1>2, AfterAppend
<1>6. RatesQuiet(l, radio.on) => RatesQuiet(line', radio.on)
  BY <1>1, <1>2, RatesAppend
<1>7. /\ After(line, Len(line), radio.on, TRUE) => After(line', Len(line'), radio.on, TRUE)
      /\ After(line, Len(line), radio.on, FALSE) => After(line', Len(line'), radio.on, FALSE)
  BY <1>3, <1>5, Zenon
<1>8. RatesQuiet(line, radio.on) /\ (IsRate(m1) => WillBe(FALSE)) => RatesQuiet(line', radio.on')
  BY <1>4, <1>6
<1>9. radio' = radio
  OBVIOUS
<1> QED BY <1>7, <1>8, <1>9 DEF WillBe

\* A mnemonic is carried out: what the stream will be in the end is what it was.
LEMMA CarriedOut ==
  ASSUME Inv, RadioAnswers \/ RadioObeys
  PROVE  /\ WillBe(TRUE) => WillBe(TRUE)'
         /\ WillBe(FALSE) => WillBe(FALSE)'
         /\ RatesQuiet(line, radio.on) => RatesQuiet(line, radio.on)'
<1>1. /\ line \in Seq(Mnemonics) /\ line # <<>> /\ line' = Tail(line)
      /\ radio'.on <=> Obeyed(Head(line), radio.on)
  BY RadioStep DEF Inv
<1>2. Len(line) \in 1 .. Len(line) /\ Len(line') = Len(line) - 1
  BY <1>1
<1>3. WillBe(TRUE) => WillBe(TRUE)'
  BY <1>1, <1>2, AfterTail DEF WillBe
<1>4. WillBe(FALSE) => WillBe(FALSE)'
  BY <1>1, <1>2, AfterTail DEF WillBe
<1>5. RatesQuiet(line, radio.on) => RatesQuiet(line, radio.on)'
  BY <1>1, RatesTail
<1> QED BY <1>3, <1>4, <1>5

\* The constructor sends SIP and END, which leave the stream off.
LEMMA StreamInit == Init => StreamInv
<1> SUFFICES ASSUME Init PROVE StreamInv
  OBVIOUS
<1>1. /\ ~radio.on /\ bpc = "stopped" /\ gpc = "idle"
      /\ line = <<>> \/ line = <<Cmd("SIP", 0), Cmd("END", 0)>>
  BY DEF Init
<1>2. \A i \in 1 .. Len(line) : line[i].name \notin {"OPM", "SPR"}
  BY <1>1 DEF Cmd
<1>3. WillBe(FALSE)
  BY <1>1, <1>2 DEF WillBe, After
<1>4. RatesQuiet(line, radio.on)
  BY <1>2 DEF RatesQuiet, IsRate
<1> QED BY <1>1, <1>3, <1>4 DEF StreamInv, RunningOK, StoppedOK, RatesOK

\* Every step of start, stop, the setters and the radio keeps the stream
\* following the block, and the rates where it is off.
LEMMA StreamNext == Inv /\ StreamInv /\ [Next]_vars => StreamInv'
<1> SUFFICES ASSUME Inv, StreamInv, [Next]_vars PROVE StreamInv'
  OBVIOUS
<1> DEFINE Quiet == RatesQuiet(line, radio.on)
<1>0. RunningOK /\ StoppedOK /\ RatesOK /\ Footprint /\ ControlOK
  BY FootprintLemma DEF StreamInv, Inv
<1>1. CASE Radio
  <2>1. UNCHANGED <<bpc, gpc, m_connected, raced, unheard>> /\ (RadioAnswers \/ RadioObeys)
    BY <1>1 DEF Radio
  <2>2. late' = late
    BY <2>1 DEF RadioAnswers, RadioObeys, Reply
  <2>3. (WillBe(TRUE) => WillBe(TRUE)') /\ (WillBe(FALSE) => WillBe(FALSE)') /\ (Quiet => Quiet')
    BY <2>1, CarriedOut
  <2> HIDE DEF Quiet
  <2>4. RunningOK' /\ StoppedOK'
    BY <1>0, <2>1, <2>2, <2>3 DEF RunningOK, StoppedOK
  <2>5. RatesOK'
    BY <1>0, <2>1, <2>3 DEF RatesOK, Quiet
  <2> QED BY <2>4, <2>5 DEF StreamInv
\* The steps that neither send nor carry out anything.
<1>2. ASSUME UNCHANGED <<line, radio, m_connected, raced, unheard>>,
             late \/ gpc \in ChangingRate => late' \/ gpc' \in ChangingRate,
             bpc' = "running" /\ m_connected => bpc = "running",
             bpc' \in {"stopped", "stopping"} /\ m_connected => bpc \in {"stopped", "stopping"},
             gpc' = "rate" => gpc = "rate"
      PROVE  StreamInv'
  <2>1. (WillBe(TRUE) => WillBe(TRUE)') /\ (WillBe(FALSE) => WillBe(FALSE)') /\ (Quiet => Quiet')
    BY <1>2 DEF WillBe
  <2>2. RunningOK' /\ StoppedOK' /\ RatesOK'
    BY <1>0, <1>2, <2>1 DEF RunningOK, StoppedOK, RatesOK
  <2> QED BY <2>2 DEF StreamInv
<1>3. CASE Block /\ UNCHANGED line
  <2>1. UNCHANGED <<radio, m_connected, gpc, late>>
    BY <1>3 DEF Block, start, Reset, DeleteOld, StartUpdates, EnableStream, stop,
         StopManager,
       BlockOnly
  <2>2. ~EnableStream
    <3> SUFFICES ASSUME EnableStream PROVE FALSE
      OBVIOUS
    <3>1. line' = line \o <<Cmd("OPM", 1)>> /\ line \in Seq(Mnemonics)
      BY DEF EnableStream, Send, Inv
    <3>2. Len(line') = Len(line) + 1 /\ Len(line) \in Nat
      BY <3>1
    <3> QED BY <1>3, <3>2
  <2>3. stop => ~m_connected
    <3> SUFFICES ASSUME stop, m_connected PROVE FALSE
      OBVIOUS
    <3>1. line' = line \o <<Cmd("OPM", 0)>> /\ line \in Seq(Mnemonics)
      BY DEF stop, Send, Inv
    <3>2. Len(line') = Len(line) + 1 /\ Len(line) \in Nat
      BY <3>1
    <3> QED BY <1>3, <3>2
  <2>4. UNCHANGED <<raced, unheard>>
    BY <1>3, <2>2 DEF Block, start, Reset, DeleteOld, StartUpdates, stop, StopManager
  <2>5. /\ bpc' = "running" /\ m_connected => bpc = "running"
        /\ bpc' \in {"stopped", "stopping"} /\ m_connected => bpc \in {"stopped", "stopping"}
    BY <1>3, <2>2, <2>3 DEF Block, start, Reset, DeleteOld, StartUpdates, StopManager,
         Updating
  <2> QED BY <1>2, <1>3, <2>1, <2>4, <2>5
<1>4. CASE StreamIdAnswered \/ FindManager \/ ChannelUpdates \/ UseFreed \/ RateAnswered \/ Throw
  <2>1. UNCHANGED <<radio, m_connected, bpc, line, raced, unheard>>
    BY <1>4 DEF StreamIdAnswered, FindManager, ChannelUpdates, UseFreed, RateAnswered,
         Throw, GuiOnly
  <2>2. gpc' = "rate" => gpc = "rate"
    BY <1>4 DEF StreamIdAnswered, FindManager, ChannelUpdates, UseFreed, RateAnswered,
         Throw, Updating
  <2>3. late => late'
    BY <1>4 DEF StreamIdAnswered, FindManager, ChannelUpdates, UseFreed, RateAnswered,
         Throw,
       Receive, ReceiveThrows
  <2>4. gpc \in ChangingRate => late' \/ gpc' \in ChangingRate
    BY <1>4 DEF StreamIdAnswered, FindManager, ChannelUpdates, UseFreed, RateAnswered,
         Throw,
       ReceiveThrows, Updating, ChangingRate
  <2> QED BY <1>2, <2>1, <2>2, <2>3, <2>4
<1>5. CASE (\E n \in Managers : Manager(n)) \/ UNCHANGED vars
  <2>1. UNCHANGED <<line, radio, m_connected, raced, unheard, bpc, gpc, late>>
    BY <1>5 DEF Manager, Bind, handle_update, UpdateHandled, InManager, vars
  <2> QED BY <1>2, <2>1
\* The steps that send.
<1>6. CASE EnableStream
  <2>1. /\ line' = line \o <<Cmd("OPM", 1)>> /\ bpc = "stream" /\ bpc' = "running"
        /\ UNCHANGED <<radio, gpc, late, m_connected>>
        /\ raced' = (raced \/ gpc \in ChangingRate)
    BY <1>6 DEF EnableStream, BlockOnly, Send
  <2>2. m_connected
    BY <1>0, <2>1 DEF ControlOK, Starting
  <2>3. WillBe(TRUE)' /\ (Quiet => Quiet')
    BY <2>1, Sent, SentMnemonics DEF Cmd, IsRate
  <2>4. gpc' = "rate" => raced'
    BY <2>1 DEF ChangingRate
  <2> HIDE DEF Quiet
  <2>5. RunningOK' /\ StoppedOK'
    BY <2>1, <2>2, <2>3 DEF RunningOK, StoppedOK
  <2>6. RatesOK'
    BY <1>0, <2>1, <2>3, <2>4 DEF RatesOK, Quiet
  <2> QED BY <2>5, <2>6 DEF StreamInv
<1>7. CASE stop /\ m_connected
  <2>1. /\ line' = line \o <<Cmd("OPM", 0)>> /\ bpc' = "stopping"
        /\ UNCHANGED <<radio, gpc, late, m_connected, raced>>
    BY <1>7 DEF stop, BlockOnly, Send
  <2>2. WillBe(FALSE)' /\ (Quiet => Quiet')
    BY <2>1, Sent, SentMnemonics DEF Cmd, IsRate
  <2> HIDE DEF Quiet
  <2>3. RunningOK' /\ StoppedOK'
    BY <2>1, <2>2 DEF RunningOK, StoppedOK
  <2>4. RatesOK'
    BY <1>0, <2>1, <2>2 DEF RatesOK, Quiet
  <2> QED BY <2>3, <2>4 DEF StreamInv
<1>8. ASSUME NEW sr \in Requested, set_sample_rate(sr) PROVE StreamInv'
  <2>1. /\ line' = line \o <<Cmd("OPM", 0)>> /\ gpc' = "rate"
        /\ UNCHANGED <<radio, bpc, late, m_connected, raced>>
    BY <1>8 DEF set_sample_rate, GuiOnly, Send
  <2>2. WillBe(FALSE)' /\ (Quiet => Quiet')
    BY <2>1, Sent, SentMnemonics DEF Cmd, IsRate
  <2> HIDE DEF Quiet
  <2>3. RunningOK' /\ StoppedOK'
    BY <2>1, <2>2 DEF RunningOK, StoppedOK, ChangingRate
  <2>4. RatesOK'
    BY <1>0, <2>1, <2>2 DEF RatesOK, Quiet
  <2> QED BY <2>3, <2>4 DEF StreamInv
<1>9. CASE RateOn
  <2>1. /\ line' = line \o <<Cmd("OPM", 1)>> /\ gpc = "rate_on" /\ gpc' = "idle"
        /\ UNCHANGED <<radio, bpc, m_connected, raced>>
        /\ unheard' = (unheard \/ bpc \in {"stopped", "stopping"})
    BY <1>9 DEF RateOn, GuiOnly, Send
  <2>2. WillBe(TRUE)' /\ (Quiet => Quiet')
    BY <2>1, Sent, SentMnemonics DEF Cmd, IsRate
  <2>3. m_connected
    BY <1>0, <2>1 DEF ControlOK, ChangingRate
  <2> HIDE DEF Quiet
  <2>4. RunningOK' /\ StoppedOK'
    BY <2>1, <2>2, <2>3 DEF RunningOK, StoppedOK
  <2>5. RatesOK'
    BY <1>0, <2>1, <2>2 DEF RatesOK, Quiet
  <2> QED BY <2>4, <2>5 DEF StreamInv
<1>10. CASE SendSetting
  <2>1. /\ line' = line \o <<Cmd("setting", 0)>>
        /\ UNCHANGED <<radio, bpc, gpc, m_connected, raced, late, unheard>>
    BY <1>10 DEF SendSetting, GuiOnly, Send
  <2>2. (WillBe(TRUE) => WillBe(TRUE)') /\ (WillBe(FALSE) => WillBe(FALSE)') /\ (Quiet => Quiet')
    BY <2>1, Sent, SentMnemonics DEF Cmd, IsRate
  <2> HIDE DEF Quiet
  <2>3. RunningOK' /\ StoppedOK'
    BY <1>0, <2>1, <2>2 DEF RunningOK, StoppedOK
  <2>4. RatesOK'
    BY <1>0, <2>1, <2>2 DEF RatesOK, Quiet
  <2> QED BY <2>3, <2>4 DEF StreamInv
<1>11. ASSUME NEW c \in ChannelsAsked, set_channel(c) PROVE StreamInv'
  <2>1. /\ gpc = "idle" /\ gpc' \in {"stream_id", "manager?"}
        /\ UNCHANGED <<radio, bpc, m_connected, raced, late, unheard>>
    BY <1>11 DEF set_channel, Setter, GuiOnly
  <2>2. CASE line' = line \o <<Cmd("RCH", c), Query("VID")>>
    <3>1. Cmd("RCH", c) \in Mnemonics /\ Query("VID") \in Mnemonics
      BY SentMnemonics, SrcAssumption
    <3>2. (WillBe(TRUE) => WillBe(TRUE)') /\ (WillBe(FALSE) => WillBe(FALSE)') /\ (Quiet => Quiet')
      BY <2>1, <2>2, <3>1, SentTwo DEF Cmd, IsRate, Query
    <3> HIDE DEF Quiet
    <3>3. RunningOK' /\ StoppedOK'
      BY <1>0, <2>1, <3>2 DEF RunningOK, StoppedOK, ChangingRate
    <3>4. RatesOK'
      BY <1>0, <2>1, <3>2 DEF RatesOK, Quiet
    <3> QED BY <3>3, <3>4 DEF StreamInv
  <2>3. CASE UNCHANGED line
    BY <1>2, <2>1, <2>3 DEF ChangingRate
  <2> QED BY <1>11, <2>2, <2>3 DEF set_channel, Send
<1>12. CASE SendRate
  <2>1. gpc = "rate" /\ gpc' \in {"rate_on", "rate_answer"}
        /\ UNCHANGED <<radio, bpc, m_connected, raced, late, unheard>>
    BY <1>12 DEF SendRate, GuiOnly
  <2>2. PICK r \in MIN_SR_MHZ .. MAX_SR_MHZ :
          \/ line' = line \o <<Cmd("SPR", r)>>
          \/ line' = line \o <<Cmd("SPR", r), Query("SPR")>>
    BY <1>12, RateSent
  <2>3. Cmd("SPR", r) \in Mnemonics /\ Query("SPR") \in Mnemonics
    BY SentMnemonics
  <2>4. /\ Cmd("SPR", r).name # "OPM" /\ Query("SPR").name # "OPM" /\ ~IsRate(Query("SPR"))
    BY DEF Cmd, Query, IsRate, IsQuery
  <2>5. /\ WillBe(TRUE) => WillBe(TRUE)'
        /\ WillBe(FALSE) => WillBe(FALSE)'
        /\ Quiet /\ WillBe(FALSE) => Quiet'
    <3>1. CASE line' = line \o <<Cmd("SPR", r)>>
      BY <2>1, <2>3, <2>4, <3>1, Sent
    <3>2. CASE line' = line \o <<Cmd("SPR", r), Query("SPR")>>
      BY <2>1, <2>3, <2>4, <3>2, SentTwo
    <3> QED BY <2>2, <3>1, <3>2
  <2> HIDE DEF Quiet
  <2>6. RunningOK' /\ StoppedOK'
    BY <1>0, <2>1, <2>5 DEF RunningOK, StoppedOK, ChangingRate
  <2>7. RatesOK'
    BY <1>0, <2>1, <2>5 DEF RatesOK, Quiet
  <2> QED BY <2>6, <2>7 DEF StreamInv
<1>13. CASE stop
  <2>1. ~m_connected => UNCHANGED line
    BY <1>13 DEF stop
  <2> QED BY <1>3, <1>7, <1>13, <2>1 DEF Block
<1>14. CASE Block
  <2>1. start \/ Reset \/ DeleteOld \/ StartUpdates \/ StopManager => UNCHANGED line
    BY DEF start, Reset, DeleteOld, StartUpdates, StopManager
  <2> QED BY <1>3, <1>6, <1>13, <1>14, <2>1 DEF Block
<1>15. CASE Gui
  BY <1>4, <1>8, <1>9, <1>10, <1>11, <1>12, <1>15 DEF Gui
<1> QED BY <1>1, <1>5, <1>14, <1>15 DEF Next

\* StreamFollowsBlock holds of every behaviour: whatever order start, stop and
\* set_sample_rate come in, a running block ends up with its stream and a stopped one
\* without, but for what the property excepts.
THEOREM StreamFollows == Spec => []StreamFollowsBlock
<1>1. Spec => [](Inv /\ StreamInv)
  BY Invariant, StreamInit, StreamNext, PTL DEF Spec
<1>2. Inv /\ StreamInv => StreamFollowsBlock
  <2> SUFFICES ASSUME Inv, StreamInv PROVE StreamFollowsBlock
    OBVIOUS
  <2>1. ASSUME line = <<>> PROVE (WillBe(TRUE) => radio.on) /\ (WillBe(FALSE) => ~radio.on)
    BY <2>1 DEF WillBe, After
  <2>2. gpc = "idle" => gpc \notin ChangingRate
    BY DEF ChangingRate
  <2> QED BY <2>1, <2>2 DEF StreamFollowsBlock, StreamInv, RunningOK, StoppedOK
<1> QED BY <1>1, <1>2, PTL

\* RateChangedQuietly holds of every behaviour: OPM 0 is carried out before the rate of
\* set_sample_rate is, and nothing but start can come between.
THEOREM RateChangesQuietly == Spec => RateChangedQuietly
<1>1. Spec => [](Inv /\ StreamInv)
  BY Invariant, StreamInit, StreamNext, PTL DEF Spec
<1>2. Inv /\ StreamInv /\ [Next]_vars => [radio'.rate # radio.rate => ~radio.on \/ raced]_vars
  <2> SUFFICES ASSUME Inv, StreamInv, [Next]_vars, radio'.rate # radio.rate, ~raced
               PROVE  ~radio.on
    OBVIOUS
  <2>1. RadioObeys
    BY FootprintLemma DEF Footprint
  <2>2. line # <<>> /\ line \in Seq(Mnemonics) /\ RadioOK /\ RatesOK
    BY <2>1 DEF RadioObeys, Inv, StreamInv
  <2>3. IsRate(Head(line))
    BY <2>1, <2>2 DEF RadioObeys, RadioOK, IsRate
  <2>4. 1 \in 1 .. Len(line) /\ Head(line) = line[1]
    BY <2>2
  <2>5. After(line, 1 - 1, radio.on, FALSE)
    BY <2>2, <2>3, <2>4, Zenon DEF RatesOK, RatesQuiet
  <2> QED BY <2>5 DEF After
<1> QED BY <1>1, <1>2, PTL DEF Spec, RateChangedQuietly

-----------------------------------------------------------------------------
\* The radio answers the one query there is when it comes to it.
LEMMA QueriesTail ==
  ASSUME NEW l \in Seq(Mnemonics), l # <<>>, NEW name
  PROVE  /\ NoQuery(l) => NoQuery(Tail(l)) /\ ~IsQuery(Head(l))
         /\ OneQuery(l, name) /\ ~IsQuery(Head(l)) => OneQuery(Tail(l), name)
         /\ OneQuery(l, name) /\ IsQuery(Head(l)) => Head(l) = Query(name) /\ NoQuery(Tail(l))
<1>1. /\ Len(Tail(l)) = Len(l) - 1 /\ Len(l) \in Nat /\ Len(l) >= 1
      /\ \A i \in 1 .. Len(l) - 1 : Tail(l)[i] = l[i + 1]
      /\ Head(l) = l[1]
  OBVIOUS
<1>2. NoQuery(l) => NoQuery(Tail(l)) /\ ~IsQuery(Head(l))
  BY <1>1 DEF NoQuery
<1>3. ASSUME NEW i \in 1 .. Len(l), l[i] = Query(name),
             \A j \in 1 .. Len(l) : j # i => ~IsQuery(l[j])
      PROVE  /\ ~IsQuery(Head(l)) => OneQuery(Tail(l), name)
             /\ IsQuery(Head(l)) => Head(l) = Query(name) /\ NoQuery(Tail(l))
  <2>1. IsQuery(l[i])
    BY <1>3 DEF IsQuery, Query, Cmd
  <2>2. CASE i = 1
    BY <1>1, <1>3, <2>1, <2>2 DEF NoQuery
  <2>3. CASE i # 1
    <3>1. i - 1 \in 1 .. Len(Tail(l)) /\ Tail(l)[i - 1] = Query(name)
      BY <1>1, <1>3, <2>3
    <3>2. \A j \in 1 .. Len(Tail(l)) : j # i - 1 => ~IsQuery(Tail(l)[j])
      BY <1>1, <1>3
    <3>3. ~IsQuery(Head(l))
      BY <1>1, <1>3, <2>3
    <3> QED BY <3>1, <3>2, <3>3 DEF OneQuery
  <2> QED BY <2>2, <2>3
<1>4. OneQuery(l, name) => \E i \in 1 .. Len(l) :
        l[i] = Query(name) /\ \A j \in 1 .. Len(l) : j # i => ~IsQuery(l[j])
  BY DEF OneQuery
<1> QED BY <1>2, <1>3, <1>4

\* A command that is sent asks nothing, and a query sent where none is open is
\* the only one.
LEMMA QueriesAppend ==
  ASSUME NEW l \in Seq(Mnemonics), NEW m \in Mnemonics, NEW name
  PROVE  /\ NoQuery(l) /\ ~IsQuery(m) => NoQuery(Append(l, m))
         /\ OneQuery(l, name) /\ ~IsQuery(m) => OneQuery(Append(l, m), name)
         /\ NoQuery(l) /\ m = Query(name) => OneQuery(Append(l, m), name)
<1> DEFINE a == Append(l, m)
<1>1. /\ Len(a) = Len(l) + 1 /\ a[Len(l) + 1] = m /\ Len(l) \in Nat
      /\ \A i \in 1 .. Len(l) : a[i] = l[i]
  OBVIOUS
<1> HIDE DEF a
<1>2. NoQuery(l) /\ ~IsQuery(m) => NoQuery(a)
  BY <1>1 DEF NoQuery
<1>3. ASSUME NEW i \in 1 .. Len(l), l[i] = Query(name), ~IsQuery(m),
             \A j \in 1 .. Len(l) : j # i => ~IsQuery(l[j])
      PROVE  OneQuery(a, name)
  <2>1. i \in 1 .. Len(a) /\ a[i] = Query(name)
    BY <1>1, <1>3
  <2>2. \A j \in 1 .. Len(a) : j # i => ~IsQuery(a[j])
    BY <1>1, <1>3
  <2> QED BY <2>1, <2>2 DEF OneQuery
<1>4. OneQuery(l, name) => \E i \in 1 .. Len(l) :
        l[i] = Query(name) /\ \A j \in 1 .. Len(l) : j # i => ~IsQuery(l[j])
  BY DEF OneQuery
<1>5. NoQuery(l) /\ m = Query(name) => OneQuery(a, name)
  <2> SUFFICES ASSUME NoQuery(l), m = Query(name) PROVE OneQuery(a, name)
    OBVIOUS
  <2>1. Len(l) + 1 \in 1 .. Len(a) /\ a[Len(l) + 1] = Query(name)
    BY <1>1
  <2>2. \A j \in 1 .. Len(a) : j # Len(l) + 1 => ~IsQuery(a[j])
    BY <1>1 DEF NoQuery
  <2> QED BY <2>1, <2>2 DEF OneQuery
<1> QED BY <1>2, <1>3, <1>4, <1>5 DEF a

\* A step that leaves the answers and where the GUI is, and whose mnemonics ask nothing.
LEMMA SessionKept ==
  ASSUME SessionOK, UNCHANGED <<answers, gpc, asked>>,
         NoQuery(line) => NoQuery(line'),
         OneQuery(line, "VID") => OneQuery(line', "VID"),
         OneQuery(line, "SPR") => OneQuery(line', "SPR")
  PROVE  SessionOK'
<1>1. Answered({1})' = Answered({1}) /\ Answered(Values)' = Answered(Values)
  BY DEF Answered
<1>2. (Asked("VID", {1}) => Asked("VID", {1})') /\ (Asked("SPR", Values) => Asked("SPR", Values)')
  BY <1>1 DEF Asked
<1> QED BY <1>2 DEF SessionOK

\* Nothing is asked by the constructor.
LEMMA SessionInit == Init => SessionInv
<1> SUFFICES ASSUME Init PROVE SessionInv
  OBVIOUS
<1>1. /\ gpc = "idle" /\ answers = <<>> /\ m_active_channels = -1 /\ ~asked
      /\ line = <<>> \/ line = <<Cmd("SIP", 0), Cmd("END", 0)>>
  BY DEF Init
<1>2. NoQuery(line)
  BY <1>1 DEF NoQuery, IsQuery, Cmd
<1> QED BY <1>1, <1>2 DEF SessionInv, SessionOK, AskedOK

\* The one answer there is has been read.
LEMMA AnswerRead ==
  ASSUME NEW vs, Answered(vs), NEW v, Receive(v), ~late'
  PROVE  v \in vs /\ answers' = <<>> /\ ~late
<1>1. PICK u \in vs :
        \/ answers = <<[value |-> u, more |-> FALSE]>>
        \/ answers = <<[value |-> 0, more |-> TRUE], [value |-> u, more |-> FALSE]>>
  BY DEF Answered
<1>2. PICK n \in 1 .. Len(answers) :
        /\ v = Head(answers).value
        /\ answers' = SubSeq(answers, n + 1, Len(answers))
        /\ late' = (late \/ Head(answers).more)
  BY DEF Receive
<1>3. CASE answers = <<[value |-> u, more |-> FALSE]>>
  <2>1. /\ Head(answers).value = u /\ Len(answers) = 1
        /\ answers \in Seq({[value |-> u, more |-> FALSE]})
    BY <1>3
  <2>2. n = 1
    BY <2>1
  <2>3. SubSeq(answers, 1 + 1, 1) = <<>>
    BY <2>1
  <2> QED BY <1>2, <2>1, <2>2, <2>3
<1>4. CASE answers = <<[value |-> 0, more |-> TRUE], [value |-> u, more |-> FALSE]>>
  <2>1. Head(answers).more = TRUE
    BY <1>4
  <2> QED BY <1>2, <2>1
<1> QED BY <1>1, <1>3, <1>4

\* As long as no answer comes late, a setter reads the answer to its own query,
\* and set_channel knows what the user asked for.
LEMMA SessionNext == Inv /\ SessionInv /\ [Next]_vars => SessionInv'
<1> SUFFICES ASSUME Inv, SessionInv, [Next]_vars, ~late' PROVE SessionOK' /\ AskedOK'
  BY DEF SessionInv
<1> USE SrcAssumption
<1>0. Footprint /\ line \in Seq(Mnemonics) /\ RadioOK
  BY FootprintLemma DEF Inv
<1>1. ~late
  <2>1. UNCHANGED late \/ RadioAnswers \/ StreamIdAnswered \/ RateAnswered \/ Throw
    BY <1>0 DEF Footprint
  <2> QED BY <2>1 DEF RadioAnswers, Reply, StreamIdAnswered, RateAnswered, Throw, Receive,
            ReceiveThrows
<1>2. SessionOK /\ AskedOK
  BY <1>1 DEF SessionInv
<1>3. ASSUME UNCHANGED <<answers, gpc, asked, m_connected, m_active_channels>>,
             line' = line \/ \E m \in Mnemonics : ~IsQuery(m) /\ line' = line \o <<m>>
      PROVE  SessionOK' /\ AskedOK'
  <2>1. /\ NoQuery(line) => NoQuery(line')
        /\ OneQuery(line, "VID") => OneQuery(line', "VID")
        /\ OneQuery(line, "SPR") => OneQuery(line', "SPR")
    <3>1. CASE line' = line
      BY <3>1
    <3>2. ASSUME NEW m \in Mnemonics, ~IsQuery(m), line' = line \o <<m>>
          PROVE  /\ NoQuery(line) => NoQuery(line')
                 /\ OneQuery(line, "VID") => OneQuery(line', "VID")
                 /\ OneQuery(line, "SPR") => OneQuery(line', "SPR")
      <4>1. line' = Append(line, m)
        BY <1>0, <3>2
      <4> QED BY <1>0, <3>2, <4>1, QueriesAppend
    <3> QED BY <1>3, <3>1, <3>2
  <2>2. SessionOK'
    BY <1>2, <1>3, <2>1, SessionKept
  <2>3. AskedOK'
    BY <1>2, <1>3 DEF AskedOK
  <2> QED BY <2>2, <2>3
\* The radio.
<1>4. CASE Radio
  <2>1. UNCHANGED <<gpc, asked, m_connected, m_active_channels>> /\ (RadioAnswers \/ RadioObeys)
    BY <1>4 DEF Radio
  <2>2. AskedOK'
    BY <1>2, <2>1 DEF AskedOK
  <2>3. line # <<>> /\ line' = Tail(line)
    BY <2>1 DEF RadioAnswers, RadioObeys, Reply
  <2>4. CASE RadioObeys
    <3>1. ~IsQuery(Head(line)) /\ UNCHANGED answers
      BY <2>4 DEF RadioObeys
    <3>2. /\ NoQuery(line) => NoQuery(line')
          /\ OneQuery(line, "VID") => OneQuery(line', "VID")
          /\ OneQuery(line, "SPR") => OneQuery(line', "SPR")
      BY <1>0, <2>3, <3>1, QueriesTail
    <3>3. SessionOK'
      BY <1>2, <2>1, <3>1, <3>2, SessionKept
    <3> QED BY <2>2, <3>3
  <2>5. CASE RadioAnswers
    <3>1. /\ IsQuery(Head(line))
          /\ LET v == Answer(Head(line).name) IN
             \/ answers' = Append(answers, [value |-> v, more |-> FALSE])
             \/ answers' = answers \o <<[value |-> 0, more |-> TRUE], [value |-> v, more |-> FALSE]>>
      BY <2>5 DEF RadioAnswers, Reply
    <3>2. ~NoQuery(line)
      BY <1>0, <2>3, <3>1, QueriesTail
    <3>3. ASSUME answers = <<>>, NEW name, OneQuery(line, name), NEW vs, Answer(name) \in vs
          PROVE  Answered(vs)' /\ NoQuery(line')
      <4>1. Head(line) = Query(name) /\ NoQuery(line')
        BY <1>0, <2>3, <3>1, <3>3, QueriesTail
      <4>2. Head(line).name = name
        BY <4>1 DEF Query, Cmd
      <4>3. \/ answers' = <<[value |-> Answer(name), more |-> FALSE]>>
            \/ answers' = <<[value |-> 0, more |-> TRUE], [value |-> Answer(name), more |-> FALSE]>>
        <5>1. CASE answers' = Append(<<>>, [value |-> Answer(name), more |-> FALSE])
          BY <5>1
        <5>2. CASE answers' = <<>> \o <<[value |-> 0, more |-> TRUE],
                                        [value |-> Answer(name), more |-> FALSE]>>
          BY <5>2
        <5> QED BY <3>1, <3>3, <4>2, <5>1, <5>2
      <4> QED BY <3>3, <4>1, <4>3 DEF Answered
    <3>4. Answer("VID") \in {1} /\ Answer("SPR") \in Values
      BY <1>0 DEF Answer, Values, RadioOK
    <3>5. CASE gpc = "stream_id"
      <4>1. answers = <<>> /\ OneQuery(line, "VID") /\ asked
        BY <1>2, <3>2, <3>5 DEF SessionOK, Asked
      <4>2. Asked("VID", {1})'
        BY <3>3, <3>4, <4>1 DEF Asked
      <4> QED BY <2>1, <2>2, <3>5, <4>1, <4>2 DEF SessionOK
    <3>6. CASE gpc = "rate_answer"
      <4>1. answers = <<>> /\ OneQuery(line, "SPR")
        BY <1>2, <3>2, <3>6 DEF SessionOK, Asked
      <4>2. Asked("SPR", Values)'
        BY <3>3, <3>4, <4>1 DEF Asked
      <4> QED BY <2>1, <2>2, <3>6, <4>2 DEF SessionOK
    <3>7. gpc \in {"stream_id", "rate_answer"}
      BY <1>2, <3>2 DEF SessionOK
    <3> QED BY <3>5, <3>6, <3>7
  <2> QED BY <2>1, <2>4, <2>5
<1>5. CASE Block
  <2>1. UNCHANGED <<answers, gpc, asked, m_connected, m_active_channels>>
    BY <1>5 DEF Block, start, Reset, DeleteOld, StartUpdates, EnableStream, stop,
         StopManager,
       BlockOnly
  <2>2. line' = line \/ line' = line \o <<Cmd("OPM", 1)>> \/ line' = line \o <<Cmd("OPM", 0)>>
    BY <1>5 DEF Block, start, Reset, DeleteOld, StartUpdates, EnableStream, stop,
         StopManager, Send
  <2>3. /\ Cmd("OPM", 1) \in Mnemonics /\ Cmd("OPM", 0) \in Mnemonics
        /\ ~IsQuery(Cmd("OPM", 1)) /\ ~IsQuery(Cmd("OPM", 0))
    BY SentMnemonics DEF IsQuery, Cmd
  <2> QED BY <1>3, <2>1, <2>2, <2>3
<1>6. CASE (\E n \in Managers : Manager(n)) \/ UNCHANGED vars
  <2>1. UNCHANGED <<answers, gpc, asked, m_connected, m_active_channels, line>>
    BY <1>6 DEF Manager, Bind, handle_update, UpdateHandled, InManager, vars
  <2> QED BY <1>3, <2>1
\* The GUI.
<1>7. ASSUME gpc \notin {"stream_id", "rate_answer"}, gpc' \notin {"stream_id", "rate_answer"},
             UNCHANGED <<answers, asked, m_connected, m_active_channels>>,
             line' = line \/ \E m \in Mnemonics : ~IsQuery(m) /\ line' = line \o <<m>>
      PROVE  SessionOK' /\ AskedOK'
  <2>1. answers = <<>> /\ NoQuery(line)
    BY <1>2, <1>7 DEF SessionOK
  <2>2. NoQuery(line')
    <3>1. ASSUME NEW m \in Mnemonics, ~IsQuery(m), line' = line \o <<m>>
          PROVE  NoQuery(line')
      <4>1. line' = Append(line, m)
        BY <1>0, <3>1
      <4> QED BY <1>0, <2>1, <3>1, <4>1, QueriesAppend
    <3> QED BY <1>7, <2>1, <3>1
  <2>3. SessionOK'
    BY <1>7, <2>1, <2>2 DEF SessionOK
  <2>4. AskedOK'
    BY <1>2, <1>7 DEF AskedOK
  <2> QED BY <2>3, <2>4
<1>8. CASE FindManager \/ ChannelUpdates \/ UseFreed
  <2>1. gpc \notin {"stream_id", "rate_answer"} /\ gpc' \notin {"stream_id", "rate_answer"}
    BY <1>8 DEF FindManager, ChannelUpdates, UseFreed, Updating
  <2>2. UNCHANGED <<answers, asked, m_connected, m_active_channels, line>>
    BY <1>8 DEF FindManager, ChannelUpdates, UseFreed, GuiOnly
  <2> QED BY <1>7, <2>1, <2>2
<1>9. CASE SendSetting \/ RateOn \/ \E sr \in Requested : set_sample_rate(sr)
  <2>1. gpc \notin {"stream_id", "rate_answer"} /\ gpc' \notin {"stream_id", "rate_answer"}
    BY <1>9 DEF SendSetting, RateOn, set_sample_rate, Setter
  <2>2. UNCHANGED <<answers, asked, m_connected, m_active_channels>>
    BY <1>9 DEF SendSetting, RateOn, set_sample_rate, GuiOnly
  <2>3. \/ line' = line \o <<Cmd("setting", 0)>> \/ line' = line \o <<Cmd("OPM", 1)>>
        \/ line' = line \o <<Cmd("OPM", 0)>>
    BY <1>9 DEF SendSetting, RateOn, set_sample_rate, Send
  <2>4. \A m \in {Cmd("OPM", 1), Cmd("OPM", 0), Cmd("setting", 0)} : m \in Mnemonics /\ ~IsQuery(m)
    BY SentMnemonics DEF IsQuery, Cmd
  <2>5. \E m \in Mnemonics : ~IsQuery(m) /\ line' = line \o <<m>>
    BY <2>3, <2>4
  <2> QED BY <1>7, <2>1, <2>2, <2>5
<1>10. CASE SendRate
  <2>1. gpc = "rate" /\ UNCHANGED <<answers, asked, m_connected, m_active_channels>>
    BY <1>10 DEF SendRate, GuiOnly
  <2>2. PICK r \in MIN_SR_MHZ .. MAX_SR_MHZ :
          \/ gpc' = "rate_on" /\ line' = line \o <<Cmd("SPR", r)>>
          \/ gpc' = "rate_answer" /\ line' = line \o <<Cmd("SPR", r), Query("SPR")>>
    BY <1>10, RateSent
  <2>3. Cmd("SPR", r) \in Mnemonics /\ Query("SPR") \in Mnemonics /\ ~IsQuery(Cmd("SPR", r))
    BY SentMnemonics DEF IsQuery, Cmd
  <2>4. CASE gpc' = "rate_on" /\ line' = line \o <<Cmd("SPR", r)>>
    BY <1>7, <2>1, <2>3, <2>4
  <2>5. CASE gpc' = "rate_answer" /\ line' = line \o <<Cmd("SPR", r), Query("SPR")>>
    <3> DEFINE l == Append(line, Cmd("SPR", r))
    <3>1. l \in Seq(Mnemonics) /\ line' = Append(l, Query("SPR"))
      BY <1>0, <2>3, <2>5
    <3>2. answers = <<>> /\ NoQuery(line)
      BY <1>2, <2>1 DEF SessionOK
    <3>3. NoQuery(l)
      BY <1>0, <2>3, <3>2, QueriesAppend
    <3> HIDE DEF l
    <3>4. OneQuery(line', "SPR")
      BY <2>3, <3>1, <3>3, QueriesAppend
    <3>5. SessionOK'
      BY <2>1, <2>5, <3>2, <3>4 DEF SessionOK, Asked
    <3>6. AskedOK'
      BY <1>2, <2>1 DEF AskedOK
    <3> QED BY <3>5, <3>6
  <2> QED BY <2>2, <2>4, <2>5
<1>11. ASSUME NEW c \in ChannelsAsked, set_channel(c) PROVE SessionOK' /\ AskedOK'
  <2>1. gpc = "idle" /\ asked' = (c = 1) /\ UNCHANGED <<answers, m_connected>>
    BY <1>11 DEF set_channel, Setter, GuiOnly
  <2>2. answers = <<>> /\ NoQuery(line)
    BY <1>2, <2>1 DEF SessionOK
  <2>3. CASE /\ c \in 1 .. NUM_OUTPUT_STREAMS /\ gpc' = "stream_id"
             /\ line' = line \o <<Cmd("RCH", c), Query("VID")>>
    <3> DEFINE l == Append(line, Cmd("RCH", c))
    <3>0. c = 1
      BY <2>3 DEF NUM_OUTPUT_STREAMS
    <3>1. Cmd("RCH", c) \in Mnemonics /\ Query("VID") \in Mnemonics /\ ~IsQuery(Cmd("RCH", c))
      BY <3>0, SentMnemonics DEF IsQuery, Cmd
    <3>2. l \in Seq(Mnemonics) /\ line' = Append(l, Query("VID"))
      BY <1>0, <2>3, <3>1
    <3>3. NoQuery(l)
      BY <1>0, <2>2, <3>1, QueriesAppend
    <3> HIDE DEF l
    <3>4. OneQuery(line', "VID")
      BY <3>1, <3>2, <3>3, QueriesAppend
    <3>5. SessionOK'
      BY <2>1, <2>2, <2>3, <3>0, <3>4 DEF SessionOK, Asked
    <3>6. AskedOK'
      BY <2>3 DEF AskedOK
    <3> QED BY <3>5, <3>6
  <2>4. CASE /\ ~(m_connected /\ c \in 1 .. NUM_OUTPUT_STREAMS) /\ gpc' = "manager?"
             /\ UNCHANGED line /\ m_active_channels' = -1
    <3>1. SessionOK'
      BY <2>1, <2>2, <2>4 DEF SessionOK
    <3>2. m_connected => c # 1
      BY <2>4 DEF NUM_OUTPUT_STREAMS
    <3>3. m_active_channels' # 1
      BY <2>4
    <3>4. AskedOK'
      BY <2>1, <3>2, <3>3 DEF AskedOK
    <3> QED BY <3>1, <3>4
  <2> QED BY <1>11, <2>3, <2>4 DEF set_channel, Send
<1>12. CASE StreamIdAnswered
  <2>1. PICK v \in Values : Receive(v) /\ m_active_channels' \in IF v = 0 THEN {0, 1} ELSE {v}
    BY <1>12 DEF StreamIdAnswered
  <2>2. gpc = "stream_id" /\ gpc' = "manager?" /\ UNCHANGED <<line, asked, m_connected>>
    BY <1>12 DEF StreamIdAnswered, GuiOnly
  <2>3. asked /\ Asked("VID", {1})
    BY <1>2, <2>2 DEF SessionOK
  <2>4. answers # <<>>
    BY <2>1 DEF Receive
  <2>5. Answered({1}) /\ NoQuery(line)
    BY <2>3, <2>4 DEF Asked
  <2>6. v \in {1} /\ answers' = <<>>
    BY <2>1, <2>5, AnswerRead
  <2>7. m_active_channels' = 1
    BY <2>1, <2>6
  <2> QED BY <2>2, <2>3, <2>5, <2>6, <2>7 DEF SessionOK, AskedOK
<1>13. CASE RateAnswered
  <2>1. PICK v \in Values : Receive(v)
    BY <1>13 DEF RateAnswered
  <2>2. gpc = "rate_answer" /\ gpc' = "rate_on"
        /\ UNCHANGED <<line, asked, m_connected, m_active_channels>>
    BY <1>13 DEF RateAnswered, GuiOnly
  <2>3. Asked("SPR", Values)
    BY <1>2, <2>2 DEF SessionOK
  <2>4. answers # <<>>
    BY <2>1 DEF Receive
  <2>5. Answered(Values) /\ NoQuery(line)
    BY <2>3, <2>4 DEF Asked
  <2>6. answers' = <<>>
    BY <2>1, <2>5, AnswerRead
  <2> QED BY <1>2, <2>2, <2>5, <2>6 DEF SessionOK, AskedOK
<1>14. ~Throw
  BY DEF Throw, ReceiveThrows
<1>15. CASE Gui
  BY <1>8, <1>9, <1>10, <1>11, <1>12, <1>13, <1>14, <1>15 DEF Gui
<1> QED BY <1>4, <1>5, <1>6, <1>15 DEF Next

-----------------------------------------------------------------------------
\* The fields of the last manager that have to do with its tuner are kept.
CurKept ==
  made > 0 => /\ Cur'.m_update_valid_streams = Cur.m_update_valid_streams
              /\ Cur'.serving = Cur.serving
              /\ Cur'.tuner_valid_safe = Cur.tuner_valid_safe
              /\ Cur'.tuner_valid = Cur.tuner_valid

\* Steps that do not touch them, of the block after its update and of others.
LEMMA TunerKept ==
  ASSUME Inv, TunerOK, UNCHANGED <<made, gpc, using, m_active_channels>>, CurKept,
         bpc' = bpc \/ (bpc \in NotStarting /\ bpc' \in NotStarting)
  PROVE  TunerOK'
<1>0. made \in Nat /\ (bpc \in Starting => made >= 1)
  BY DEF Inv, ControlOK
<1>1. LateComer' /\ FlagOK'
  BY DEF TunerOK, LateComer, FlagOK, GuiHere, Updating, NotStarting, CurKept
<1>2. bpc \in {"raise", "await"} => made > 0
  BY <1>0 DEF Starting, Updating
<1>3. Pending' = Pending /\ GuiHere' = GuiHere /\ Tuner' = Tuner
  BY DEF Pending, GuiHere, Tuner
<1>4. BlockUpdate'
  BY <1>2, <1>3 DEF TunerOK, BlockUpdate, NotStarting, CurKept
<1>5. GuiHere => made > 0
  BY <1>0 DEF Inv, ControlOK, GuiHere
<1>6. GuiUpdate'
  BY <1>3, <1>5 DEF TunerOK, GuiUpdate, CurKept
<1> QED BY <1>1, <1>4, <1>6 DEF TunerOK

\* Steps of the GUI outside of update_tuners.
LEMMA TunerElsewhere ==
  ASSUME Inv, TunerOK, UNCHANGED <<made, bpc, managers>>,
         gpc \notin Updating, gpc' \notin Updating,
         gpc' = "manager?" \/ (gpc # "manager?" /\ UNCHANGED m_active_channels)
  PROVE  TunerOK'
<1>1. ~GuiHere /\ ~GuiHere' /\ Cur' = Cur
  BY DEF GuiHere, Cur
<1>2. LateComer' /\ GuiUpdate'
  BY <1>1 DEF LateComer, GuiUpdate
<1>3. FlagOK'
  BY <1>1 DEF TunerOK, FlagOK, Updating
<1>4. BlockUpdate'
  <2>1. CASE gpc' = "manager?"
    BY <2>1 DEF BlockUpdate, Pending
  <2>2. CASE gpc # "manager?" /\ UNCHANGED m_active_channels
    <3>1. ~Pending
      BY <2>2 DEF Pending, Updating
    <3>2. Tuner' = Tuner
      BY <2>2 DEF Tuner
    <3> QED BY <1>1, <3>1, <3>2 DEF TunerOK, BlockUpdate
  <2> QED BY <2>1, <2>2
<1> QED BY <1>2, <1>3, <1>4 DEF TunerOK

\* There is no manager yet.
LEMMA TunerInit == Init => TunerInv
<1> SUFFICES ASSUME Init PROVE TunerOK
  BY DEF TunerInv
<1>1. made = 0 /\ bpc = "stopped" /\ gpc = "idle"
  BY DEF Init
<1> QED BY <1>1 DEF TunerOK, LateComer, FlagOK, BlockUpdate, GuiUpdate, GuiHere, Updating

\* What one step of update_tuners does to the manager.
LEMMA UpdateWrites ==
  ASSUME Inv, NEW n \in Managers, NEW pc, NEW there, UpdateStep(n, pc, there)
  PROVE  /\ \A k \in Managers : k # n => managers'[k] = managers[k]
         /\ managers'[n].serving = managers[n].serving
         /\ managers'[n].tuner_valid = managers[n].tuner_valid
         /\ \/ /\ pc = "clear" /\ there = "match"
               /\ managers'[n].m_update_valid_streams = managers[n].m_update_valid_streams
            \/ /\ pc = "match" /\ there = "raise"
               /\ managers'[n].m_update_valid_streams = managers[n].m_update_valid_streams
               /\ managers'[n].tuner_valid_safe <=> Tuner
            \/ /\ pc = "raise" /\ there = "await"
               /\ managers'[n].m_update_valid_streams
               /\ managers'[n].tuner_valid_safe = managers[n].tuner_valid_safe
            \/ /\ pc = "await" /\ there = "return"
               /\ ~managers[n].m_update_valid_streams /\ managers' = managers
<1>0. ManagersOK
  BY DEF Inv
<1>1. CASE pc = "clear" /\ there = "match"
           /\ managers' = [managers EXCEPT ![n].tuner_valid_safe = FALSE]
  BY <1>0, <1>1 DEF ManagersOK, ManagerStates
<1>2. CASE pc = "match" /\ there = "raise"
           /\ managers' = [managers EXCEPT ![n].tuner_valid_safe = (m_active_channels = 1)]
  <2>1. managers'[n].tuner_valid_safe = (m_active_channels = 1)
    BY <1>0, <1>2 DEF ManagersOK, ManagerStates
  <2>2. /\ \A k \in Managers : k # n => managers'[k] = managers[k]
        /\ managers'[n].serving = managers[n].serving
        /\ managers'[n].tuner_valid = managers[n].tuner_valid
        /\ managers'[n].m_update_valid_streams = managers[n].m_update_valid_streams
    BY <1>0, <1>2 DEF ManagersOK, ManagerStates
  <2> QED BY <1>2, <2>1, <2>2 DEF Tuner
<1>3. CASE pc = "raise" /\ there = "await"
           /\ managers' = [managers EXCEPT ![n].m_update_valid_streams = TRUE]
  BY <1>0, <1>3 DEF ManagersOK, ManagerStates
<1>4. CASE pc = "await" /\ there = "return" /\ ~managers[n].m_update_valid_streams
           /\ UNCHANGED managers
  BY <1>4
<1> QED BY <1>1, <1>2, <1>3, <1>4 DEF UpdateStep

\* As long as update_tuners does not overlap, the channel reaches the manager:
\* start writes what set_channel stored, or set_channel finds what start published.
LEMMA TunerNext == Inv /\ TunerInv /\ [Next]_vars => TunerInv'
<1> SUFFICES ASSUME Inv, TunerInv, [Next]_vars, ~overlap' PROVE TunerOK'
  BY DEF TunerInv
<1> USE SrcAssumption
<1>0. ManagersOK /\ ControlOK /\ Footprint
  BY FootprintLemma DEF Inv
<1>1. ~overlap /\ ((StartUpdates \/ ChannelUpdates) => ~Overlap)
  <2>1. (StartUpdates \/ ChannelUpdates) => overlap' = (overlap \/ Overlap)
    BY DEF StartUpdates, ChannelUpdates
  <2>2. UNCHANGED overlap \/ StartUpdates \/ ChannelUpdates
    BY <1>0 DEF Footprint
  <2>3. ASSUME StartUpdates \/ ChannelUpdates PROVE ~overlap /\ ~Overlap
    <3>1. overlap' = (overlap \/ Overlap)
      BY <2>1, <2>3
    <3>2. ~(overlap \/ Overlap)
      BY <3>1
    <3> QED BY <3>2
  <2>4. ASSUME overlap' = overlap PROVE ~overlap
    BY <2>4
  <2> QED BY <2>2, <2>3, <2>4
<1>2. TunerOK
  BY <1>1 DEF TunerInv
<1>3. made \in Nat /\ made <= MaxStarts /\ (made > 0 => made \in Managers)
  BY <1>0 DEF ControlOK, Managers
<1>4. CASE Radio
  <2>1. UNCHANGED <<made, managers, gpc, using, m_active_channels, bpc>>
    BY <1>4 DEF Radio
  <2>2. CurKept
    BY <2>1 DEF CurKept, Cur
  <2> QED BY <1>2, <2>1, <2>2, TunerKept
<1>5. CASE EnableStream \/ stop \/ UNCHANGED vars
  <2>1. UNCHANGED <<made, managers, gpc, using, m_active_channels>>
    BY <1>5 DEF EnableStream, stop, vars, BlockOnly
  <2>2. CurKept
    BY <2>1 DEF CurKept, Cur
  <2>3. bpc' = bpc \/ (bpc \in NotStarting /\ bpc' \in NotStarting)
    BY <1>5 DEF EnableStream, stop, vars, NotStarting
  <2> QED BY <1>2, <2>1, <2>2, <2>3, TunerKept
<1>6. CASE StopManager
  <2>1. /\ UNCHANGED <<made, gpc, using, m_active_channels>>
        /\ bpc \in NotStarting /\ bpc' \in NotStarting
    BY <1>6 DEF StopManager, BlockOnly, NotStarting
  <2>2. CASE UNCHANGED managers
    <3>1. CurKept
      BY <2>1, <2>2 DEF CurKept, Cur
    <3> QED BY <1>2, <2>1, <3>1, TunerKept
  <2>3. CASE m_complex_manager # 0 /\ managers' = [managers EXCEPT ![m_complex_manager].run = FALSE]
    <3>1. m_complex_manager = made
      BY <1>0, <1>6 DEF ControlOK, StopManager
    <3>2. CurKept
      BY <1>0, <1>3, <2>1, <2>3, <3>1 DEF CurKept, Cur, ManagersOK, ManagerStates
    <3> QED BY <1>2, <2>1, <3>2, TunerKept
  <2> QED BY <1>6, <2>2, <2>3 DEF StopManager
<1>7. CASE start
  <2>1. UNCHANGED <<gpc, using, m_active_channels>>
    BY <1>7 DEF start, BlockOnly
  <2>2. CASE ~m_connected /\ bpc' = "running" /\ UNCHANGED managerVars
    <3>1. made = 0 /\ bpc = "stopped" /\ CurKept
      BY <1>0, <1>7, <2>2 DEF ControlOK, start, CurKept
    <3> QED BY <1>2, <2>1, <2>2, <3>1, TunerKept DEF NotStarting
  <2>3. CASE /\ made' = made + 1 /\ bpc' = "reset"
             /\ managers' = [managers EXCEPT ![made'] = NewManager]
    <3>1. made' \in Managers /\ Cur' = NewManager
      BY <1>0, <1>3, <1>7, <2>3 DEF start, Managers, ManagersOK, Cur
    <3>2. ~Cur'.m_update_valid_streams /\ ~Cur'.serving
      BY <3>1 DEF NewManager
    <3>3. ~GuiHere'
      <4>1. gpc \in Updating => using <= made /\ using \in Int
        BY <1>0, <1>7 DEF ControlOK, start
      <4> QED BY <1>3, <2>1, <2>3, <4>1 DEF GuiHere
    <3> QED BY <2>3, <3>2, <3>3 DEF TunerOK, LateComer, FlagOK, BlockUpdate, GuiUpdate,
         NotStarting
  <2> QED BY <1>7, <2>2, <2>3 DEF start
<1>8. CASE Reset \/ DeleteOld
  <2>1. /\ UNCHANGED <<gpc, using, m_active_channels, made>>
        /\ bpc \in {"reset", "delete"} /\ bpc' \in {"delete", "clear"}
    BY <1>8 DEF Reset, DeleteOld, BlockOnly
  <2>2. made \in Managers
    BY <1>0, <1>3, <2>1 DEF ControlOK, Starting
  <2>3. Cur' = Cur
    BY <1>3, <1>8, <2>1, <2>2 DEF Cur, Reset, DeleteOld
  <2>4. GuiHere' = GuiHere /\ Tuner' = Tuner
    BY <2>1 DEF GuiHere, Tuner
  <2>5. LateComer' /\ BlockUpdate'
    BY <2>1 DEF LateComer, BlockUpdate, Updating, NotStarting
  <2>6. FlagOK'
    BY <1>2, <2>1, <2>3 DEF TunerOK, FlagOK
  <2>7. GuiUpdate'
    BY <1>2, <2>1, <2>3, <2>4 DEF TunerOK, GuiUpdate
  <2> QED BY <2>5, <2>6, <2>7 DEF TunerOK
<1>9. CASE StartUpdates
  <2>1. PICK there \in Updating \cup {"return"} :
          /\ UpdateStep(made, bpc, there)
          /\ bpc' = IF there = "return" THEN "stream" ELSE there
    BY <1>9 DEF StartUpdates
  <2>2. bpc \in Updating /\ UNCHANGED <<gpc, using, m_active_channels, made>>
    BY <1>9, <2>1 DEF StartUpdates, UpdateStep, Updating, BlockOnly
  <2>3. made \in Managers
    BY <1>0, <1>3, <2>2 DEF ControlOK, Starting
  <2>4. ~GuiHere /\ ~GuiHere' /\ Pending' = Pending /\ Tuner' = Tuner
    BY <1>1, <1>9, <2>2 DEF Overlap, GuiHere, Pending, Tuner
  <2>5. LateComer' /\ GuiUpdate'
    BY <2>4 DEF LateComer, GuiUpdate
  <2>6. /\ Cur.m_update_valid_streams => bpc = "await"
        /\ Cur.serving => Cur.m_update_valid_streams /\ (Cur.tuner_valid <=> Cur.tuner_valid_safe)
    BY <1>2, <1>3, <2>3, <2>4 DEF TunerOK, FlagOK, GuiHere, Updating, Managers
  <2>7. /\ Cur'.serving = Cur.serving /\ Cur'.tuner_valid = Cur.tuner_valid
        /\ \/ /\ bpc = "clear" /\ there = "match"
              /\ Cur'.m_update_valid_streams = Cur.m_update_valid_streams
           \/ /\ bpc = "match" /\ there = "raise"
              /\ Cur'.m_update_valid_streams = Cur.m_update_valid_streams
              /\ Cur'.tuner_valid_safe <=> Tuner
           \/ /\ bpc = "raise" /\ there = "await"
              /\ Cur'.m_update_valid_streams
              /\ Cur'.tuner_valid_safe = Cur.tuner_valid_safe
           \/ /\ bpc = "await" /\ there = "return"
              /\ ~Cur.m_update_valid_streams /\ Cur' = Cur
    BY <2>1, <2>2, <2>3, UpdateWrites DEF Cur
  <2>8. FlagOK'
    BY <2>1, <2>2, <2>6, <2>7 DEF FlagOK
  <2>9. BlockUpdate'
    BY <1>2, <2>1, <2>2, <2>4, <2>6, <2>7 DEF TunerOK, BlockUpdate, NotStarting
  <2> QED BY <2>5, <2>8, <2>9 DEF TunerOK
<1>10. CASE ChannelUpdates
  <2>1. PICK there \in Updating \cup {"return"} :
          /\ UpdateStep(using, gpc, there)
          /\ gpc' = IF there = "return" THEN "idle" ELSE there
          /\ using' = IF there = "return" THEN 0 ELSE using
    BY <1>10 DEF ChannelUpdates
  <2>2. gpc \in Updating /\ UNCHANGED <<bpc, m_active_channels, made>>
    BY <1>10 DEF ChannelUpdates, GuiOnly
  <2>3. using \in Managers /\ made \in Managers /\ using <= made /\ made # 0
    BY <1>0, <1>3, <2>2 DEF ControlOK, Managers
  <2>4. Tuner' = Tuner
    BY <2>2 DEF Tuner
  <2>5. CASE using # made
    <3>1. ~GuiHere /\ ~GuiHere' /\ ~Pending /\ ~Pending'
      BY <2>1, <2>2, <2>3, <2>5 DEF GuiHere, Pending, Updating
    <3>2. Cur' = Cur
      BY <2>1, <2>2, <2>3, <2>5, UpdateWrites DEF Cur
    <3>3. LateComer' /\ GuiUpdate'
      BY <3>1 DEF LateComer, GuiUpdate
    <3>4. FlagOK'
      BY <1>2, <2>1, <2>2, <2>3, <2>5, <3>2 DEF TunerOK, FlagOK
    <3>5. BlockUpdate'
      BY <1>2, <2>2, <2>4, <3>1, <3>2 DEF TunerOK, BlockUpdate
    <3> QED BY <3>3, <3>4, <3>5 DEF TunerOK
  <2>6. CASE using = made
    <3>1. bpc \notin Updating /\ GuiHere
      BY <1>1, <1>10, <2>2, <2>6 DEF Overlap, GuiHere
    <3>2. /\ Cur.m_update_valid_streams => gpc = "await"
          /\ Cur.serving => Cur.m_update_valid_streams /\ (Cur.tuner_valid <=> Cur.tuner_valid_safe)
      BY <1>2, <1>3, <2>3, <3>1 DEF TunerOK, FlagOK, Updating, Managers
    <3>3. /\ Cur'.serving = Cur.serving /\ Cur'.tuner_valid = Cur.tuner_valid
          /\ \/ /\ gpc = "clear" /\ there = "match"
                /\ Cur'.m_update_valid_streams = Cur.m_update_valid_streams
             \/ /\ gpc = "match" /\ there = "raise"
                /\ Cur'.m_update_valid_streams = Cur.m_update_valid_streams
                /\ Cur'.tuner_valid_safe <=> Tuner
             \/ /\ gpc = "raise" /\ there = "await"
                /\ Cur'.m_update_valid_streams
                /\ Cur'.tuner_valid_safe = Cur.tuner_valid_safe
             \/ /\ gpc = "await" /\ there = "return"
                /\ ~Cur.m_update_valid_streams /\ Cur' = Cur
      BY <2>1, <2>2, <2>3, <2>6, UpdateWrites DEF Cur
    <3>4. LateComer'
      BY <2>2, <3>1 DEF LateComer
    <3>5. FlagOK'
      BY <2>1, <2>2, <2>6, <3>2, <3>3 DEF FlagOK
    <3>6. GuiUpdate'
      BY <1>2, <2>1, <2>2, <2>4, <2>6, <3>1, <3>2, <3>3 DEF TunerOK, GuiUpdate, GuiHere,
           Updating
    <3>7. gpc = "await" /\ there = "return" => (Cur.tuner_valid <=> Tuner)
      BY <1>2, <3>1, <3>3 DEF TunerOK, GuiUpdate
    <3>8. BlockUpdate'
      <4>1. bpc' \notin {"raise", "await"}
        BY <2>2, <3>1 DEF Updating
      <4>2. gpc' \in Updating => GuiHere'
        BY <2>1, <2>2, <2>6 DEF GuiHere, Updating
      <4>3. gpc' \notin Updating => gpc = "await" /\ there = "return" /\ Cur' = Cur
        BY <2>1, <3>3 DEF Updating
      <4> QED BY <2>4, <3>7, <4>1, <4>2, <4>3 DEF BlockUpdate, GuiHere
    <3> QED BY <3>4, <3>5, <3>6, <3>8 DEF TunerOK
  <2> QED BY <2>5, <2>6
<1>11. ASSUME NEW n \in Managers, Manager(n) PROVE TunerOK'
  <2>1. UNCHANGED <<made, gpc, using, m_active_channels, bpc>>
    BY <1>11 DEF Manager, Bind, handle_update, UpdateHandled, InManager
  <2>2. CASE Bind(n)
    <3>1. CurKept
      BY <1>0, <1>3, <2>1, <2>2 DEF CurKept, Cur, Bind, ManagersOK, ManagerStates
    <3> QED BY <1>2, <2>1, <3>1, TunerKept
  <2>3. CASE n # made
    <3>1. CurKept
      BY <1>0, <1>3, <1>11, <2>1, <2>3 DEF CurKept, Cur, Manager, Bind, handle_update,
           UpdateHandled,
         ManagersOK, ManagerStates
    <3> QED BY <1>2, <2>1, <3>1, TunerKept
  <2>4. GuiHere' = GuiHere /\ Pending' = Pending /\ Tuner' = Tuner
    BY <2>1 DEF GuiHere, Pending, Tuner
  <2>5. LateComer'
    BY <1>2, <2>1, <2>4 DEF TunerOK, LateComer
  <2>6. CASE n = made /\ handle_update(n)
    <3>1. /\ Cur.m_update_valid_streams /\ Cur'.m_update_valid_streams
          /\ Cur'.serving /\ Cur'.tuner_valid_safe = Cur.tuner_valid_safe
          /\ Cur'.tuner_valid = Cur.tuner_valid_safe
      BY <1>0, <2>1, <2>6 DEF Cur, handle_update, ManagersOK, ManagerStates
    <3>2. made > 0 /\ (bpc = "await" \/ (gpc = "await" /\ using = made))
      BY <1>2, <2>6, <3>1 DEF TunerOK, FlagOK, Managers
    <3>3. FlagOK'
      BY <2>1, <3>1, <3>2 DEF FlagOK
    <3>4. bpc \in NotStarting => GuiHere
      BY <3>2 DEF NotStarting, GuiHere, Updating
    <3>5. BlockUpdate'
      BY <1>2, <2>1, <2>4, <3>1, <3>4 DEF TunerOK, BlockUpdate
    <3>6. GuiUpdate'
      BY <1>2, <2>1, <2>4, <3>1 DEF TunerOK, GuiUpdate
    <3> QED BY <2>5, <3>3, <3>5, <3>6 DEF TunerOK
  <2>7. CASE n = made /\ UpdateHandled(n)
    <3>1. /\ Cur.serving /\ ~Cur'.m_update_valid_streams /\ ~Cur'.serving
          /\ Cur'.tuner_valid_safe = Cur.tuner_valid_safe
          /\ Cur'.tuner_valid = Cur.tuner_valid
      BY <1>0, <2>1, <2>7 DEF Cur, UpdateHandled, ManagersOK, ManagerStates
    <3>2. /\ made > 0 /\ (bpc = "await" \/ (gpc = "await" /\ using = made))
          /\ Cur.tuner_valid <=> Cur.tuner_valid_safe
      BY <1>2, <2>7, <3>1 DEF TunerOK, FlagOK, Managers
    <3>3. FlagOK'
      BY <3>1 DEF FlagOK
    <3>4. bpc \in NotStarting => GuiHere
      BY <3>2 DEF NotStarting, GuiHere, Updating
    <3>5. BlockUpdate'
      BY <1>2, <2>1, <2>4, <3>1, <3>2, <3>4 DEF TunerOK, BlockUpdate
    <3>6. GuiUpdate'
      BY <1>2, <2>1, <2>4, <3>1, <3>2 DEF TunerOK, GuiUpdate
    <3> QED BY <2>5, <3>3, <3>5, <3>6 DEF TunerOK
  <2> QED BY <1>11, <2>2, <2>3, <2>6, <2>7 DEF Manager
<1>12. CASE FindManager
  <2>1. /\ gpc = "manager?" /\ using' = m_complex_manager
        /\ gpc' = IF m_complex_manager = 0 THEN "idle" ELSE "clear"
        /\ UNCHANGED <<made, managers, m_active_channels, bpc>>
    BY <1>12 DEF FindManager, GuiOnly
  <2>2. Cur' = Cur
    BY <2>1 DEF Cur
  <2>3. LateComer' /\ GuiUpdate'
    BY <2>1 DEF LateComer, GuiUpdate, GuiHere, Updating
  <2>4. FlagOK'
    BY <1>2, <2>1, <2>2 DEF TunerOK, FlagOK
  <2>5. BlockUpdate'
    <3>1. CASE bpc = "reset"
      BY <2>1, <3>1 DEF BlockUpdate, NotStarting
    <3>2. CASE bpc # "reset" /\ made = 0
      <4>1. bpc \notin {"raise", "await"}
        BY <1>0, <3>2 DEF ControlOK, Starting, Updating
      <4> QED BY <2>1, <3>2, <4>1 DEF BlockUpdate
    <3>3. CASE bpc # "reset" /\ made # 0
      <4>1. using' = made' /\ gpc' = "clear"
        BY <1>0, <2>1, <3>3 DEF ControlOK
      <4> QED BY <4>1 DEF BlockUpdate, Pending
    <3> QED BY <3>1, <3>2, <3>3
  <2> QED BY <2>3, <2>4, <2>5 DEF TunerOK
<1>13. CASE UseFreed
  <2>1. UNCHANGED <<made, managers, gpc, using, m_active_channels, bpc>>
    BY <1>13 DEF UseFreed, GuiOnly
  <2>2. CurKept
    BY <2>1 DEF CurKept, Cur
  <2> QED BY <1>2, <2>1, <2>2, TunerKept
<1>14. ASSUME NEW c \in ChannelsAsked, set_channel(c) PROVE TunerOK'
  <2>1. UNCHANGED <<made, bpc, managers>> /\ gpc \notin Updating /\ gpc' \notin Updating
    BY <1>14 DEF set_channel, Setter, GuiOnly, Updating
  <2>2. gpc' = "manager?" \/ (gpc # "manager?" /\ UNCHANGED m_active_channels)
    BY <1>14 DEF set_channel, Setter
  <2> QED BY <1>2, <2>1, <2>2, TunerElsewhere
<1>15. CASE StreamIdAnswered
  <2>1. UNCHANGED <<made, bpc, managers>> /\ gpc = "stream_id" /\ gpc' = "manager?"
    BY <1>15 DEF StreamIdAnswered, GuiOnly
  <2> QED BY <1>2, <2>1, TunerElsewhere DEF Updating
<1>16. CASE \/ SendSetting \/ SendRate \/ RateAnswered \/ RateOn \/ Throw
            \/ \E sr \in Requested : set_sample_rate(sr)
  <2>1. UNCHANGED <<made, bpc, managers, m_active_channels>>
    BY <1>16 DEF SendSetting, SendRate, RateAnswered, RateOn, Throw, set_sample_rate,
         GuiOnly
  <2>2. gpc \notin Updating /\ gpc' \notin Updating /\ gpc # "manager?"
    BY <1>16 DEF SendSetting, SendRate, RateAnswered, RateOn, Throw, set_sample_rate,
         Setter, Updating
  <2> QED BY <1>2, <2>1, <2>2, TunerElsewhere
<1>17. CASE Block
  BY <1>5, <1>6, <1>7, <1>8, <1>9, <1>17 DEF Block
<1>18. CASE Gui
  BY <1>10, <1>12, <1>13, <1>14, <1>15, <1>16, <1>18 DEF Gui
<1> QED BY <1>4, <1>5, <1>11, <1>17, <1>18 DEF Next

\* ChannelApplied holds of every behaviour: the channel set last, before, during or
\* after start, is the one whose tuner the manager delivers.
THEOREM ChannelIsApplied == Spec => []ChannelApplied
<1>1. Spec => [](Inv /\ SessionInv /\ TunerInv)
  BY Invariant, SessionInit, SessionNext, TunerInit, TunerNext, PTL DEF Spec
<1>2. Inv /\ SessionInv /\ TunerInv => ChannelApplied
  <2> SUFFICES ASSUME Inv, SessionInv, TunerInv, bpc = "running", gpc = "idle", m_connected,
                      ~overlap, ~late
               PROVE  managers[m_complex_manager].tuner_valid = asked
    BY DEF ChannelApplied
  <2>1. ControlOK /\ ManagersOK /\ AskedOK /\ TunerOK
    BY DEF Inv, SessionInv, TunerInv
  <2>2. m_complex_manager = made /\ made \in Managers /\ made > 0
    BY <2>1, SrcAssumption DEF ControlOK, Managers
  <2>3. Tuner <=> asked
    BY <2>1 DEF AskedOK, Tuner
  <2>4. ~Pending /\ ~GuiHere
    BY DEF Pending, GuiHere, Updating
  <2>5. Cur.tuner_valid <=> Tuner
    BY <2>1, <2>2, <2>4 DEF TunerOK, BlockUpdate, NotStarting
  <2>6. asked \in BOOLEAN
    BY <2>1 DEF ControlOK
  <2>7. Cur.tuner_valid \in BOOLEAN
    BY <2>1, <2>2 DEF ManagersOK, ManagerStates, Cur
  <2>8. Cur.tuner_valid = asked
    BY <2>3, <2>5, <2>6, <2>7, Zenon
  <2> QED BY <2>2, <2>8 DEF Cur
<1> QED BY <1>1, <1>2, PTL
=============================================================================
