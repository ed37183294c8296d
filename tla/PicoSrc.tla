------------------------------- MODULE PicoSrc ---------------------------------
(***************************************************************************)
(* pico_src: the block that brings samples from a radio                    *)
(* (pico_src_impl.cc), over restarts of the flowgraph.  start and stop are *)
(* called by the thread of the block, the setters by the thread of the     *)
(* GUI; both send mnemonics over the same session and both reach the       *)
(* complex_manager through m_complex_manager, without a lock.  Every start *)
(* makes a manager, which has a thread and a listener of its own: managers *)
(* are numbered here by the start that made them.                          *)
(*                                                                         *)
(* ComplexManager has what a manager does with samples, and work().  Here  *)
(* it is known by its update of the tuners and by its socket; stop() ends  *)
(* its threads in one step.                                                *)
(***************************************************************************)
EXTENDS MneClient

CONSTANTS
  Requested,              \* rates the user asks for
  MIN_SR_MHZ, MAX_SR_MHZ, \* the rates the block accepts
  ChannelsAsked,          \* channels the user asks for
  MaxStarts,              \* the bound on calls of start
  MaxLine,                \* the bound on mnemonics on their way
  MaxCalls                \* the bound on calls of setters

ASSUME SrcAssumption ==
  /\ Requested \subseteq Nat
  /\ MIN_SR_MHZ \in Nat \ {0} /\ MAX_SR_MHZ \in Nat /\ MIN_SR_MHZ < MAX_SR_MHZ
  /\ ChannelsAsked \subseteq Int
  /\ MaxStarts \in Nat /\ MaxCalls \in Nat /\ MaxLine \in Nat

NUM_OUTPUT_STREAMS == 1

Managers == 1 .. MaxStarts

VARIABLES
  m_connected,
  m_active_channels,   \* its one element
  m_complex_manager,   \* the manager pointed to, or 0
  made,                \* managers made, one in each start
  managers,            \* their states
  radio,               \* [on, rate] of the radio
  bpc,                 \* where the thread of the block is
  gpc,                 \* where the thread of the GUI is
  using,               \* the manager that update_tuners of the GUI works on
  want,                \* the rate set_sample_rate was called with
  calls,
  crashed,             \* memory was used that was not there
  overlap,             \* two calls of update_tuners were under way at once (history)
  raced,               \* start switched the stream on in the middle of a change of
                       \* rate (history)
  unheard,             \* set_sample_rate switched it on while the block was stopped
                       \* (history)
  asked                \* the channel the user asked for last is channel 1 (history)

srcVars == <<m_connected, m_active_channels, m_complex_manager>>
managerVars == <<made, managers>>
guiVars == <<gpc, using, want, calls, asked>>
history == <<overlap, raced, unheard>>
vars == <<srcVars, managerVars, client, radio, bpc, guiVars, crashed, history>>

\* A manager as its constructor leaves it.
NewManager ==
  [run |-> TRUE, socket |-> "none", freed |-> FALSE,
   m_update_valid_streams |-> FALSE, tuner_valid_safe |-> FALSE, tuner_valid |-> FALSE,
   serving |-> FALSE]

\* The constructor of the block, connected or not.
Init ==
  /\ m_connected \in BOOLEAN
  /\ m_active_channels = -1 /\ m_complex_manager = 0
  /\ made = 0
  /\ managers = [n \in Managers |-> [NewManager EXCEPT !.run = FALSE]]
  /\ line = IF m_connected THEN <<Cmd("SIP", 0), Cmd("END", 0)>> ELSE <<>>
  /\ answers = <<>> /\ late = FALSE
  /\ radio = [on |-> FALSE, rate |-> MIN_SR_MHZ]
  /\ bpc = "stopped" /\ gpc = "idle" /\ using = 0 /\ want = 0 /\ calls = 0
  /\ crashed = FALSE
  /\ overlap = FALSE /\ raced = FALSE /\ unheard = FALSE /\ asked = FALSE

\* A write waits when the radio is too far behind.
Send(mnemonics) ==
  /\ Len(line) + Len(mnemonics) <= MaxLine
  /\ line' = line \o mnemonics

-----------------------------------------------------------------------------
(* The radio (external).  The answer to VID? is counted from one, as the   *)
(* block counts channels, so that zero is left for an answer without a     *)
(* number; the rate is what the block would make of it as a stream id.     *)

Answer(query) == IF query = "VID" THEN 1 ELSE radio.rate + 1

RadioAnswers ==
  /\ line # <<>> /\ IsQuery(Head(line))
  /\ Reply(Answer(Head(line).name))
  /\ UNCHANGED radio

RadioObeys ==
  /\ line # <<>> /\ ~IsQuery(Head(line))
  /\ line' = Tail(line)
  /\ radio' = CASE Head(line).name = "OPM" -> [radio EXCEPT !.on = Head(line).value = 1]
                [] Head(line).name = "SPR" -> [radio EXCEPT !.rate = Head(line).value]
                [] OTHER -> radio
  /\ UNCHANGED <<answers, late>>

Radio ==
  /\ RadioAnswers \/ RadioObeys
  /\ UNCHANGED <<srcVars, managerVars, bpc, guiVars, crashed, history>>

-----------------------------------------------------------------------------
(* The threads of a manager.                                               *)

InManager(n) ==
  /\ n <= made /\ managers[n].run
  /\ UNCHANGED <<srcVars, made, client, radio, bpc, guiVars, crashed, history>>

\* The listener binds its socket, once, without SO_REUSEADDR: the port may
\* still belong to the manager of the last start.  A listener that failed
\* goes on, and never hears anything.
Bind(n) ==
  /\ managers[n].socket = "none"
  /\ managers' = [managers EXCEPT ![n].socket =
                    IF \E m \in 1 .. made : managers[m].socket = "bound"
                    THEN "failed" ELSE "bound"]
  /\ InManager(n)

\* Mutant of handle_update: the loop has nothing to do without a socket.
HandleUpdateBound(n) ==
  /\ managers[n].m_update_valid_streams /\ ~managers[n].serving
  /\ managers[n].socket = "bound"
  /\ managers' = [managers EXCEPT ![n].tuner_valid = managers[n].tuner_valid_safe,
                                  ![n].serving = TRUE]
  /\ InManager(n)

handle_update(n) ==
  /\ managers[n].m_update_valid_streams /\ ~managers[n].serving
  /\ managers' = [managers EXCEPT ![n].tuner_valid = managers[n].tuner_valid_safe,
                                  ![n].serving = TRUE]
  /\ InManager(n)

UpdateHandled(n) ==
  /\ managers[n].serving
  /\ managers' = [managers EXCEPT ![n].m_update_valid_streams = FALSE,
                                  ![n].serving = FALSE]
  /\ InManager(n)

Manager(n) == Bind(n) \/ handle_update(n) \/ UpdateHandled(n)

-----------------------------------------------------------------------------
(* update_tuners, called by either thread; pc is where its caller is in    *)
(* it.  A caller of the GUI may find its manager gone.                     *)

Updating == {"clear", "match", "raise", "await"}

\* Both threads are in update_tuners of the same manager.
Overlap == bpc \in Updating /\ gpc \in Updating /\ using = made

UpdateStep(n, pc, there) ==
  \/ /\ pc = "clear" /\ there = "match"
     /\ managers' = [managers EXCEPT ![n].tuner_valid_safe = FALSE]
  \/ /\ pc = "match" /\ there = "raise"
     /\ managers' = [managers EXCEPT ![n].tuner_valid_safe = (m_active_channels = 1)]
  \/ /\ pc = "raise" /\ there = "await"
     /\ managers' = [managers EXCEPT ![n].m_update_valid_streams = TRUE]
  \/ /\ pc = "await" /\ there = "return"
     /\ ~managers[n].m_update_valid_streams
     /\ UNCHANGED managers

-----------------------------------------------------------------------------
(* The thread of the block                                                 *)

BlockOnly == UNCHANGED <<m_connected, m_active_channels, answers, late, radio, guiVars, crashed>>

\* start makes a manager, whose threads begin at once; or does nothing.
start ==
  /\ bpc = "stopped" /\ made < MaxStarts
  /\ \/ /\ m_connected
        /\ made' = made + 1
        /\ managers' = [managers EXCEPT ![made'] = NewManager]
        /\ bpc' = "reset"
     \/ /\ ~m_connected
        /\ bpc' = "running"
        /\ UNCHANGED managerVars
  /\ UNCHANGED <<m_complex_manager, line, history>>
  /\ BlockOnly

\* scoped_ptr::reset: the new manager is in, and then the old one goes, and
\* its socket with it.
Reset ==
  /\ bpc = "reset"
  /\ m_complex_manager' = made
  /\ bpc' = "delete"
  /\ UNCHANGED <<managerVars, line, history>>
  /\ BlockOnly

DeleteOld ==
  /\ bpc = "delete"
  /\ managers' = [n \in Managers |->
                    IF n = made - 1
                    THEN [NewManager EXCEPT !.run = FALSE, !.freed = TRUE, !.socket = "closed"]
                    ELSE managers[n]]
  /\ bpc' = "clear"
  /\ UNCHANGED <<m_complex_manager, made, line, history>>
  /\ BlockOnly

StartUpdates ==
  /\ \E there \in Updating \cup {"return"} :
       /\ UpdateStep(made, bpc, there)
       /\ bpc' = IF there = "return" THEN "stream" ELSE there
  /\ overlap' = (overlap \/ Overlap)
  /\ UNCHANGED <<m_complex_manager, made, line, raced, unheard>>
  /\ BlockOnly

\* set_sample_rate has switched the stream off and not yet on again.
ChangingRate == {"rate", "rate_answer", "rate_on"}

EnableStream ==
  /\ bpc = "stream"
  /\ Send(<<Cmd("OPM", 1)>>)
  /\ bpc' = "running"
  /\ raced' = (raced \/ gpc \in ChangingRate)
  /\ unheard' = FALSE
  /\ UNCHANGED <<m_complex_manager, managerVars, overlap>>
  /\ BlockOnly

\* Mutant of stop: the radio is left to itself.
StopStreaming ==
  /\ bpc = "running"
  /\ bpc' = "stopping"
  /\ UNCHANGED <<m_complex_manager, managerVars, line, history>>
  /\ BlockOnly

stop ==
  /\ bpc = "running"
  /\ IF m_connected THEN Send(<<Cmd("OPM", 0)>>) ELSE UNCHANGED line
  /\ bpc' = "stopping"
  /\ UNCHANGED <<m_complex_manager, managerVars, history>>
  /\ BlockOnly

\* complex_manager::stop joins the listener, which has bound its socket then,
\* and the loop, which has answered the update that it had begun.
StopManager ==
  /\ bpc = "stopping"
  /\ bpc' = "stopped"
  /\ \/ m_complex_manager = 0 /\ UNCHANGED managers
     \/ /\ m_complex_manager # 0
        /\ managers[m_complex_manager].socket # "none"
        /\ ~managers[m_complex_manager].serving
        /\ managers' = [managers EXCEPT ![m_complex_manager].run = FALSE]
  /\ UNCHANGED <<m_complex_manager, made, line, history>>
  /\ BlockOnly

Block ==
  \/ start \/ Reset \/ DeleteOld \/ StartUpdates \/ EnableStream
  \/ stop \/ StopManager

-----------------------------------------------------------------------------
(* The thread of the GUI                                                   *)

GuiOnly == UNCHANGED <<m_connected, m_complex_manager, made, radio, bpc>>

Values == {0, 1} \cup {r + 1 : r \in MIN_SR_MHZ .. MAX_SR_MHZ}

Setter == gpc = "idle" /\ calls < MaxCalls /\ calls' = calls + 1

\* set_attenuation and set_frequency: a command that is not answered.
SendSetting ==
  /\ Setter /\ m_connected
  /\ Send(<<Cmd("setting", 0)>>)
  /\ UNCHANGED <<m_active_channels, managers, answers, late, gpc, using, want, asked, crashed,
                 history>>
  /\ GuiOnly

\* A channel that the block does not have, and every channel without a
\* session, takes the tuner away.
set_channel(channel) ==
  /\ Setter
  /\ asked' = (channel = 1)
  /\ \/ /\ m_connected /\ channel \in 1 .. NUM_OUTPUT_STREAMS
        /\ Send(<<Cmd("RCH", channel), Query("VID")>>)
        /\ gpc' = "stream_id"
        /\ UNCHANGED m_active_channels
     \/ /\ ~(m_connected /\ channel \in 1 .. NUM_OUTPUT_STREAMS)
        /\ m_active_channels' = -1
        /\ gpc' = "manager?"
        /\ UNCHANGED line
  /\ UNCHANGED <<managers, answers, late, using, want, crashed, history>>
  /\ GuiOnly

\* resp is not initialized: without a number in the answer it is the stream
\* of the channel or another.
StreamIdAnswered ==
  /\ gpc = "stream_id"
  /\ \E v \in Values :
       /\ Receive(v)
       /\ m_active_channels' \in IF v = 0 THEN {0, 1} ELSE {v}
  /\ gpc' = "manager?"
  /\ UNCHANGED <<managers, line, using, want, calls, asked, crashed, history>>
  /\ GuiOnly

\* Mutant of FindManager: the pointer is not tested.
FindManagerUntested ==
  /\ gpc = "manager?"
  /\ using' = m_complex_manager
  /\ gpc' = "clear"
  /\ crashed' = (m_complex_manager = 0)
  /\ UNCHANGED <<m_active_channels, managers, client, want, calls, asked, history>>
  /\ GuiOnly

\* Mutant of FindManager: the manager is told only once the block runs.
FindManagerRunning ==
  /\ gpc = "manager?"
  /\ using' = m_complex_manager
  /\ gpc' = IF bpc # "running" \/ m_complex_manager = 0 THEN "idle" ELSE "clear"
  /\ UNCHANGED <<m_active_channels, managers, client, want, calls, asked, crashed, history>>
  /\ GuiOnly

FindManager ==
  /\ gpc = "manager?"
  /\ using' = m_complex_manager
  /\ gpc' = IF m_complex_manager = 0 THEN "idle" ELSE "clear"
  /\ UNCHANGED <<m_active_channels, managers, client, want, calls, asked, crashed, history>>
  /\ GuiOnly

ChannelUpdates ==
  /\ gpc \in Updating
  /\ ~managers[using].freed
  /\ \E there \in Updating \cup {"return"} :
       /\ UpdateStep(using, gpc, there)
       /\ gpc' = IF there = "return" THEN "idle" ELSE there
       /\ using' = IF there = "return" THEN 0 ELSE using
  /\ overlap' = (overlap \/ Overlap)
  /\ UNCHANGED <<m_active_channels, client, want, calls, asked, crashed, raced, unheard>>
  /\ GuiOnly

\* The manager was deleted under update_tuners.
UseFreed ==
  /\ gpc \in Updating
  /\ managers[using].freed
  /\ crashed' = TRUE
  /\ UNCHANGED <<m_active_channels, managers, client, guiVars, history>>
  /\ GuiOnly

\* Mutant of set_sample_rate: the stream is left on.
SetSampleRateOn(sr) ==
  /\ Setter /\ m_connected
  /\ want' = sr
  /\ gpc' = "rate"
  /\ UNCHANGED <<m_active_channels, managers, client, using, asked, crashed, history>>
  /\ GuiOnly

set_sample_rate(sr) ==
  /\ Setter /\ m_connected
  /\ Send(<<Cmd("OPM", 0)>>)
  /\ want' = sr
  /\ gpc' = "rate"
  /\ UNCHANGED <<m_active_channels, managers, answers, late, using, asked, crashed, history>>
  /\ GuiOnly

\* A rate outside the limits is moved to the nearer one, and the radio asked
\* what it made of it.
SendRate ==
  /\ gpc = "rate"
  /\ \/ /\ want \in MIN_SR_MHZ .. MAX_SR_MHZ
        /\ Send(<<Cmd("SPR", want)>>)
        /\ gpc' = "rate_on"
     \/ /\ want \notin MIN_SR_MHZ .. MAX_SR_MHZ
        /\ Send(<<Cmd("SPR", IF want > MAX_SR_MHZ THEN MAX_SR_MHZ ELSE MIN_SR_MHZ),
                  Query("SPR")>>)
        /\ gpc' = "rate_answer"
  /\ want' = 0
  /\ UNCHANGED <<m_active_channels, managers, answers, late, using, calls, asked, crashed, history>>
  /\ GuiOnly

RateAnswered ==
  /\ gpc = "rate_answer"
  /\ \E v \in Values : Receive(v)
  /\ gpc' = "rate_on"
  /\ UNCHANGED <<m_active_channels, managers, line, using, want, calls, asked, crashed, history>>
  /\ GuiOnly

\* The stream is switched on whatever it was before.
RateOn ==
  /\ gpc = "rate_on"
  /\ Send(<<Cmd("OPM", 1)>>)
  /\ gpc' = "idle"
  /\ unheard' = (unheard \/ bpc \in {"stopped", "stopping"})
  /\ UNCHANGED <<m_active_channels, managers, answers, late, using, want, calls, asked, crashed,
                 overlap, raced>>
  /\ GuiOnly

\* read_some throws, and the setter is left where it was.
Throw ==
  /\ gpc \in {"stream_id", "rate_answer"}
  /\ ReceiveThrows
  /\ gpc' = "idle"
  /\ UNCHANGED <<m_active_channels, managers, line, using, want, calls, asked, crashed, history>>
  /\ GuiOnly

Gui ==
  \/ SendSetting
  \/ \E channel \in ChannelsAsked : set_channel(channel)
  \/ StreamIdAnswered \/ FindManager \/ ChannelUpdates \/ UseFreed
  \/ \E sr \in Requested : set_sample_rate(sr)
  \/ SendRate \/ RateAnswered \/ RateOn
  \/ Throw

Next ==
  /\ ~crashed
  /\ Radio \/ Block \/ Gui \/ \E n \in Managers : Manager(n)

\* The threads of a manager do not stop running until stop() ends them; start
\* and set_channel go on when what they wait for has come.
Fairness ==
  /\ \A n \in Managers : WF_vars(~crashed /\ Manager(n))
  /\ WF_vars(~crashed /\ (Reset \/ DeleteOld \/ StartUpdates))
  /\ WF_vars(~crashed /\ (FindManager \/ ChannelUpdates \/ UseFreed))

Spec == Init /\ [][Next]_vars /\ Fairness

-----------------------------------------------------------------------------
(* Properties.                                                             *)

\* The values each variable may take.
TypeOK ==
  /\ m_connected \in BOOLEAN
  /\ m_active_channels \in {-1} \cup Values
  /\ m_complex_manager \in {0, made - 1, made} \cap Nat
  /\ managers \in [Managers -> [run : BOOLEAN, socket : {"none", "bound", "failed", "closed"},
                                freed : BOOLEAN, m_update_valid_streams : BOOLEAN,
                                tuner_valid_safe : BOOLEAN, tuner_valid : BOOLEAN,
                                serving : BOOLEAN]]
  /\ radio.on \in BOOLEAN /\ radio.rate \in MIN_SR_MHZ .. MAX_SR_MHZ
  /\ using \in 0 .. made
  /\ \A n \in 1 .. made : managers[n].freed => n < m_complex_manager

\* While the flowgraph runs and no setter is under way, the manager delivers
\* the tuner exactly when the user last asked for the channel there is:
\* set_channel sees the manager that start published, or start sees the
\* channel that set_channel stored, and no answer is taken for another.  Two
\* overlapping calls of update_tuners may lose this, and answers that came
\* late.
ChannelApplied ==
  bpc = "running" /\ gpc = "idle" /\ m_connected /\ ~overlap /\ ~late =>
    managers[m_complex_manager].tuner_valid = asked

\* In its first start the block may be given channels at any moment, and its
\* listener gets the port: only a restart can delete a manager under
\* set_channel or find the port taken.
FirstStartSafe ==
  /\ TypeOK
  /\ made <= 1 => ~crashed /\ \A n \in Managers : managers[n].socket # "failed"

\* When all mnemonics have been carried out, a running block has its stream:
\* set_sample_rate never leaves it off, whenever it comes.  And a stopped
\* block has none, unless set_sample_rate switched it on after the block was
\* stopped, or before it was started.
StreamFollowsBlock ==
  /\ bpc = "running" /\ gpc = "idle" /\ m_connected /\ line = <<>> /\ ~late => radio.on
  /\ bpc = "stopped" /\ line = <<>> /\ radio.on => unheard

\* The rate of the radio never changes while it streams, unless start
\* switched the stream on between the commands of set_sample_rate.
RateChangedQuietly ==
  [][radio'.rate # radio.rate => ~radio.on \/ raced]_vars

\* start returns, whether or not the listener got its port and whatever the
\* GUI does to the manager meanwhile; set_channel returns, unless the manager
\* was stopped before it answered: then the caller waits for ever.
CallersReturn ==
  /\ bpc = "await" ~> bpc = "stream" \/ crashed
  /\ gpc = "await" ~> gpc # "await" \/ ~managers[using].run \/ crashed

=============================================================================
