---------------------------- MODULE ComplexManager ----------------------------
(***************************************************************************)
(* complex_manager (lib/complex_manager.cpp), with the callers that        *)
(* pico_src gives it.  Its own thread takes buffers of packets from the    *)
(* udp_listener and deals the packets out to worker tasks, which write     *)
(* samples into the write side of a double buffer.  GNU Radio's thread of  *)
(* the block calls start(), work() (fill_buffers, which empties the read   *)
(* side) and stop(), one after the other; the thread of the GUI may call   *)
(* set_channel() (update_tuners) at any time.  Apart from the mutex inside *)
(* each task there is no lock: the threads meet in the flags               *)
(* m_request_flip, m_update_valid_streams and m_run.  What they share      *)
(* beside these are plain ints and bools: each load and each store of one  *)
(* that another thread may touch at that time is a step of its own, and    *)
(* += is a load and a store.  Stores keep the order of the program.        *)
(*                                                                         *)
(* NUM_STREAMS is 1, so m_mang has the one element m_mang[0], whose fields *)
(* are variables here.  Samples are numbered in the order in which packets *)
(* are accepted; a cell of out_buff holds the number of its sample.  The   *)
(* tasks are those of TaskImpl, past their first wait, and a call of       *)
(* get_buffer_list() is one step (UdpListener shows that it returns).  The *)
(* loss counters last_count and m_last_frame_count are only printed from,  *)
(* and the bytes of a batch are not modelled: a batch is any succession of *)
(* frames of any packets.                                                  *)
(***************************************************************************)
EXTENDS Integers, FiniteSets, Sequences

CONSTANTS
  NUM_THREADS,        \* worker tasks
  NUM_COMPLEX,        \* samples each side of the double buffer can hold
  NUM_RECURSIVE,      \* attempts of fill_buffers before it gives up
  Payloads,           \* numbers of samples in a packet
  StreamIds,          \* stream ids packets carry
  Requests,           \* noutput_items of a call of work()
  Channels,           \* values of m_active_channels[0]: 1 is tuner 1, -1 none
  GuiPhases,          \* phases of the block in which the GUI retunes
  MaxFrame,           \* bound on the packets of a frame
  MaxSamples,         \* bound on the samples accepted
  MaxRetunes          \* bound on the calls of set_channel()

ASSUME CountsAssumption ==
  /\ NUM_THREADS \in Nat \ {0}
  /\ NUM_COMPLEX \in Nat \ {0}
  /\ NUM_RECURSIVE \in Nat \ {0}
  /\ MaxFrame \in Nat /\ MaxSamples \in Nat /\ MaxRetunes \in Nat

ASSUME InputsAssumption ==
  /\ Payloads \subseteq Nat
  /\ StreamIds \subseteq 0 .. 255
  /\ Requests \subseteq Nat \ {0}
  /\ Channels \subseteq {-1, 1}
  /\ GuiPhases \subseteq {"start", "work"}

NUM_STREAMS == 1
Threads     == 1 .. NUM_THREADS
Sides       == 0 .. 1
Callers     == {"block", "gui"}

\* A VRT packet as the manager looks at it; 1 is the type of a data packet.
Packets  == [type : 0 .. 1, stream : StreamIds, size : Payloads]
NoPacket == [type |-> 0, stream |-> 0, size |-> 0]

\* What a task is given: m_target_buffer, m_start_index, m_sample_count and
\* the samples at m_packet_buffer.  NoJob is m_packet_buffer[i] = NULL.
NoJob == [buf |-> 0, start |-> 0, count |-> -1, first |-> 0]

VARIABLES
  m_run, m_request_flip, m_update_valid_streams, m_safety_count,
  out_buff, out_count, read_index, out_pointer,
  tuner_valid, tuner_valid_safe, flip,
  listening,          \* the udp_listener has not been stopped
  tuners,             \* m_active_channels[0] of the block
  mpc,                \* the manager's thread
  left,               \* packets of the frame it has not looked at yet
  pkt,                \* the packet it is looking at
  store,              \* stores that the current handle_update has made
  setup_thread,       \* the task it is setting up, 0 for none
  m_start_index,      \* m_start_index[setup_thread]
  mreg,               \* its register: the count it is adding to
  started,            \* started[i]: task i is_running()
  job,                \* job[i]: the slot of task i
  bpc,                \* the block's thread
  want,               \* count of the current call of fill_buffers
  amount,             \* its local min
  side,               \* !out_pointer as it last read it
  breg,               \* its register: the count or index it works on
  crashed,            \* a step without defined behaviour: the model stops
  upc,                \* upc[c]: caller c inside update_tuners
  retunes,            \* history: calls of set_channel
  accepted,           \* history: samples of accepted packets
  delivered,          \* history: samples delivered, or dropped by an update
  mixed               \* history: fill_buffers has read its state, or is reading
                      \* it, half before and half after a change of the tuner

mangVars    == <<out_count, read_index, out_pointer, flip>>
taskVars    == <<out_buff, started, job>>
blockVars   == <<bpc, want, amount, side, breg, m_safety_count>>
tunerVars   == <<tuners, tuner_valid_safe, upc, retunes>>
flagVars    == <<m_run, listening, m_request_flip, m_update_valid_streams>>
slotVars    == <<setup_thread, m_start_index, mreg>>
managerVars == <<mpc, left, pkt, tuner_valid, store, slotVars>>
historyVars == <<accepted, delivered, mixed, crashed>>
vars == <<mangVars, taskVars, blockVars, tunerVars, flagVars, managerVars, historyVars>>

Init ==
  /\ m_run = TRUE /\ listening = TRUE
  /\ m_request_flip = FALSE /\ m_update_valid_streams = FALSE
  /\ m_safety_count = 0
  /\ out_buff = [s \in Sides |-> [k \in 0 .. NUM_COMPLEX - 1 |-> 0]]
  /\ out_count = [s \in Sides |-> 0]
  /\ read_index = [s \in Sides |-> 0]
  /\ out_pointer = 0
  /\ tuner_valid = FALSE /\ tuner_valid_safe = FALSE /\ flip = FALSE
  /\ tuners \in Channels
  /\ mpc = "top" /\ left = 0 /\ pkt = NoPacket /\ store = 0
  /\ setup_thread = 0 /\ m_start_index = 0 /\ mreg = 0
  /\ started = [i \in Threads |-> FALSE]
  /\ job = [i \in Threads |-> NoJob]
  /\ bpc = "start" /\ want = 0 /\ amount = 0
  /\ side = 0 /\ breg = 0
  /\ upc = [c \in Callers |-> "none"]
  /\ retunes = 0
  /\ accepted = 0 /\ delivered = 0
  /\ mixed = FALSE /\ crashed = FALSE

threads_active == \E i \in Threads : started[i]

ReadSide == 1 - out_pointer

\* fill_buffers between its test of the update flag and its return, but for
\* the wait for a flip: the steps that read or write what an update replaces.
Reading == {"pointer", "count", "valid", "min", "copy",
            "index", "index_load", "index_store", "total", "total_load", "total_store"}

-----------------------------------------------------------------------------
(* The manager's thread: operator().                                       *)

GoTo(here, there) ==
  /\ mpc = here
  /\ mpc' = there

\* A step of the manager that only moves its control.
Move(here, there) ==
  /\ GoTo(here, there)
  /\ UNCHANGED <<left, pkt, tuner_valid, store, slotVars>>
  /\ UNCHANGED <<mangVars, taskVars, blockVars, tunerVars, flagVars, historyVars>>

TopOfLoop == \/ m_run /\ Move("top", "main_flip")
             \/ ~m_run /\ Move("top", "drain")

\* Where flips and updates are looked for, and what comes next.  The outer
\* loop looks for the flip first, the inner ones for the update.
FlipPoints   == {<<"main_flip", "main_update">>, <<"frame_flip", "parse">>,
                 <<"packet_flip", "packet">>}
UpdatePoints == {<<"main_update", "main_clear", "quiet">>,
                 <<"frame_update", "frame_clear", "frame_flip">>,
                 <<"packet_update", "packet_clear", "packet_flip">>}

NoFlip == \E p \in FlipPoints : ~m_request_flip /\ Move(p[1], p[2])

\* handle_flip() and the clearing of the request, which its caller awaits:
\* when idle holds, swap the sides and set the read indices to index.
FlipSides(idle, index) ==
  /\ \E p \in FlipPoints : GoTo(p[1], p[2])
  /\ m_request_flip
  /\ idle
  /\ m_request_flip' = FALSE
  /\ \/ /\ tuner_valid /\ flip
        /\ out_pointer' = ReadSide
        /\ out_count' = [out_count EXCEPT ![ReadSide] = 0]
        /\ read_index' = index
        /\ flip' = FALSE
     \/ ~(tuner_valid /\ flip) /\ UNCHANGED mangVars
  /\ UNCHANGED <<m_run, listening, m_update_valid_streams>>
  /\ UNCHANGED <<left, pkt, tuner_valid, store, slotVars>>
  /\ UNCHANGED <<taskVars, blockVars, tunerVars, historyVars>>

\* Mutants of handle_flip: the tasks are not waited for; the read indices
\* are not reset.
FlipWhileActive == FlipSides(TRUE, [s \in Sides |-> 0])
FlipKeepsIndex  == FlipSides(~threads_active, read_index)

handle_flip == FlipSides(~threads_active, [s \in Sides |-> 0])

\* The loop over the packets of a frame ends before it looks for anything.
InLoop == mpc = "packet_update" => left > 0 \/ pkt # NoPacket

NoUpdate == \E p \in UpdatePoints :
              InLoop /\ ~m_update_valid_streams /\ Move(p[1], p[3])

\* handle_update(): when no task is active, the stream becomes valid or not,
\* and whatever is buffered is dropped.  Six plain stores, one after the
\* other, with out_pointer the last; fill_buffers may be anywhere meanwhile.
ApplyUpdate(valid) ==
  /\ \E p \in UpdatePoints : /\ mpc = p[1]
                            /\ mpc' = IF store = 5 THEN p[2] ELSE mpc
  /\ InLoop
  /\ m_update_valid_streams
  /\ ~threads_active
  /\ store' = IF store = 5 THEN 0 ELSE store + 1
  /\ \/ /\ store = 0
        /\ tuner_valid' = valid
        /\ UNCHANGED <<out_count, read_index, out_pointer, delivered>>
     \/ /\ \E s \in Sides : store = 1 + s /\ out_count' = [out_count EXCEPT ![s] = 0]
        /\ UNCHANGED <<tuner_valid, read_index, out_pointer, delivered>>
     \/ /\ \E s \in Sides : store = 3 + s /\ read_index' = [read_index EXCEPT ![s] = 0]
        /\ UNCHANGED <<tuner_valid, out_count, out_pointer, delivered>>
     \/ /\ store = 5
        /\ out_pointer' = 0
        /\ delivered' = accepted
        /\ UNCHANGED <<tuner_valid, out_count, read_index>>
  /\ mixed' = (bpc \in Reading \/ (mixed /\ store > 0))
  /\ UNCHANGED <<flip, left, pkt, slotVars, accepted, crashed>>
  /\ UNCHANGED <<taskVars, blockVars, tunerVars, flagVars>>

\* Mutant of handle_update: the validity is not copied.
UpdateKeepsValid == ApplyUpdate(tuner_valid)

handle_update == ApplyUpdate(tuner_valid_safe)

\* Mutant of ClearUpdate: the flag is not lowered.
ClearUpdateForgotten == \E p \in UpdatePoints : Move(p[2], p[3])

\* The flag is lowered only after the update has been applied.
ClearUpdate ==
  /\ \E p \in UpdatePoints : GoTo(p[2], p[3])
  /\ m_update_valid_streams' = FALSE
  /\ UNCHANGED <<m_run, listening, m_request_flip>>
  /\ UNCHANGED <<left, pkt, tuner_valid, store, slotVars>>
  /\ UNCHANGED <<mangVars, taskVars, blockVars, tunerVars, historyVars>>

\* Wait until no task reads the last buffer, then ask for the next.
Quiet == ~threads_active /\ Move("quiet", "get")

get_buffer_list == \/ listening /\ Move("get", "frame")
                   \/ Move("get", "top")

\* Mutant of NextFrame: the loop does not look at m_run.
NextFrameIgnoresStop == Move("frame", "frame_update")

\* The loop over the frames of a batch ends with its bytes or on a stop.
NextFrame == \/ m_run /\ Move("frame", "frame_update")
             \/ Move("frame", "top")

\* A frame, or an exception that gives up the rest of the batch.
ParseFrame ==
  \/ /\ GoTo("parse", "packet_update")
     /\ left' \in 0 .. MaxFrame
     /\ UNCHANGED <<pkt, tuner_valid, store, slotVars>>
     /\ UNCHANGED <<mangVars, taskVars, blockVars, tunerVars, flagVars, historyVars>>
  \/ Move("parse", "frame")

EndOfFrame == ~InLoop /\ Move("packet_update", "frame")

\* The next packet of the frame, or the same one again.
NextPacket ==
  /\ GoTo("packet", "filter")
  /\ \/ pkt # NoPacket /\ UNCHANGED <<left, pkt>>
     \/ /\ pkt = NoPacket
        /\ left' = left - 1
        /\ pkt' \in {p \in Packets : p.type = 1 => accepted + p.size <= MaxSamples}
  /\ UNCHANGED <<tuner_valid, store, slotVars>>
  /\ UNCHANGED <<mangVars, taskVars, blockVars, tunerVars, flagVars, historyVars>>

Drop ==
  /\ pkt' = NoPacket
  /\ UNCHANGED <<left, tuner_valid, store, slotVars>>
  /\ UNCHANGED <<mangVars, taskVars, blockVars, tunerVars, flagVars, historyVars>>

\* Only a stream id above NUM_STREAMS is refused.
FilterPacket ==
  \/ /\ pkt.type # 1 \/ pkt.stream > NUM_STREAMS
     /\ GoTo("filter", "packet_update")
     /\ Drop
  \/ /\ pkt.type = 1 /\ pkt.stream <= NUM_STREAMS
     /\ Move("filter", "lookup")

\* m_mang[stream_id].tuner_valid.  For stream_id = NUM_STREAMS it lies past
\* the array, in the second byte of m_safety_count, which is always zero.
Valid == pkt.stream < NUM_STREAMS /\ tuner_valid

\* The sum is a size_t: a negative one is larger than any buffer.
Full == out_count[out_pointer] + pkt.size \notin 0 .. NUM_COMPLEX - 1

\* Mutant of LookUpStream: the manager waits for room without looking for
\* flips and updates in between.
LookUpStreamSpins ==
  \/ ~Valid /\ GoTo("lookup", "packet_update") /\ Drop
  \/ Valid /\ ~Full /\ Move("lookup", "dispatch")

\* A packet that does not fit is looked at again (it--; continue), for as
\* long as it takes, and whether or not m_run has been cleared.
LookUpStream ==
  \/ ~Valid /\ GoTo("lookup", "packet_update") /\ Drop
  \/ Valid /\ Full /\ Move("lookup", "packet_update")
  \/ Valid /\ ~Full /\ Move("lookup", "dispatch")

\* The first task that is not running is set up: get_active_buffer says
\* where its samples go.
FindTask(i) ==
  /\ GoTo("dispatch", "slot")
  /\ m_run
  /\ ~started[i] /\ \A j \in 1 .. i - 1 : started[j]
  /\ setup_thread' = i
  /\ m_start_index' = out_count[out_pointer]
  /\ UNCHANGED <<left, pkt, tuner_valid, store, mreg>>
  /\ UNCHANGED <<mangVars, taskVars, blockVars, tunerVars, flagVars, historyVars>>

LoadCount ==
  /\ GoTo("slot", "wake")
  /\ mreg' = out_count[out_pointer]
  /\ UNCHANGED <<left, pkt, tuner_valid, store, setup_thread, m_start_index>>
  /\ UNCHANGED <<mangVars, taskVars, blockVars, tunerVars, flagVars, historyVars>>

\* The samples are counted, and the task is woken with the packet.
Dispatch(i) ==
  /\ GoTo("wake", "packet_update")
  /\ i = setup_thread
  /\ job' = [job EXCEPT ![i] = [buf   |-> out_pointer,
                                start |-> m_start_index,
                                count |-> pkt.size,
                                first |-> accepted + 1]]
  /\ out_count' = [out_count EXCEPT ![out_pointer] = mreg + pkt.size]
  /\ started' = [started EXCEPT ![i] = TRUE]
  /\ accepted' = accepted + pkt.size
  /\ pkt' = NoPacket
  /\ setup_thread' = 0 /\ m_start_index' = 0 /\ mreg' = 0
  /\ UNCHANGED <<read_index, out_pointer, flip, out_buff, left, tuner_valid, store>>
  /\ UNCHANGED <<delivered, mixed, crashed>>
  /\ UNCHANGED <<blockVars, tunerVars, flagVars>>

\* Stopped while looking for a task: the thread returns at once.
DispatchStopped == ~m_run /\ Move("dispatch", "exit")

Drain == ~threads_active /\ Move("drain", "exit")

Manager ==
  \/ TopOfLoop \/ NoFlip \/ handle_flip \/ NoUpdate \/ handle_update \/ ClearUpdate
  \/ Quiet \/ get_buffer_list \/ NextFrame \/ ParseFrame \/ EndOfFrame
  \/ NextPacket \/ FilterPacket \/ LookUpStream
  \/ (\E i \in Threads : FindTask(i) \/ Dispatch(i)) \/ LoadCount
  \/ DispatchStopped \/ Drain

-----------------------------------------------------------------------------
(* The tasks.                                                              *)

Cells(j) == j.start .. j.start + j.count - 1

Inside(j) == Cells(j) \subseteq 0 .. NUM_COMPLEX - 1

\* The samples are converted and stored; the slot is emptied.  The index is a
\* uint32_t: a negative one lies far outside the buffer.
process_packet(i) ==
  /\ started[i] /\ job[i] # NoJob
  /\ bpc # "stopped"
  /\ out_buff' = [out_buff EXCEPT ![job[i].buf] =
       [k \in 0 .. NUM_COMPLEX - 1 |->
          IF k \in Cells(job[i]) THEN job[i].first + k - job[i].start ELSE @[k]]]
  /\ job' = [job EXCEPT ![i] = NoJob]
  /\ crashed' = (crashed \/ ~Inside(job[i]))
  /\ UNCHANGED <<started, accepted, delivered, mixed>>
  /\ UNCHANGED <<mangVars, blockVars, tunerVars, flagVars, managerVars>>

TaskSleeps(i) ==
  /\ started[i] /\ job[i] = NoJob
  /\ bpc # "stopped"
  /\ started' = [started EXCEPT ![i] = FALSE]
  /\ UNCHANGED <<out_buff, job>>
  /\ UNCHANGED <<mangVars, blockVars, tunerVars, flagVars, managerVars, historyVars>>

Tasks == \E i \in Threads : process_packet(i) \/ TaskSleeps(i)

-----------------------------------------------------------------------------
(* update_tuners(), called by start() and by set_channel().                *)

UpdateClear(c) ==
  /\ upc[c] = "clear"
  /\ tuner_valid_safe' = FALSE
  /\ upc' = [upc EXCEPT ![c] = "match"]
  /\ UNCHANGED <<tuners, retunes>>
  /\ UNCHANGED <<mangVars, taskVars, blockVars, flagVars, managerVars, historyVars>>

UpdateMatch(c) ==
  /\ upc[c] = "match"
  /\ tuner_valid_safe' = (tuners = 1 \/ tuner_valid_safe)
  /\ upc' = [upc EXCEPT ![c] = "raise"]
  /\ UNCHANGED <<tuners, retunes>>
  /\ UNCHANGED <<mangVars, taskVars, blockVars, flagVars, managerVars, historyVars>>

UpdateRaise(c) ==
  /\ upc[c] = "raise"
  /\ m_update_valid_streams' = TRUE
  /\ upc' = [upc EXCEPT ![c] = "wait"]
  /\ UNCHANGED <<tuners, tuner_valid_safe, retunes, m_run, listening, m_request_flip>>
  /\ UNCHANGED <<mangVars, taskVars, blockVars, managerVars, historyVars>>

UpdateReturn(c) ==
  /\ upc[c] = "wait"
  /\ ~m_update_valid_streams
  /\ upc' = [upc EXCEPT ![c] = "none"]
  /\ UNCHANGED <<tuners, tuner_valid_safe, retunes>>
  /\ UNCHANGED <<mangVars, taskVars, blockVars, flagVars, managerVars, historyVars>>

UpdateTuners(c) ==
  UpdateClear(c) \/ UpdateMatch(c) \/ UpdateRaise(c) \/ UpdateReturn(c)

Phase == CASE bpc \in {"start", "starting"} -> "start"
           [] bpc \in {"stop_listener", "stop_join", "stopped"} -> "stop"
           [] OTHER -> "work"

set_channel(t) ==
  /\ upc["gui"] = "none"
  /\ Phase \in GuiPhases
  /\ retunes < MaxRetunes
  /\ retunes' = retunes + 1
  /\ tuners' = t
  /\ upc' = [upc EXCEPT !["gui"] = "clear"]
  /\ mixed' = (mixed \/ (bpc \in Reading /\ t # tuners))
  /\ UNCHANGED <<tuner_valid_safe, accepted, delivered, crashed>>
  /\ UNCHANGED <<mangVars, taskVars, blockVars, flagVars, managerVars>>

-----------------------------------------------------------------------------
(* The block's thread: start(), work(), stop().                            *)

StartCall ==
  /\ bpc = "start"
  /\ bpc' = "starting"
  /\ upc' = [upc EXCEPT !["block"] = "clear"]
  /\ UNCHANGED <<want, amount, side, breg, m_safety_count>>
  /\ UNCHANGED <<tuners, tuner_valid_safe, retunes>>
  /\ UNCHANGED <<mangVars, taskVars, flagVars, managerVars, historyVars>>

\* A step of the block's thread that leaves the manager, the tasks, the GUI
\* and the histories alone.
BlockMoves == UNCHANGED <<tunerVars, taskVars, managerVars, accepted>>

\* A step of it that only moves its control.
BlockGoes(here, there) ==
  /\ bpc = here
  /\ bpc' = there
  /\ UNCHANGED <<want, amount, side, breg, m_safety_count>>
  /\ UNCHANGED <<mangVars, delivered, mixed, crashed>>
  /\ BlockMoves

StartReturn ==
  /\ upc["block"] = "none"
  /\ BlockGoes("starting", "idle")
  /\ UNCHANGED flagVars

\* GNU Radio asks for n samples.  With a channel that the manager does not
\* have yet, or no longer, the read index grows without end: the bound on it
\* is the end of the buffer.
WorkCall(n) ==
  /\ bpc = "idle"
  /\ read_index[ReadSide] < NUM_COMPLEX
  /\ want' = n
  /\ bpc' = "entry"
  /\ UNCHANGED <<amount, side, breg, m_safety_count>>
  /\ UNCHANGED <<mangVars, flagVars, delivered, mixed, crashed>>
  /\ BlockMoves

\* fill_buffers returns; its locals die.  What it returns is left out.
FillReturns ==
  /\ want' = 0 /\ amount' = 0 /\ side' = 0 /\ breg' = 0
  /\ bpc' = "idle"

\* While an update is pending nothing is delivered.
FillEntry ==
  /\ bpc = "entry"
  /\ \/ /\ m_update_valid_streams
        /\ FillReturns
        /\ UNCHANGED <<m_safety_count, mixed>>
     \/ /\ ~m_update_valid_streams
        /\ m_safety_count' = m_safety_count + 1
        /\ bpc' = "pointer"
        /\ mixed' = (mixed \/ tuner_valid # (tuners = 1))
        /\ UNCHANGED <<want, amount, side, breg>>
  /\ UNCHANGED <<mangVars, flagVars, delivered, crashed>>
  /\ BlockMoves

\* A step of fill_buffers that works on its own variables.
FillGoes(here, there) ==
  /\ bpc = here
  /\ bpc' = there
  /\ UNCHANGED <<want, m_safety_count>>
  /\ UNCHANGED <<delivered, mixed, crashed, m_run, listening, m_update_valid_streams>>
  /\ BlockMoves

\* What can be delivered: everything on the read side of a valid stream, but
\* no more than was asked for.  The side, its count and the validity are read
\* one by one.
FillPointer ==
  /\ FillGoes("pointer", "count")
  /\ flip' = FALSE
  /\ side' = ReadSide
  /\ UNCHANGED <<amount, breg, out_count, read_index, out_pointer, m_request_flip>>

\* Mutant of FillCount: whatever was asked for.
FillCountIgnored ==
  /\ FillGoes("count", "copy")
  /\ amount' = want
  /\ UNCHANGED <<side, breg, mangVars, m_request_flip>>

FillCount ==
  /\ \/ /\ out_count[side] > want
        /\ FillGoes("count", "copy")
        /\ amount' = want
        /\ UNCHANGED breg
     \/ /\ out_count[side] <= want
        /\ FillGoes("count", "valid")
        /\ breg' = out_count[side]
        /\ UNCHANGED amount
  /\ UNCHANGED <<side, mangVars, m_request_flip>>

FillValid ==
  /\ \/ ~tuner_valid /\ FillGoes("valid", "copy") /\ amount' = want
     \/ tuner_valid /\ FillGoes("valid", "min") /\ UNCHANGED amount
  /\ UNCHANGED <<side, breg, mangVars, m_request_flip>>

\* The count is read again, through a pointer that is read again, or either is
\* still in a register.  An empty read side asks for a flip.
FillMin ==
  /\ amount' \in {breg, out_count[side], out_count[ReadSide]}
  /\ \/ amount' = 0 /\ FillGoes("min", "flip")
     \/ amount' # 0 /\ FillGoes("min", "copy")
  /\ flip' = (amount' = 0)
  /\ m_request_flip' = (m_request_flip \/ amount' = 0)
  /\ side' = 0 /\ breg' = 0
  /\ UNCHANGED <<out_count, read_index, out_pointer>>

\* The manager has flipped: try again, unless this was the last of
\* NUM_RECURSIVE attempts.
FillFlipped ==
  /\ bpc = "flip"
  /\ ~m_request_flip
  /\ \/ /\ m_safety_count < NUM_RECURSIVE
        /\ bpc' = "entry"
        /\ UNCHANGED <<want, amount, side, breg, m_safety_count>>
     \/ /\ m_safety_count >= NUM_RECURSIVE
        /\ m_safety_count' = 0
        /\ FillReturns
  /\ UNCHANGED <<mangVars, flagVars, delivered, mixed, crashed>>
  /\ BlockMoves

\* memcpy of amount samples, if a buffer asks for tuner 1.  A negative
\* amount becomes a size_t, and the process dies.
FillCopy ==
  /\ bpc = "copy"
  /\ \/ /\ tuners = 1
        /\ bpc' = "index"
        /\ crashed' = (amount < 0)
        /\ breg' = 0
        /\ UNCHANGED <<want, amount, side, m_safety_count>>
     \/ /\ tuners # 1
        /\ m_safety_count' = 0
        /\ FillReturns
        /\ UNCHANGED crashed
  /\ UNCHANGED <<mangVars, flagVars, delivered, mixed>>
  /\ BlockMoves

\* A register takes a value; a side is read off out_pointer.
FillLoads(here, there, value) ==
  /\ FillGoes(here, there)
  /\ breg' = value
  /\ UNCHANGED <<amount, side, mangVars, m_request_flip>>

FillLooks(here, there, sides) ==
  /\ FillGoes(here, there)
  /\ side' \in sides
  /\ UNCHANGED <<amount, breg, mangVars, m_request_flip>>

\* read_index[!out_pointer] += min, and out_count[!out_pointer] -= min, where
\* the pointer may be read again or be the one just used.
FillIndex     == FillLooks("index", "index_load", {ReadSide})
FillIndexLoad == FillLoads("index_load", "index_store", read_index[side])
FillTotal     == FillLooks("total", "total_load", {side, ReadSide})
FillTotalLoad == FillLoads("total_load", "total_store", out_count[side])

FillIndexStore ==
  /\ FillGoes("index_store", "total")
  /\ read_index' = [read_index EXCEPT ![side] = breg + amount]
  /\ breg' = 0
  /\ UNCHANGED <<amount, side, out_count, out_pointer, flip, m_request_flip>>

FillTotalStore ==
  /\ bpc = "total_store"
  /\ out_count' = [out_count EXCEPT ![side] = breg - amount]
  /\ delivered' = delivered + amount
  /\ m_safety_count' = 0
  /\ FillReturns
  /\ UNCHANGED <<read_index, out_pointer, flip, flagVars, mixed, crashed>>
  /\ BlockMoves

\* stop(): the listener is stopped and joined first.
StopCall ==
  /\ BlockGoes("idle", "stop_listener")
  /\ listening' = FALSE
  /\ UNCHANGED <<m_run, m_request_flip, m_update_valid_streams>>

StopRun ==
  /\ BlockGoes("stop_listener", "stop_join")
  /\ m_run' = FALSE
  /\ UNCHANGED <<listening, m_request_flip, m_update_valid_streams>>

\* The manager's thread is joined, then the tasks are interrupted and joined.
StopJoined ==
  /\ mpc = "exit"
  /\ BlockGoes("stop_join", "stopped")
  /\ UNCHANGED flagVars

Fill ==
  \/ FillEntry \/ FillPointer \/ FillCount \/ FillValid \/ FillMin \/ FillFlipped
  \/ FillCopy \/ FillIndex \/ FillIndexLoad \/ FillIndexStore
  \/ FillTotal \/ FillTotalLoad \/ FillTotalStore

Block == \/ StartCall \/ StartReturn
         \/ \E n \in Requests : WorkCall(n)
         \/ Fill
         \/ StopCall \/ StopRun \/ StopJoined

Alive == ~crashed

Next == /\ Alive
        /\ \/ Manager
           \/ Tasks
           \/ \E c \in Callers : UpdateTuners(c)
           \/ \E t \in Channels : set_channel(t)
           \/ Block

Spec == Init /\ [][Next]_vars

\* Threads are scheduled: the manager, each task, a caller that is inside
\* update_tuners, fill_buffers or stop().  Nothing makes packets arrive or
\* anybody call start(), work(), set_channel() or stop().
Fairness ==
  /\ WF_vars(Alive /\ Manager)
  /\ \A i \in Threads : WF_vars(Alive /\ (process_packet(i) \/ TaskSleeps(i)))
  /\ \A c \in Callers : WF_vars(Alive /\ UpdateTuners(c))
  /\ WF_vars(Alive /\ (Fill \/ StartReturn \/ StopRun \/ StopJoined))

FairSpec == Spec /\ Fairness

-----------------------------------------------------------------------------
(* Properties.                                                             *)

MangTypes ==
  /\ out_count \in [Sides -> Int] /\ read_index \in [Sides -> Int]
  /\ out_pointer \in Sides /\ flip \in BOOLEAN
TaskTypes ==
  /\ out_buff \in [Sides -> [0 .. NUM_COMPLEX - 1 -> 0 .. MaxSamples]]
  /\ started \in [Threads -> BOOLEAN]
  /\ job \in [Threads -> [buf : Sides, start : Int, count : Nat, first : Nat] \cup {NoJob}]
BlockTypes ==
  /\ bpc \in {"start", "starting", "idle", "entry", "flip",
             "stop_listener", "stop_join", "stopped"} \cup Reading
  /\ want \in Nat /\ amount \in Int
  /\ side \in Sides /\ breg \in Int
  /\ m_safety_count \in 0 .. NUM_RECURSIVE
TunerTypes ==
  /\ tuners \in Channels /\ tuner_valid_safe \in BOOLEAN
  /\ upc \in [Callers -> {"none", "clear", "match", "raise", "wait"}]
  /\ retunes \in 0 .. MaxRetunes
FlagTypes ==
  /\ m_run \in BOOLEAN /\ listening \in BOOLEAN
  /\ m_request_flip \in BOOLEAN /\ m_update_valid_streams \in BOOLEAN
ManagerTypes ==
  /\ mpc \in {"top", "main_flip", "main_update", "main_clear", "quiet", "get",
             "frame", "frame_update", "frame_clear", "frame_flip", "parse",
             "packet_update", "packet_clear", "packet_flip", "packet", "filter",
             "lookup", "dispatch", "slot", "wake", "drain", "exit"}
  /\ left \in 0 .. MaxFrame /\ pkt \in Packets \cup {NoPacket}
  /\ tuner_valid \in BOOLEAN
  /\ store \in 0 .. 5
  /\ setup_thread \in 0 .. NUM_THREADS /\ m_start_index \in Int /\ mreg \in Int
HistoryTypes ==
  /\ accepted \in 0 .. MaxSamples /\ delivered \in Int
  /\ mixed \in BOOLEAN /\ crashed \in BOOLEAN

\* The values each variable may take.
TypeOK ==
  /\ MangTypes /\ TaskTypes /\ BlockTypes /\ TunerTypes
  /\ FlagTypes /\ ManagerTypes /\ HistoryTypes

Busy(i) == job[i] # NoJob

\* A task still has its packet only while it counts as running, writes into
\* the write side only, below the end of the buffer and below the count
\* published for it, and no two tasks write the same cell.
WritesApart ==
  \A i \in Threads : Busy(i) =>
    /\ started[i]
    /\ job[i].buf = out_pointer
    /\ \A k \in Cells(job[i]) : k < out_count[out_pointer] /\ k < NUM_COMPLEX
    /\ \A j \in Threads \ {i} : Busy(j) => Cells(job[i]) \cap Cells(job[j]) = {}

\* The packets of a batch lie in the listener's buffer: no task still reads
\* them when the manager asks for the next batch.
SourceHeld == mpc = "get" => \A i \in Threads : ~Busy(i)

\* No lock keeps the tasks and the manager apart, and yet tasks write where
\* nobody else writes or reads, as long as no change of the tuner falls into a
\* call of fill_buffers, and always read what nobody overwrites.
TasksApart == (~mixed => WritesApart) /\ SourceHeld

\* Every sample accepted is delivered once, dropped by an update or still
\* in one of the two sides.
SamplesConserved == accepted = delivered + out_count[0] + out_count[1]

\* fill_buffers has copied what it is about to take off the read side; it has
\* already moved the read index on.
Taking == {"index", "index_load", "index_store", "total", "total_load", "total_store"}
Moved  == {"total", "total_load", "total_store"}

\* Where the first sample counted for the read side lies.
Base == read_index[ReadSide] - (IF bpc \in Moved THEN amount ELSE 0)

\* The read side holds the next samples, in order and complete, and all of
\* them inside the buffer: what fill_buffers copies is the stream.
ReadSideIntact ==
  \A k \in 0 .. out_count[ReadSide] - 1 :
    /\ Base + k \in 0 .. NUM_COMPLEX - 1
    /\ out_buff[ReadSide][Base + k] = delivered + 1 + k

\* The write side holds the samples after those, save for the cells that a
\* task has yet to write.
WriteSideCovered ==
  \A k \in 0 .. out_count[out_pointer] - 1 :
    \/ out_buff[out_pointer][k] = delivered + out_count[ReadSide] + 1 + k
    \/ \E i \in Threads : Busy(i) /\ k \in Cells(job[i])

\* A count is negative, or fill_buffers is about to copy, or has copied, more
\* samples than the read side has, or a negative number.
Overdrawn ==
  \/ \E s \in Sides : out_count[s] < 0
  \/ /\ (bpc = "copy" /\ tuners = 1) \/ bpc \in Taking
     /\ amount \notin 0 .. out_count[ReadSide]

\* Nobody has seen half of a change of the tuner since the last update that
\* fell into no call of fill_buffers, and none is being applied.
Calm == ~mixed /\ store = 0

\* Over any sequence of dispatches, flips, partial reads and retunings the stream
\* comes out of fill_buffers in order, complete and once: counts, indices and
\* contents of both sides agree, and no more is taken than is there.  What can
\* spoil it, and what the process can die of, is only a change of the tuner that
\* falls into a call of fill_buffers; without a retuning there is none, and the
\* next update that falls into no call makes everything right again.
StreamIntact ==
  /\ TypeOK
  /\ retunes = 0 => ~mixed
  /\ crashed => mixed
  /\ Calm => SamplesConserved /\ ReadSideIntact /\ WriteSideCovered /\ ~Overdrawn

\* The cell k of the write side once the tasks have written it.
Settled(k) ==
  IF \E i \in Threads : Busy(i) /\ k \in Cells(job[i])
  THEN LET i == CHOOSE j \in Threads : Busy(j) /\ k \in Cells(job[j])
       IN  job[i].first + k - job[i].start
  ELSE out_buff[out_pointer][k]

\* The samples on the read side from the k-th on, and on the write side, as the
\* memory has them.
ReadPart(k, n) == [m \in 1 .. n |-> out_buff[ReadSide][Base + k + m - 1]]
WritePart == [m \in 1 .. out_count[out_pointer] |-> Settled(m - 1)]

\* The part of the read side that was copied and not taken off yet.
Copied == IF bpc \in Taking THEN amount ELSE 0

\* What waits; an update has dropped it with its first store.
Waiting == IF store # 0 THEN << >>
           ELSE ReadPart(Copied, out_count[ReadSide] - Copied) \o WritePart

Stream == INSTANCE SampleStream WITH
  Capacity <- 2 * NUM_COMPLEX,
  arrived  <- accepted,
  queue    <- Waiting,
  handed   <- ReadPart(0, Copied)

\* complex_manager implements the queue of samples, with the samples read from
\* the cells of both sides and the slots of the tasks.
ImplementsStream == Stream!Spec

\* complex_manager.h, on update_tuners: it sets the given streams as valid.
\* Once no call is in progress, the manager has the tuners of the last one.
UpdateApplied ==
  bpc # "start" /\ (\A c \in Callers : upc[c] = "none") => tuner_valid = (tuners = 1)

\* fill_buffers comes back, with or without data.
FillReturnsEventually ==
  bpc \in {"entry", "flip"} \cup Reading ~> bpc = "idle" \/ crashed

\* update_tuners comes back, unless the manager is being stopped.
UpdateReturns ==
  \A c \in Callers : upc[c] = "wait" ~> (upc[c] # "wait" \/ ~m_run \/ crashed)

\* complex_manager.h, on stop(): it stops and shuts down the manager, its
\* processing threads and the listener.  stop() comes back.
StopReturns == bpc = "stop_join" ~> bpc = "stopped"

\* What can keep stop() waiting is one thing only: a packet in hand that does
\* not fit into the write side.
StopReturnsUnlessFull ==
  bpc = "stop_join" ~>
    (bpc = "stopped" \/ (pkt # NoPacket /\ Valid /\ Full) \/ crashed)
=============================================================================
