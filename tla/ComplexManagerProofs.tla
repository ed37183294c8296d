------------------------- MODULE ComplexManagerProofs -------------------------
(***************************************************************************)
(* Proofs about ComplexManager, for every number of tasks, every size of   *)
(* the buffers, every payload, request and bound.                          *)
(*                                                                         *)
(* Four inductive invariants, each resting on those before.  Inv: types    *)
(* and control, whatever the threads do to one another.  ApartInv: who may *)
(* touch which cells of the double buffer, and what fill_buffers holds in  *)
(* its locals, until a change of the tuner falls into a call of            *)
(* fill_buffers (mixed).  StreamInv: where every accepted sample is, under *)
(* the same condition.  UpdateInv, while at most one thread at a time is   *)
(* inside update_tuners: how the request for an update travels from caller *)
(* to manager and back, and that without set_channel() nothing is mixed.   *)
(* From these, the step-by-step refinement of SampleStream.                *)
(***************************************************************************)
EXTENDS ComplexManager, SequenceTheorems, TLAPS

\* A packet in hand, or one left to look at, where the loop over the packets
\* of a frame has been entered.
LoopOK ==
  mpc \in {"packet_clear", "packet_flip", "packet"} => left > 0 \/ pkt # NoPacket

\* While the stores of an update are under way the manager is where it looked
\* for one, the flag is up and no task runs.
StoreOK ==
  store > 0 => /\ mpc \in {"main_update", "frame_update", "packet_update"}
               /\ InLoop
               /\ m_update_valid_streams
               /\ \A i \in Threads : ~started[i]

\* What filter and look-up have established where a task is set up, and that
\* this task is at rest.
PacketOK ==
  /\ pkt.type = 1 => accepted + pkt.size <= MaxSamples
  /\ mpc \in {"lookup", "dispatch", "slot", "wake"} => pkt.type = 1
  /\ mpc \in {"slot", "wake"} => setup_thread \in Threads /\ ~started[setup_thread]

\* fill_buffers: the count of attempts, and where a flip is waited for.
FillOK ==
  /\ bpc \in {"start", "starting", "idle", "entry"} => m_safety_count < NUM_RECURSIVE
  /\ m_request_flip => bpc = "flip"

\* A packet in the slot of a running task; its samples are among those
\* accepted.
SlotsOK ==
  \A i \in Threads :
    Busy(i) => /\ started[i]
               /\ job[i].first >= 1
               /\ job[i].first + job[i].count <= accepted + 1

\* The tasks are at rest when the next batch is asked for.
GetOK == mpc = "get" => \A i \in Threads : ~started[i]

Inv == TypeOK /\ LoopOK /\ StoreOK /\ PacketOK /\ FillOK /\ SlotsOK /\ GetOK

\* Where fill_buffers holds the side it reads, and where the side's count.
Sided   == {"count", "valid", "min", "index_load", "index_store",
            "total", "total_load", "total_store"}
Counted == {"valid", "min", "total_store"}

\* fill_buffers copies, or has copied, samples of tuner 1.
Holding == (bpc = "copy" /\ tuners = 1) \/ bpc \in Taking

\* While fill_buffers reads, its tuner is the manager's and no update is being
\* applied; what it holds in its locals is what the memory has.
ReadsOK ==
  /\ bpc \in Reading => store = 0 /\ tuner_valid = (tuners = 1)
  /\ bpc \in Sided => side = ReadSide
  /\ bpc \in Counted => breg = out_count[ReadSide]
  /\ bpc = "index_store" => breg = read_index[ReadSide]
  /\ Holding => 0 <= amount /\ amount <= out_count[ReadSide]

\* What the stores of an update have cleared so far.
ZeroedOK ==
  /\ store > 1 => out_count[0] = 0
  /\ store > 2 => out_count[1] = 0
  /\ store > 3 => read_index[0] = 0
  /\ store > 4 => read_index[1] = 0

\* Neither count is negative, and the write side has a cell to spare.
CountsOK ==
  store = 0 => /\ 0 <= out_count[ReadSide]
               /\ 0 <= out_count[out_pointer]
               /\ out_count[out_pointer] < NUM_COMPLEX

\* Between the look-up and the dispatch of a packet its room stays, and the
\* manager's copies of the count of the write side are right.
RoomOK ==
  /\ mpc \in {"dispatch", "slot", "wake"} => ~Full
  /\ mpc \in {"slot", "wake"} => m_start_index = out_count[out_pointer]
  /\ mpc = "wake" => mreg = out_count[out_pointer]

\* A packet in the slot of task i is already counted in the write side.
JobOK(i) ==
  Busy(i) =>
    /\ job[i].buf = out_pointer
    /\ 0 <= job[i].start
    /\ job[i].start + job[i].count <= out_count[out_pointer]

Apart(j, k) == j.start + j.count <= k.start \/ k.start + k.count <= j.start

\* No two packets in slots share a cell.
JobsOK ==
  /\ \A i \in Threads : JobOK(i)
  /\ \A i, j \in Threads : i # j /\ Busy(i) /\ Busy(j) => Apart(job[i], job[j])

ApartInv ==
  ~mixed => ReadsOK /\ ZeroedOK /\ CountsOK /\ RoomOK /\ JobsOK /\ Alive

\* A flip is asked for only when the read side is empty.
FlipOK == m_request_flip => out_count[ReadSide] = 0

\* The packet in a slot has the numbers its place in the write side calls for.
JobsInOrder ==
  \A i \in Threads :
    Busy(i) => job[i].first = delivered + out_count[ReadSide] + 1 + job[i].start

\* Where every sample is.
Settling ==
  FlipOK /\ JobsInOrder /\ SamplesConserved /\ ReadSideIntact /\ WriteSideCovered
StreamInv == Calm => Settling

\* update_tuners has one caller at a time: the GUI does not retune before
\* start() has returned, or has not retuned at all.
OneCaller == "start" \notin GuiPhases \/ retunes = 0

Clearing == {"main_clear", "frame_clear", "packet_clear"}

\* start() calls update_tuners, and nobody else does then.
CallersOK ==
  /\ upc["block"] # "none" => bpc = "starting"
  /\ bpc \in {"start", "starting"} => upc["gui"] = "none"
  /\ retunes = 0 => upc["gui"] = "none"

\* What tuner_valid_safe is at each point of update_tuners; once the flag is
\* down again tuner_valid is what was asked for.
SafeOK ==
  \A c \in Callers :
    /\ upc[c] = "match" => tuner_valid_safe = FALSE
    /\ upc[c] \in {"raise", "wait"} => tuner_valid_safe = (tuners = 1)
    /\ upc[c] = "wait" /\ ~m_update_valid_streams => tuner_valid = (tuners = 1)

\* Somebody waits for a flag that is up; the flag is lowered only after the
\* manager has taken the validity over.
PendingOK ==
  /\ m_update_valid_streams => \E c \in Callers : upc[c] = "wait"
  /\ mpc \in Clearing \/ store > 0 =>
       m_update_valid_streams /\ tuner_valid = tuner_valid_safe

Pending   == CallersOK /\ SafeOK /\ PendingOK /\ UpdateApplied
UpdateInv == (OneCaller => Pending) /\ (retunes = 0 => ~mixed)

-----------------------------------------------------------------------------
\* Which actions change which variables.
Footprint ==
  /\ \/ UNCHANGED out_count
     \/ handle_flip \/ handle_update \/ FillTotalStore \/ \E i \in Threads : Dispatch(i)
  /\ UNCHANGED read_index \/ handle_flip \/ handle_update \/ FillIndexStore
  /\ UNCHANGED out_pointer \/ handle_flip \/ handle_update
  /\ UNCHANGED flip \/ handle_flip \/ FillPointer \/ FillMin
  /\ \/ UNCHANGED taskVars
     \/ \E i \in Threads : Dispatch(i) \/ process_packet(i) \/ TaskSleeps(i)
  /\ UNCHANGED blockVars \/ (Alive /\ Block)
  /\ \/ UNCHANGED tunerVars
     \/ StartCall
     \/ \E c \in Callers : UpdateTuners(c)
     \/ \E t \in Channels : set_channel(t)
  /\ \/ UNCHANGED flagVars
     \/ handle_flip \/ ClearUpdate \/ FillMin \/ StopCall \/ StopRun
     \/ \E c \in Callers : UpdateRaise(c)
  /\ UNCHANGED m_request_flip \/ handle_flip \/ FillMin
  /\ \/ UNCHANGED m_update_valid_streams
     \/ ClearUpdate
     \/ \E c \in Callers : UpdateRaise(c)
  /\ UNCHANGED managerVars \/ Manager
  /\ UNCHANGED <<tuner_valid, store>> \/ handle_update
  /\ \/ UNCHANGED slotVars
     \/ LoadCount \/ \E i \in Threads : FindTask(i) \/ Dispatch(i)
  /\ UNCHANGED accepted \/ \E i \in Threads : Dispatch(i)
  /\ UNCHANGED delivered \/ handle_update \/ FillTotalStore
  /\ UNCHANGED mixed \/ handle_update \/ FillEntry \/ \E t \in Channels : set_channel(t)
  /\ UNCHANGED crashed \/ FillCopy \/ \E i \in Threads : process_packet(i)
  /\ Alive \/ UNCHANGED vars

USE DEF mangVars, taskVars, blockVars, tunerVars, flagVars, managerVars, slotVars,
        historyVars

\* Every step stays within its footprint.
LEMMA FootprintLemma == [Next]_vars => Footprint
<1> SUFFICES ASSUME [Next]_vars PROVE Footprint
  OBVIOUS
<1> USE DEF Footprint
<1>0. CASE UNCHANGED vars
  BY <1>0 DEF vars
<1>1. CASE Alive /\ Manager
  <2>1. CASE TopOfLoop \/ NoFlip \/ NoUpdate \/ Quiet \/ get_buffer_list \/ NextFrame
             \/ EndOfFrame \/ DispatchStopped \/ Drain
    BY <1>1, <2>1 DEF TopOfLoop, NoFlip, NoUpdate, Quiet, get_buffer_list, NextFrame,
         EndOfFrame, DispatchStopped, Drain, Move
  <2>2. CASE handle_flip \/ ClearUpdate
    BY <1>1, <2>2 DEF handle_flip, FlipSides, ClearUpdate
  <2>3. CASE handle_update
    BY <1>1, <2>3 DEF handle_update, ApplyUpdate
  <2>4. CASE ParseFrame \/ NextPacket \/ FilterPacket \/ LookUpStream
    BY <1>1, <2>4 DEF ParseFrame, NextPacket, FilterPacket, LookUpStream, Drop, Move
  <2>5. ASSUME NEW i \in Threads, Dispatch(i) PROVE Footprint
    BY <1>1, <2>5 DEF Dispatch
  <2>6. ASSUME NEW i \in Threads, FindTask(i) PROVE Footprint
    BY <1>1, <2>6 DEF FindTask
  <2>7. CASE LoadCount
    BY <1>1, <2>7 DEF LoadCount
  <2> QED BY <1>1, <2>1, <2>2, <2>3, <2>4, <2>5, <2>6, <2>7 DEF Manager
<1>2. CASE Alive /\ Tasks
  BY <1>2 DEF Tasks, process_packet, TaskSleeps
<1>3. ASSUME Alive, NEW c \in Callers, UpdateTuners(c) PROVE Footprint
  BY <1>3 DEF UpdateTuners, UpdateClear, UpdateMatch, UpdateRaise, UpdateReturn
<1>4. ASSUME Alive, NEW t \in Channels, set_channel(t) PROVE Footprint
  BY <1>4 DEF set_channel
<1>5. CASE Alive /\ Block
  <2> USE <1>5 DEF BlockMoves, BlockGoes, FillGoes
  <2>1. CASE StartCall \/ StartReturn \/ StopCall \/ StopRun \/ StopJoined
             \/ \E n \in Requests : WorkCall(n)
    BY <2>1 DEF StartCall, StartReturn, StopCall, StopRun, StopJoined, WorkCall
  <2>2. CASE FillEntry \/ FillPointer \/ FillCount \/ FillValid \/ FillMin \/ FillFlipped
    BY <2>2 DEF FillEntry, FillPointer, FillCount, FillValid, FillMin, FillFlipped
  <2>3. CASE FillCopy \/ FillIndexStore \/ FillTotalStore
    BY <2>3 DEF FillCopy, FillIndexStore, FillTotalStore
  <2>4. CASE FillIndex \/ FillIndexLoad \/ FillTotal \/ FillTotalLoad
    BY <2>4 DEF FillIndex, FillIndexLoad, FillTotal, FillTotalLoad, FillLooks, FillLoads
  <2> QED BY <2>1, <2>2, <2>3, <2>4 DEF Block, Fill
<1> QED BY <1>0, <1>1, <1>2, <1>3, <1>4, <1>5 DEF Next

-----------------------------------------------------------------------------
USE DEF Threads, Sides, Callers, ReadSide, NUM_STREAMS

\* The control invariant holds initially.
LEMMA InitInv == Init => Inv
<1> SUFFICES ASSUME Init PROVE Inv
  OBVIOUS
<1> USE CountsAssumption, InputsAssumption
<1>1. FlagTypes /\ HistoryTypes
  <2>1. /\ m_run = TRUE /\ listening = TRUE /\ m_request_flip = FALSE
        /\ m_update_valid_streams = FALSE /\ mixed = FALSE /\ crashed = FALSE
        /\ accepted = 0 /\ delivered = 0
    BY DEF Init
  <2>2. FlagTypes /\ mixed \in BOOLEAN /\ crashed \in BOOLEAN
    BY <2>1, Zenon DEF FlagTypes
  <2>3. accepted \in 0 .. MaxSamples /\ delivered \in Int
    BY <2>1
  <2> QED BY <2>2, <2>3, Zenon DEF HistoryTypes
<1>2. MangTypes
  <2>1. out_count \in [Sides -> Int] /\ read_index \in [Sides -> Int]
    BY DEF Init
  <2>2. out_pointer = 0 /\ flip = FALSE
    BY DEF Init
  <2>3. out_pointer \in Sides
    BY <2>2
  <2> QED BY <2>1, <2>2, <2>3, Zenon DEF MangTypes
<1>3. BlockTypes
  BY DEF Init, BlockTypes
<1>4. TunerTypes
  <2>1. upc \in [Callers -> {"none", "clear", "match", "raise", "wait"}]
    BY DEF Init
  <2>2. tuners \in Channels /\ tuner_valid_safe = FALSE /\ retunes = 0
    BY DEF Init
  <2>3. retunes \in 0 .. MaxRetunes
    BY <2>2
  <2> QED BY <2>1, <2>2, <2>3, Zenon DEF TunerTypes
<1>5. TaskTypes /\ ManagerTypes
  <2>1. 0 \in 0 .. MaxSamples /\ 0 \in 0 .. MaxFrame /\ 0 \in 0 .. NUM_THREADS
    OBVIOUS
  <2>2. out_buff \in [Sides -> [0 .. NUM_COMPLEX - 1 -> 0 .. MaxSamples]]
    BY <2>1 DEF Init
  <2>3. TaskTypes
    BY <2>2 DEF Init, TaskTypes
  <2>4. /\ mpc = "top" /\ left = 0 /\ pkt = NoPacket /\ tuner_valid = FALSE
        /\ store = 0 /\ setup_thread = 0 /\ m_start_index = 0 /\ mreg = 0
    BY DEF Init
  <2>5. tuner_valid \in BOOLEAN
    BY <2>4, Zenon
  <2>6. ManagerTypes
    <3> HIDE DEF Init, NoPacket
    <3> QED BY <2>1, <2>4, <2>5 DEF ManagerTypes
  <2> QED BY <2>3, <2>6
<1>6. LoopOK /\ StoreOK /\ PacketOK /\ FillOK /\ GetOK /\ SlotsOK
  BY DEF Init, LoopOK, StoreOK, PacketOK, FillOK, GetOK, NoPacket, SlotsOK, Busy
<1> QED BY <1>1, <1>2, <1>3, <1>4, <1>5, <1>6 DEF Inv, TypeOK

\* The fields of the packet in hand.
LEMMA PacketTypes ==
  ASSUME Inv
  PROVE  /\ pkt.size \in Nat /\ pkt.type \in 0 .. 1 /\ pkt.stream \in Nat
         /\ pkt.type = 1 => pkt \in Packets
<1>1. pkt \in Packets \cup {NoPacket}
  BY DEF Inv, TypeOK, ManagerTypes
<1>2. CASE pkt \in Packets
  <2>1. pkt.size \in Payloads /\ pkt.type \in 0 .. 1 /\ pkt.stream \in StreamIds
    BY <1>2 DEF Packets
  <2>2. \A n \in 0 .. 255 : n \in Nat
    OBVIOUS
  <2> QED BY <1>2, <2>1, <2>2, InputsAssumption
<1>3. CASE pkt = NoPacket
  BY <1>3 DEF NoPacket
<1> QED BY <1>1, <1>2, <1>3

\* What is known where a task is given the packet.
LEMMA DispatchFacts ==
  ASSUME Inv, NEW i \in Threads, Dispatch(i)
  PROVE  /\ mpc = "wake" /\ mpc' = "packet_update" /\ i = setup_thread /\ ~started[i]
         /\ pkt.type = 1 /\ pkt.size \in Nat
         /\ accepted + pkt.size <= MaxSamples
         /\ accepted' = accepted + pkt.size /\ out_pointer' = out_pointer
         /\ out_count' = [out_count EXCEPT ![out_pointer] = mreg + pkt.size]
         /\ UNCHANGED <<mixed, crashed, blockVars, tunerVars, flagVars, read_index, delivered,
                        tuner_valid, store, out_buff>>
<1>1. /\ mpc = "wake" /\ mpc' = "packet_update" /\ i = setup_thread
      /\ accepted' = accepted + pkt.size /\ out_pointer' = out_pointer
      /\ out_count' = [out_count EXCEPT ![out_pointer] = mreg + pkt.size]
      /\ UNCHANGED <<mixed, crashed, blockVars, tunerVars, flagVars, read_index, delivered,
                     tuner_valid, store, out_buff>>
  BY DEF Dispatch, GoTo
<1> QED BY <1>1, PacketTypes DEF Inv, PacketOK

\* The double buffer keeps its types.
LEMMA MangNext == Inv /\ [Next]_vars => MangTypes'
<1> SUFFICES ASSUME Inv, [Next]_vars PROVE MangTypes'
  OBVIOUS
<1>0. MangTypes /\ BlockTypes /\ ManagerTypes
  BY DEF Inv, TypeOK
<1>1. out_count' \in [Sides -> Int]
  <2>1. CASE handle_flip
    <3>1. out_count' = out_count \/ out_count' = [out_count EXCEPT ![ReadSide] = 0]
      BY <2>1 DEF handle_flip, FlipSides
    <3> QED BY <1>0, <3>1 DEF MangTypes
  <2>2. CASE handle_update
    <3>1. \/ out_count' = out_count
          \/ \E s \in Sides : out_count' = [out_count EXCEPT ![s] = 0]
      BY <2>2 DEF handle_update, ApplyUpdate
    <3> QED BY <1>0, <3>1 DEF MangTypes
  <2>3. CASE FillTotalStore
    <3>1. out_count' = [out_count EXCEPT ![side] = breg - amount]
          /\ breg - amount \in Int
      BY <1>0, <2>3 DEF FillTotalStore, BlockTypes
    <3> QED BY <1>0, <3>1 DEF MangTypes
  <2>4. ASSUME NEW i \in Threads, Dispatch(i) PROVE out_count' \in [Sides -> Int]
    <3>1. out_count' = [out_count EXCEPT ![out_pointer] = mreg + pkt.size]
          /\ mreg + pkt.size \in Int
      BY <1>0, <2>4, DispatchFacts DEF ManagerTypes
    <3> QED BY <1>0, <3>1 DEF MangTypes
  <2> QED BY <1>0, <2>1, <2>2, <2>3, <2>4, FootprintLemma DEF Footprint, MangTypes
<1>2. read_index' \in [Sides -> Int]
  <2>1. CASE handle_flip
    <3>1. read_index' = read_index \/ read_index' = [s \in Sides |-> 0]
      BY <2>1 DEF handle_flip, FlipSides
    <3> QED BY <1>0, <3>1 DEF MangTypes
  <2>2. CASE handle_update
    <3>1. \/ read_index' = read_index
          \/ \E s \in Sides : read_index' = [read_index EXCEPT ![s] = 0]
      BY <2>2 DEF handle_update, ApplyUpdate
    <3> QED BY <1>0, <3>1 DEF MangTypes
  <2>3. CASE FillIndexStore
    <3>1. read_index' = [read_index EXCEPT ![side] = breg + amount]
          /\ breg + amount \in Int
      BY <1>0, <2>3 DEF FillIndexStore, BlockTypes
    <3> QED BY <1>0, <3>1 DEF MangTypes
  <2> QED BY <1>0, <2>1, <2>2, <2>3, FootprintLemma DEF Footprint, MangTypes
<1>3. out_pointer' \in Sides
  BY <1>0, FootprintLemma DEF Footprint, MangTypes, handle_flip, FlipSides, handle_update,
     ApplyUpdate
<1>4. flip' \in BOOLEAN
  <2>1. CASE handle_flip \/ FillPointer \/ UNCHANGED flip
    BY <1>0, <2>1 DEF handle_flip, FlipSides, FillPointer, MangTypes
  <2>2. CASE FillMin
    BY <2>2 DEF FillMin
  <2> QED BY <2>1, <2>2, FootprintLemma DEF Footprint
<1> QED BY <1>1, <1>2, <1>3, <1>4 DEF MangTypes

\* The number of samples accepted only grows.
LEMMA HistoryNext == Inv /\ [Next]_vars => HistoryTypes' /\ accepted <= accepted'
<1> SUFFICES ASSUME Inv, [Next]_vars PROVE HistoryTypes' /\ accepted <= accepted'
  OBVIOUS
<1> USE CountsAssumption DEF HistoryTypes
<1>0. HistoryTypes
  BY DEF Inv, TypeOK
<1>1. accepted' \in 0 .. MaxSamples /\ accepted <= accepted'
  <2>1. ASSUME NEW i \in Threads, Dispatch(i)
        PROVE  accepted' \in 0 .. MaxSamples /\ accepted <= accepted'
    BY <1>0, <2>1, DispatchFacts
  <2> QED BY <1>0, <2>1, FootprintLemma DEF Footprint
<1>2. delivered' \in Int
  <2>1. CASE handle_update
    <3>1. delivered' \in {delivered, accepted}
      BY <2>1 DEF handle_update, ApplyUpdate
    <3> QED BY <1>0, <3>1
  <2>2. CASE FillTotalStore
    <3>1. delivered' = delivered + amount /\ amount \in Int
      BY <2>2 DEF FillTotalStore, Inv, TypeOK, BlockTypes
    <3> QED BY <1>0, <3>1
  <2> QED BY <1>0, <2>1, <2>2, FootprintLemma DEF Footprint
<1>3. mixed' \in BOOLEAN
  <2>1. CASE handle_update
    BY <2>1 DEF handle_update, ApplyUpdate
  <2>2. CASE FillEntry
    BY <1>0, <2>2 DEF FillEntry
  <2>3. ASSUME NEW t \in Channels, set_channel(t) PROVE mixed' \in BOOLEAN
    BY <2>3 DEF set_channel
  <2> QED BY <1>0, <2>1, <2>2, <2>3, FootprintLemma DEF Footprint
<1>4. crashed' \in BOOLEAN
  <2>1. CASE FillCopy
    <3>1. crashed' = crashed \/ crashed' = TRUE \/ crashed' = FALSE
      <4>1. CASE amount < 0
        BY <2>1, <4>1 DEF FillCopy
      <4>2. CASE ~(amount < 0)
        BY <2>1, <4>2 DEF FillCopy
      <4> QED BY <4>1, <4>2
    <3> QED BY <1>0, <3>1, Zenon
  <2>2. ASSUME NEW i \in Threads, process_packet(i) PROVE crashed' \in BOOLEAN
    BY <2>2 DEF process_packet
  <2> QED BY <1>0, <2>1, <2>2, FootprintLemma DEF Footprint
<1> QED BY <1>1, <1>2, <1>3, <1>4

\* The flags stay flags.
LEMMA FlagsNext == Inv /\ [Next]_vars => FlagTypes'
<1> SUFFICES ASSUME Inv, [Next]_vars PROVE FlagTypes'
  OBVIOUS
<1> USE DEF FlagTypes
<1>0. FlagTypes
  BY DEF Inv, TypeOK
<1>1. CASE UNCHANGED flagVars
  BY <1>0, <1>1
<1>2. CASE handle_flip
  BY <1>0, <1>2 DEF handle_flip, FlipSides
<1>3. CASE ClearUpdate
  BY <1>0, <1>3 DEF ClearUpdate
<1>4. CASE FillMin
  <2>1. UNCHANGED <<m_run, listening, m_update_valid_streams>>
        /\ m_request_flip' \in BOOLEAN
    BY <1>4 DEF FillMin, FillGoes
  <2> QED BY <1>0, <2>1
<1>5. CASE StopCall
  BY <1>0, <1>5 DEF StopCall
<1>6. CASE StopRun
  BY <1>0, <1>6 DEF StopRun
<1>7. ASSUME NEW c \in Callers, UpdateRaise(c) PROVE FlagTypes'
  BY <1>0, <1>7 DEF UpdateRaise
<1> QED BY <1>1, <1>2, <1>3, <1>4, <1>5, <1>6, <1>7, FootprintLemma DEF Footprint

\* The callers of update_tuners keep their types.
LEMMA TunersNext == Inv /\ [Next]_vars => TunerTypes'
<1> SUFFICES ASSUME Inv, [Next]_vars PROVE TunerTypes'
  OBVIOUS
<1> USE CountsAssumption DEF TunerTypes
<1>0. TunerTypes
  BY DEF Inv, TypeOK
<1>1. CASE UNCHANGED tunerVars
  BY <1>0, <1>1
<1>2. CASE StartCall
  BY <1>0, <1>2 DEF StartCall
<1>3. ASSUME NEW c \in Callers, UpdateTuners(c) PROVE TunerTypes'
  <2>1. tuner_valid_safe' \in BOOLEAN
    BY <1>0, <1>3 DEF UpdateTuners, UpdateClear, UpdateMatch, UpdateRaise, UpdateReturn
  <2>2. upc' \in [Callers -> {"none", "clear", "match", "raise", "wait"}]
    BY <1>0, <1>3 DEF UpdateTuners, UpdateClear, UpdateMatch, UpdateRaise, UpdateReturn
  <2>3. UNCHANGED <<tuners, retunes>>
    BY <1>3 DEF UpdateTuners, UpdateClear, UpdateMatch, UpdateRaise, UpdateReturn
  <2> QED BY <1>0, <2>1, <2>2, <2>3
<1>4. ASSUME NEW t \in Channels, set_channel(t) PROVE TunerTypes'
  BY <1>0, <1>4 DEF set_channel
<1> QED BY <1>1, <1>2, <1>3, <1>4, FootprintLemma DEF Footprint

\* The steps of fill_buffers between its entry and its return.
Inner == \/ FillPointer \/ FillCount \/ FillValid \/ FillMin
         \/ FillIndex \/ FillIndexLoad \/ FillIndexStore \/ FillTotal \/ FillTotalLoad

\* fill_buffers ends after NUM_RECURSIVE attempts, and a request for a flip is
\* up only while it waits for one.
LEMMA BlockNext == Inv /\ [Next]_vars => BlockTypes' /\ FillOK'
<1> SUFFICES ASSUME Inv, [Next]_vars PROVE BlockTypes' /\ FillOK'
  OBVIOUS
<1> USE CountsAssumption, InputsAssumption DEF BlockTypes, FillOK, Reading
<1>0. BlockTypes /\ FillOK /\ m_request_flip \in BOOLEAN
  BY DEF Inv, TypeOK, FlagTypes
<1>1. CASE UNCHANGED <<blockVars, m_request_flip>>
  BY <1>0, <1>1
<1>2. CASE StartCall \/ StartReturn \/ StopCall \/ StopRun \/ StopJoined
  BY <1>0, <1>2 DEF StartCall, StartReturn, StopCall, StopRun, StopJoined, BlockGoes
<1>3. ASSUME NEW n \in Requests, WorkCall(n) PROVE BlockTypes' /\ FillOK'
  BY <1>0, <1>3 DEF WorkCall
<1>4. CASE FillEntry
  BY <1>0, <1>4 DEF FillEntry, FillReturns
<1>5. CASE Inner
  <2>1. side' \in Sides
    <3>1. CASE FillPointer \/ FillIndex \/ FillTotal
      BY <1>0, <3>1 DEF FillPointer, FillIndex, FillTotal, FillLooks, Inv, TypeOK, MangTypes
    <3>2. CASE FillMin \/ FillCount \/ FillValid \/ FillIndexLoad \/ FillIndexStore
               \/ FillTotalLoad
      BY <1>0, <3>2 DEF FillMin, FillCount, FillValid, FillIndexLoad, FillIndexStore,
           FillTotalLoad, FillLoads
    <3> QED BY <1>5, <3>1, <3>2 DEF Inner
  <2>2. amount' \in Int /\ breg' \in Int
    <3>1. /\ \A s \in Sides : out_count[s] \in Int /\ read_index[s] \in Int
          /\ side \in Sides /\ ReadSide \in Sides /\ breg \in Int /\ amount \in Int
          /\ want \in Int /\ breg + amount \in Int
      BY <1>0 DEF Inv, TypeOK, MangTypes
    <3>2. CASE FillMin
      BY <3>1, <3>2 DEF FillMin
    <3>3. CASE FillCount \/ FillValid
      BY <3>1, <3>3 DEF FillCount, FillValid
    <3>4. CASE FillPointer \/ FillIndex \/ FillTotal
      BY <3>1, <3>4 DEF FillPointer, FillIndex, FillTotal, FillLooks
    <3>5. CASE FillIndexLoad \/ FillTotalLoad \/ FillIndexStore
      BY <3>1, <3>5 DEF FillIndexLoad, FillTotalLoad, FillIndexStore, FillLoads
    <3> QED BY <1>5, <3>2, <3>3, <3>4, <3>5 DEF Inner
  <2>3. /\ UNCHANGED <<want, m_safety_count>>
        /\ bpc' \in Reading \cup {"flip"}
        /\ bpc' = "flip" \/ (bpc \in Reading /\ UNCHANGED m_request_flip)
    <3>1. CASE FillPointer \/ FillCount \/ FillValid
      BY <3>1 DEF FillPointer, FillCount, FillValid, FillGoes
    <3>2. CASE FillIndex \/ FillIndexLoad \/ FillIndexStore \/ FillTotal \/ FillTotalLoad
      BY <3>2 DEF FillIndex, FillIndexLoad, FillIndexStore, FillTotal, FillTotalLoad,
           FillLooks, FillLoads, FillGoes
    <3>3. CASE FillMin
      <4>1. UNCHANGED <<want, m_safety_count>> /\ bpc = "min"
        BY <3>3 DEF FillMin, FillGoes
      <4>2. \/ bpc' = "flip"
            \/ bpc' = "copy" /\ amount' # 0 /\ m_request_flip' = (m_request_flip \/ amount' = 0)
        BY <3>3 DEF FillMin, FillGoes
      <4>3. bpc' = "copy" => ~m_request_flip'
        BY <1>0, <4>1, <4>2
      <4> QED BY <1>0, <4>1, <4>2, <4>3
    <3> QED BY <1>5, <3>1, <3>2, <3>3 DEF Inner
  <2> QED BY <1>0, <2>1, <2>2, <2>3
<1>6. CASE FillFlipped
  BY <1>0, <1>6 DEF FillFlipped, FillReturns
<1>7. CASE FillCopy
  BY <1>0, <1>7 DEF FillCopy, FillReturns
<1>8. CASE FillTotalStore
  BY <1>0, <1>8 DEF FillTotalStore, FillReturns
<1>9. CASE Alive /\ Block
  BY <1>2, <1>3, <1>4, <1>5, <1>6, <1>7, <1>8, <1>9 DEF Block, Fill, Inner
<1>10. CASE handle_flip
  <2>1. UNCHANGED blockVars /\ ~m_request_flip'
    BY <1>10 DEF handle_flip, FlipSides
  <2> QED BY <1>0, <2>1
<1>11. CASE FillMin
  BY <1>5, <1>11 DEF Inner
<1> QED BY <1>1, <1>9, <1>10, <1>11, FootprintLemma DEF Footprint

\* Once an update has begun the manager does nothing else until it is done.
LEMMA UpdateFirst ==
  ASSUME Inv, store > 0, Manager
  PROVE  handle_update
<1>1. /\ mpc \in {"main_update", "frame_update", "packet_update"}
      /\ InLoop /\ m_update_valid_streams
  BY DEF Inv, StoreOK
<1>2. ~TopOfLoop /\ ~Quiet /\ ~get_buffer_list /\ ~NextFrame /\ ~ParseFrame /\ ~EndOfFrame
  BY <1>1 DEF TopOfLoop, Quiet, get_buffer_list, NextFrame, ParseFrame, EndOfFrame, Move, GoTo
<1>3. ~NextPacket /\ ~FilterPacket /\ ~LookUpStream /\ ~LoadCount /\ ~DispatchStopped /\ ~Drain
  BY <1>1 DEF NextPacket, FilterPacket, LookUpStream, LoadCount, DispatchStopped, Drain,
     Move, GoTo
<1>4. ~NoFlip /\ ~handle_flip /\ ~NoUpdate /\ ~ClearUpdate
  <2>0. \A p \in FlipPoints : mpc # p[1]
    BY <1>1 DEF FlipPoints
  <2>1. ~NoFlip
    BY <2>0 DEF NoFlip, Move, GoTo
  <2>2. ~handle_flip
    BY <2>0 DEF handle_flip, FlipSides, GoTo
  <2>3. ~NoUpdate
    BY <1>1 DEF NoUpdate
  <2>4. ~ClearUpdate
    BY <1>1 DEF ClearUpdate, UpdatePoints, GoTo
  <2> QED BY <2>1, <2>2, <2>3, <2>4
<1>5. \A i \in Threads : ~FindTask(i) /\ ~Dispatch(i)
  BY <1>1 DEF FindTask, Dispatch, GoTo
<1> QED BY <1>2, <1>3, <1>4, <1>5 DEF Manager

\* Where the stores of an update leave the manager.
LEMMA StoreFacts ==
  ASSUME Inv, handle_update
  PROVE  /\ mpc \in {"main_update", "frame_update", "packet_update"} /\ InLoop
         /\ m_update_valid_streams /\ \A i \in Threads : ~started[i]
         /\ store \in 0 .. 5
         /\ \/ store < 5 /\ store' = store + 1 /\ mpc' = mpc
            \/ store = 5 /\ store' = 0 /\ mpc' \in Clearing
         /\ mpc' = "packet_clear" => mpc = "packet_update" \/ mpc = "packet_clear"
         /\ UNCHANGED <<left, pkt, slotVars, accepted, crashed, flip>>
         /\ UNCHANGED <<taskVars, blockVars, tunerVars, flagVars>>
<1>1. store \in 0 .. 5
  BY DEF Inv, TypeOK, ManagerTypes
<1> QED BY <1>1 DEF handle_update, ApplyUpdate, UpdatePoints, Clearing, threads_active

\* The steps of the manager that neither apply an update nor lower the flag
\* do not come to the point where it is lowered, and do not ask for a batch
\* unless the tasks are at rest.
LEMMA ControlFacts ==
  ASSUME [Next]_vars
  PROVE  /\ mpc' \in Clearing => mpc' = mpc \/ handle_update
         /\ mpc' = "get" => mpc = "get" \/ ~threads_active
<1> USE DEF Clearing
<1>1. CASE NoFlip \/ handle_flip
  BY <1>1 DEF NoFlip, handle_flip, FlipSides, FlipPoints, Move, GoTo
<1>2. CASE NoUpdate \/ ClearUpdate
  BY <1>2 DEF NoUpdate, ClearUpdate, UpdatePoints, Move, GoTo
<1>3. ASSUME NEW i \in Threads, FindTask(i) \/ Dispatch(i)
      PROVE  mpc' \notin Clearing /\ mpc' # "get"
  BY <1>3 DEF FindTask, Dispatch, GoTo
<1>4. CASE TopOfLoop \/ Quiet \/ get_buffer_list \/ NextFrame \/ ParseFrame \/ EndOfFrame
           \/ DispatchStopped \/ Drain \/ NextPacket \/ FilterPacket \/ LookUpStream
           \/ LoadCount
  BY <1>4 DEF TopOfLoop, Quiet, get_buffer_list, NextFrame, ParseFrame, EndOfFrame,
       DispatchStopped, Drain, NextPacket, FilterPacket, LookUpStream, LoadCount, Move, GoTo
<1>5. CASE handle_update
  BY <1>5 DEF handle_update, ApplyUpdate
<1> QED BY <1>1, <1>2, <1>3, <1>4, <1>5, FootprintLemma DEF Footprint, Manager

\* The cells keep their types: a slot only brings numbers of samples accepted.
LEMMA CellsNext ==
  ASSUME Inv, NEW i \in Threads, process_packet(i)
  PROVE  out_buff' \in [Sides -> [0 .. NUM_COMPLEX - 1 -> 0 .. MaxSamples]]
<1> USE CountsAssumption
<1>0. TaskTypes /\ HistoryTypes /\ SlotsOK
  BY DEF Inv, TypeOK
<1>1. job[i] \in [buf : Sides, start : Int, count : Nat, first : Nat] /\ Busy(i)
  BY <1>0 DEF TaskTypes, process_packet, Busy
<1>2. ASSUME NEW k \in 0 .. NUM_COMPLEX - 1, k \in Cells(job[i])
      PROVE  job[i].first + k - job[i].start \in 0 .. MaxSamples
  <2> DEFINE s == job[i].start  f == job[i].first  c == job[i].count
  <2>1. s \in Int /\ f \in Nat /\ c \in Nat /\ accepted \in 0 .. MaxSamples /\ MaxSamples \in Nat
    BY <1>0, <1>1 DEF HistoryTypes
  <2>2. f >= 1 /\ f + c <= accepted + 1
    BY <1>0, <1>1 DEF SlotsOK
  <2>3. k \in s .. s + c - 1
    BY <1>2 DEF Cells
  <2> HIDE DEF s, f, c
  <2>4. f + k - s \in 0 .. MaxSamples
    BY <2>1, <2>2, <2>3
  <2> QED BY <2>4 DEF s, f
<1> DEFINE cells == [k \in 0 .. NUM_COMPLEX - 1 |->
                      IF k \in Cells(job[i]) THEN job[i].first + k - job[i].start
                                             ELSE out_buff[job[i].buf][k]]
<1>3. cells \in [0 .. NUM_COMPLEX - 1 -> 0 .. MaxSamples]
  BY <1>0, <1>1, <1>2 DEF TaskTypes
<1>4. out_buff' = [out_buff EXCEPT ![job[i].buf] = cells]
  BY DEF process_packet
<1> HIDE DEF cells
<1> QED BY <1>0, <1>1, <1>3, <1>4 DEF TaskTypes

\* The slots and cells keep their types, only a running task has a packet, and
\* no task starts while the manager asks for a batch.
LEMMA TasksNext == Inv /\ [Next]_vars => TaskTypes' /\ SlotsOK' /\ GetOK'
<1> SUFFICES ASSUME Inv, [Next]_vars PROVE TaskTypes' /\ SlotsOK' /\ GetOK'
  OBVIOUS
<1> USE CountsAssumption
<1>0. /\ TaskTypes /\ MangTypes /\ HistoryTypes /\ ManagerTypes /\ SlotsOK /\ GetOK
      /\ HistoryTypes' /\ accepted <= accepted'
  BY HistoryNext DEF Inv, TypeOK
<1>1. CASE UNCHANGED taskVars
  <2>1. TaskTypes'
    BY <1>0, <1>1 DEF TaskTypes
  <2>2. GetOK'
    BY <1>0, <1>1, ControlFacts DEF GetOK, threads_active
  <2>3. SlotsOK'
    BY <1>0, <1>1 DEF SlotsOK, Busy, HistoryTypes, TaskTypes
  <2> QED BY <2>1, <2>2, <2>3
<1>2. ASSUME NEW i \in Threads, Dispatch(i) PROVE TaskTypes' /\ SlotsOK' /\ GetOK'
  <2> DEFINE new == [buf |-> out_pointer, start |-> m_start_index,
                     count |-> pkt.size, first |-> accepted + 1]
  <2>1. new \in [buf : Sides, start : Int, count : Nat, first : Nat]
    BY <1>0, <1>2, DispatchFacts DEF MangTypes, HistoryTypes, ManagerTypes
  <2>2. mpc' # "get"
    BY <1>2, DispatchFacts
  <2>3. /\ new.count = pkt.size /\ new.first = accepted + 1
        /\ accepted' = accepted + pkt.size /\ pkt.size \in Nat
    BY <1>2, DispatchFacts
  <2>4. job' = [job EXCEPT ![i] = new] /\ started' = [started EXCEPT ![i] = TRUE]
        /\ out_buff' = out_buff
    BY <1>2 DEF Dispatch
  <2> HIDE DEF new
  <2>5. TaskTypes'
    BY <1>0, <2>1, <2>4 DEF TaskTypes
  <2>6. SlotsOK'
    <3> SUFFICES ASSUME NEW j \in Threads, Busy(j)'
                 PROVE  /\ started'[j]
                        /\ job'[j].first >= 1
                        /\ job'[j].first + job'[j].count <= accepted' + 1
      BY DEF SlotsOK
    <3>1. CASE j = i
      <4>1. job'[j] = new /\ started'[j] = TRUE
        BY <1>0, <2>4, <3>1 DEF TaskTypes
      <4>2. accepted \in Nat
        BY <1>0, CountsAssumption DEF HistoryTypes
      <4> QED BY <2>3, <4>1, <4>2
    <3>2. CASE j # i
      <4>1. job'[j] = job[j] /\ started'[j] = started[j]
        BY <1>0, <2>4, <3>2 DEF TaskTypes
      <4>2. Busy(j) /\ job[j] \in [buf : Sides, start : Int, count : Nat, first : Nat]
        BY <1>0, <4>1 DEF Busy, TaskTypes
      <4> QED BY <1>0, <4>1, <4>2 DEF SlotsOK, HistoryTypes
    <3> QED BY <3>1, <3>2
  <2> QED BY <2>2, <2>5, <2>6 DEF GetOK
<1>3. ASSUME NEW i \in Threads, process_packet(i) PROVE TaskTypes' /\ SlotsOK' /\ GetOK'
  <2>1. UNCHANGED <<started, mpc, accepted>> /\ job' = [job EXCEPT ![i] = NoJob]
    BY <1>3 DEF process_packet
  <2>2. TaskTypes'
    BY <1>0, <1>3, <2>1, CellsNext DEF TaskTypes
  <2>3. SlotsOK'
    BY <1>0, <2>1 DEF SlotsOK, Busy, TaskTypes
  <2> QED BY <1>0, <2>1, <2>2, <2>3 DEF GetOK
<1>4. ASSUME NEW i \in Threads, TaskSleeps(i) PROVE TaskTypes' /\ SlotsOK' /\ GetOK'
  <2>1. /\ UNCHANGED <<out_buff, job, mpc, accepted>> /\ job[i] = NoJob
        /\ started' = [started EXCEPT ![i] = FALSE]
    BY <1>4 DEF TaskSleeps
  <2>2. SlotsOK'
    BY <1>0, <2>1 DEF SlotsOK, Busy, TaskTypes
  <2> QED BY <1>0, <2>1, <2>2 DEF TaskTypes, GetOK
<1> QED BY <1>1, <1>2, <1>3, <1>4, FootprintLemma DEF Footprint

\* The loop over the packets of a frame never looks past its end.
LEMMA ManagerNext == Inv /\ [Next]_vars => ManagerTypes' /\ LoopOK'
<1> SUFFICES ASSUME Inv, [Next]_vars PROVE ManagerTypes' /\ LoopOK'
  OBVIOUS
<1> USE CountsAssumption DEF ManagerTypes, LoopOK
<1>0. ManagerTypes /\ LoopOK
  BY DEF Inv, TypeOK
<1>1. CASE UNCHANGED managerVars
  BY <1>0, <1>1
<1>2. CASE handle_update
  <2>1. tuner_valid' \in BOOLEAN
    BY <1>0, <1>2 DEF handle_update, ApplyUpdate, Inv, TypeOK, TunerTypes
  <2>2. store' \in 0 .. 5
    BY <1>2, StoreFacts
  <2>3. LoopOK'
    BY <1>0, <1>2, StoreFacts DEF InLoop, Clearing
  <2>4. UNCHANGED <<left, pkt, slotVars>> /\ mpc' \in Clearing \cup {mpc}
    BY <1>2, StoreFacts
  <2> QED BY <1>0, <2>1, <2>2, <2>3, <2>4 DEF Clearing
<1>3. CASE NextPacket
  <2>1. GoTo("packet", "filter") /\ UNCHANGED <<tuner_valid, store, slotVars>>
    BY <1>3 DEF NextPacket
  <2>2. CASE UNCHANGED <<left, pkt>>
    BY <1>0, <2>1, <2>2 DEF GoTo
  <2>3. CASE pkt = NoPacket /\ left' = left - 1 /\ pkt' \in Packets
    <3>1. left > 0
      BY <1>0, <2>1, <2>3 DEF GoTo
    <3> QED BY <1>0, <2>1, <2>3, <3>1 DEF GoTo
  <2> QED BY <1>3, <2>2, <2>3 DEF NextPacket
<1>4. ASSUME NEW i \in Threads, Dispatch(i) PROVE ManagerTypes' /\ LoopOK'
  BY <1>0, <1>4 DEF Dispatch, GoTo
<1>5. ASSUME NEW i \in Threads, FindTask(i) PROVE ManagerTypes' /\ LoopOK'
  <2>1. m_start_index' \in Int /\ setup_thread' \in 0 .. NUM_THREADS
    BY <1>5 DEF FindTask, Inv, TypeOK, MangTypes
  <2>2. UNCHANGED <<left, pkt, tuner_valid, store, mreg>> /\ mpc' = "slot"
    BY <1>5 DEF FindTask, GoTo
  <2> QED BY <1>0, <2>1, <2>2
<1>6. CASE LoadCount
  <2>1. mreg' \in Int
    BY <1>6 DEF LoadCount, Inv, TypeOK, MangTypes
  <2>2. UNCHANGED <<left, pkt, tuner_valid, store, setup_thread, m_start_index>> /\ mpc' = "wake"
    BY <1>6 DEF LoadCount, GoTo
  <2> QED BY <1>0, <2>1, <2>2
<1>7. CASE ParseFrame
  BY <1>0, <1>7 DEF ParseFrame, Move, GoTo
<1>8. CASE FilterPacket \/ LookUpStream
  BY <1>0, <1>8 DEF FilterPacket, LookUpStream, Drop, Move, GoTo
<1>9. CASE handle_flip \/ NoFlip
  BY <1>0, <1>9 DEF handle_flip, FlipSides, NoFlip, Move, GoTo, FlipPoints
<1>10. CASE NoUpdate \/ ClearUpdate
  BY <1>0, <1>10 DEF NoUpdate, ClearUpdate, Move, GoTo, UpdatePoints, InLoop
<1>11. CASE TopOfLoop \/ Quiet \/ get_buffer_list \/ NextFrame \/ EndOfFrame \/ DispatchStopped
            \/ Drain
  BY <1>0, <1>11 DEF TopOfLoop, Quiet, get_buffer_list, NextFrame, EndOfFrame,
       DispatchStopped, Drain, Move, GoTo
<1> QED BY <1>1, <1>2, <1>3, <1>4, <1>5, <1>6, <1>7, <1>8, <1>9, <1>10, <1>11,
     FootprintLemma DEF Footprint, Manager

\* Nothing disturbs the manager between the stores of an update.
LEMMA StoreNext == Inv /\ [Next]_vars => StoreOK'
<1> SUFFICES ASSUME Inv, [Next]_vars, store' > 0
             PROVE  /\ mpc' \in {"main_update", "frame_update", "packet_update"}
                    /\ InLoop'
                    /\ m_update_valid_streams'
                    /\ \A i \in Threads : ~started'[i]
  BY DEF StoreOK
<1>0. StoreOK /\ TaskTypes
  BY DEF Inv, TypeOK
<1>1. CASE handle_update
  BY <1>1, StoreFacts DEF InLoop
<1>2. CASE ~handle_update
  <2>1. store > 0 /\ ~Manager
    BY <1>2, FootprintLemma, UpdateFirst DEF Footprint
  <2>2. UNCHANGED managerVars
    BY <2>1, FootprintLemma DEF Footprint
  <2>3. m_update_valid_streams'
    BY <1>0, <2>1, FootprintLemma DEF Footprint, StoreOK, Manager, UpdateRaise
  <2>4. ASSUME NEW i \in Threads PROVE ~started'[i]
    <3>1. \A j \in Threads : ~Dispatch(j)
      BY <2>1 DEF Manager
    <3>2. ASSUME NEW j \in Threads, process_packet(j) \/ TaskSleeps(j) PROVE ~started'[i]
      BY <1>0, <2>1, <3>2 DEF StoreOK, process_packet, TaskSleeps, TaskTypes
    <3> QED BY <1>0, <2>1, <3>1, <3>2, FootprintLemma DEF Footprint, StoreOK
  <2> QED BY <1>0, <2>1, <2>2, <2>3, <2>4 DEF StoreOK, InLoop
<1> QED BY <1>1, <1>2

\* What filter and look-up found is still so when a task is set up for the
\* packet, and that task stays at rest.
LEMMA PacketNext == Inv /\ [Next]_vars => PacketOK'
<1> SUFFICES ASSUME Inv, [Next]_vars PROVE PacketOK'
  OBVIOUS
<1> DEFINE Later == {"lookup", "dispatch", "slot", "wake"}
<1>0. PacketOK /\ TaskTypes
  BY DEF Inv, TypeOK
<1>1. CASE UNCHANGED managerVars
  <2>1. UNCHANGED accepted /\ \A i \in Threads : ~Dispatch(i)
    BY <1>1, FootprintLemma DEF Footprint, Dispatch, GoTo
  <2>2. ASSUME NEW j \in Threads, ~started[j] PROVE ~started'[j]
    <3>1. ASSUME NEW i \in Threads, process_packet(i) \/ TaskSleeps(i) PROVE ~started'[j]
      BY <1>0, <2>2, <3>1 DEF process_packet, TaskSleeps, TaskTypes
    <3> QED BY <2>1, <2>2, <3>1, FootprintLemma DEF Footprint
  <2> QED BY <1>0, <1>1, <2>1, <2>2 DEF PacketOK
<1>2. ASSUME NEW i \in Threads, Dispatch(i) PROVE PacketOK'
  <2>1. pkt' = NoPacket /\ mpc' = "packet_update"
    BY <1>2, DispatchFacts DEF Dispatch
  <2> QED BY <2>1 DEF PacketOK, NoPacket
<1>3. CASE UNCHANGED <<pkt, accepted>> /\ mpc' \notin Later
  BY <1>0, <1>3 DEF PacketOK
<1>4. CASE NextPacket
  <2>1. CASE UNCHANGED pkt
    BY <1>3, <1>4, <2>1 DEF NextPacket, GoTo
  <2>2. CASE pkt' \in Packets /\ (pkt'.type = 1 => accepted + pkt'.size <= MaxSamples)
    BY <1>4, <2>2 DEF NextPacket, GoTo, PacketOK
  <2> QED BY <1>4, <2>1, <2>2 DEF NextPacket
<1>5. CASE pkt' = NoPacket /\ mpc' \notin Later
  BY <1>5 DEF PacketOK, NoPacket
<1>6. CASE FilterPacket
  <2>1. CASE pkt.type = 1 /\ Move("filter", "lookup")
    BY <1>0, <2>1 DEF PacketOK, Move, GoTo
  <2> QED BY <1>5, <1>6, <2>1 DEF FilterPacket, Drop, GoTo
<1>7. CASE LookUpStream
  <2>1. CASE Move("lookup", "dispatch")
    BY <1>0, <2>1 DEF PacketOK, Move, GoTo
  <2>2. CASE Move("lookup", "packet_update")
    BY <1>3, <2>2 DEF Move, GoTo
  <2> QED BY <1>5, <1>7, <2>1, <2>2 DEF LookUpStream, Drop, GoTo
<1>8. ASSUME NEW i \in Threads, FindTask(i) PROVE PacketOK'
  BY <1>0, <1>8 DEF FindTask, GoTo, PacketOK
<1>9. CASE LoadCount
  BY <1>0, <1>9 DEF LoadCount, GoTo, PacketOK
<1>10. CASE handle_flip
  BY <1>3, <1>10 DEF handle_flip, FlipSides, FlipPoints, GoTo
<1>11. CASE handle_update
  BY <1>3, <1>11, StoreFacts DEF Clearing
<1>12. CASE NoFlip \/ NoUpdate \/ ClearUpdate
  BY <1>3, <1>12 DEF NoFlip, NoUpdate, ClearUpdate, FlipPoints, UpdatePoints, Move, GoTo
<1>13. CASE TopOfLoop \/ Quiet \/ get_buffer_list \/ NextFrame \/ ParseFrame \/ EndOfFrame
            \/ DispatchStopped \/ Drain
  BY <1>3, <1>13 DEF TopOfLoop, Quiet, get_buffer_list, NextFrame, ParseFrame, EndOfFrame,
       DispatchStopped, Drain, Move, GoTo
<1> QED BY <1>1, <1>2, <1>4, <1>6, <1>7, <1>8, <1>9, <1>10, <1>11, <1>12, <1>13,
     FootprintLemma DEF Footprint, Manager

\* Types and control are right in every state, whatever the threads do to one
\* another.
THEOREM Invariant == Spec => []Inv
<1>1. Inv /\ [Next]_vars => Inv'
  BY MangNext, HistoryNext, FlagsNext, TunersNext, BlockNext, TasksNext, ManagerNext,
     StoreNext, PacketNext DEF Inv, TypeOK
<1> QED BY InitInv, <1>1, PTL DEF Spec

-----------------------------------------------------------------------------
(* Who may touch what.                                                     *)

Calmly == ReadsOK /\ ZeroedOK /\ CountsOK /\ RoomOK /\ JobsOK /\ Alive

\* It holds initially.
LEMMA InitApart == Init => ApartInv
<1> SUFFICES ASSUME Init PROVE Calmly
  BY DEF ApartInv, Calmly
<1> USE CountsAssumption
<1>1. /\ bpc = "start" /\ mpc = "top" /\ store = 0 /\ out_pointer = 0 /\ crashed = FALSE
      /\ out_count[0] = 0 /\ out_count[1] = 0
      /\ \A i \in Threads : job[i] = NoJob
  BY DEF Init
<1> QED BY <1>1 DEF Calmly, ReadsOK, ZeroedOK, CountsOK, RoomOK, JobsOK, JobOK, Alive, Busy,
     Sided, Counted, Reading, Holding, Taking

\* The first store of an update, where fill_buffers does not read, begins
\* afresh.
LEMMA ApartFirst ==
  ASSUME Inv, [Next]_vars, ~mixed', handle_update, store = 0
  PROVE  Calmly'
<1>1. /\ bpc \notin Reading /\ bpc' = bpc /\ store' = 1 /\ mpc' = mpc
      /\ mpc \in {"main_update", "frame_update", "packet_update"}
      /\ crashed' = crashed /\ job' = job
      /\ \A i \in Threads : ~started[i]
  <2>1. bpc \notin Reading
    BY DEF handle_update, ApplyUpdate
  <2> QED BY <2>1, StoreFacts
<1>2. \A i \in Threads : ~Busy(i)'
  BY <1>1 DEF Inv, SlotsOK, Busy
<1>3. ReadsOK' /\ ZeroedOK' /\ CountsOK'
  BY <1>1 DEF ReadsOK, ZeroedOK, CountsOK, Sided, Counted, Reading, Holding, Taking
<1>4. RoomOK' /\ JobsOK'
  BY <1>1, <1>2 DEF RoomOK, JobsOK, JobOK
<1>5. Alive'
  BY <1>1, FootprintLemma DEF Footprint, Alive, vars
<1> QED BY <1>3, <1>4, <1>5 DEF Calmly

\* The two sides, by name.
LEMMA TwoSides ==
  ASSUME Inv
  PROVE  /\ out_pointer \in Sides /\ ReadSide \in Sides /\ ReadSide # out_pointer
         /\ 1 - ReadSide = out_pointer
         /\ (out_pointer = 0 /\ ReadSide = 1) \/ (out_pointer = 1 /\ ReadSide = 0)
         /\ \A s \in Sides : out_count[s] \in Int /\ read_index[s] \in Int
  BY DEF Inv, TypeOK, MangTypes

\* What the steps that are not fill_buffers' own leave as it was while
\* fill_buffers reads.
Undisturbed ==
  UNCHANGED <<store, tuner_valid, tuners, out_pointer, read_index, out_count[ReadSide], amount,
              side, breg>>

LEMMA ReadsUndisturbed ==
  ASSUME Inv, [Next]_vars, ~mixed', bpc \in Reading, UNCHANGED blockVars
  PROVE  Undisturbed
<1>1. ~handle_update /\ ~handle_flip
  BY DEF handle_update, ApplyUpdate, handle_flip, FlipSides, Inv, FillOK, Reading
<1>2. ~FillTotalStore /\ ~FillIndexStore /\ ~StartCall
  BY DEF FillTotalStore, FillReturns, FillIndexStore, FillGoes, StartCall
<1>3. tuners' = tuners
  <2>1. ASSUME NEW t \in Channels, set_channel(t) PROVE tuners' = tuners
    BY <2>1 DEF set_channel
  <2>2. ASSUME NEW c \in Callers, UpdateTuners(c) PROVE tuners' = tuners
    BY <2>2 DEF UpdateTuners, UpdateClear, UpdateMatch, UpdateRaise, UpdateReturn
  <2> QED BY <1>2, <2>1, <2>2, FootprintLemma DEF Footprint
<1>4. out_count'[ReadSide] = out_count[ReadSide]
  <2>1. ASSUME NEW i \in Threads, Dispatch(i) PROVE out_count'[ReadSide] = out_count[ReadSide]
    BY <2>1, DispatchFacts, TwoSides DEF Inv, TypeOK, MangTypes
  <2> QED BY <1>1, <1>2, <2>1, FootprintLemma DEF Footprint
<1> QED BY <1>1, <1>2, <1>3, <1>4, FootprintLemma DEF Footprint, Undisturbed

\* The steps of the block's thread leave this as it was.
LEMMA BlockFrame ==
  ASSUME Block
  PROVE  /\ UNCHANGED <<store, tuner_valid, tuners, tuner_valid_safe, retunes, out_pointer,
                        accepted, managerVars, taskVars, m_update_valid_streams>>
         /\ upc' = upc \/ StartCall
<1> USE DEF BlockMoves, BlockGoes, FillGoes
<1>1. CASE StartCall \/ StartReturn \/ StopCall \/ StopRun \/ StopJoined
           \/ \E n \in Requests : WorkCall(n)
  BY <1>1 DEF StartCall, StartReturn, StopCall, StopRun, StopJoined, WorkCall
<1>2. CASE FillEntry \/ FillPointer \/ FillCount \/ FillValid \/ FillMin \/ FillFlipped
  BY <1>2 DEF FillEntry, FillPointer, FillCount, FillValid, FillMin, FillFlipped
<1>3. CASE FillCopy \/ FillIndexStore \/ FillTotalStore
  BY <1>3 DEF FillCopy, FillIndexStore, FillTotalStore
<1>4. CASE FillIndex \/ FillIndexLoad \/ FillTotal \/ FillTotalLoad
  BY <1>4 DEF FillIndex, FillIndexLoad, FillTotal, FillTotalLoad, FillLooks, FillLoads
<1> QED BY <1>1, <1>2, <1>3, <1>4 DEF Block, Fill

\* The steps of it that are outside fill_buffers, or leave it, or wait.
Idling ==
  \/ StartCall \/ StartReturn \/ StopCall \/ StopRun \/ StopJoined
  \/ \E n \in Requests : WorkCall(n)
  \/ FillFlipped

LEMMA IdleFrame ==
  ASSUME Idling
  PROVE  /\ UNCHANGED <<mangVars, delivered, mixed, crashed, m_request_flip>>
         /\ bpc \notin Reading /\ bpc' \notin Reading
<1> USE DEF BlockMoves, BlockGoes, Reading
<1> QED BY DEF Idling, StartCall, StartReturn, StopCall, StopRun, StopJoined, WorkCall, FillFlipped,
         FillReturns

\* Every step of the block's thread is one of these.
LEMMA BlockCases ==
  ASSUME Block
  PROVE  Idling \/ FillEntry \/ FillCopy \/ FillTotalStore \/ Inner
  BY DEF Block, Fill, Idling, Inner

\* What fill_buffers holds stays right.
LEMMA ReadsNext ==
  ASSUME Inv, Calmly, [Next]_vars, ~mixed, ~mixed', store # 0 \/ ~handle_update
  PROVE  ReadsOK'
<1>0. ReadsOK /\ CountsOK /\ BlockTypes /\ TunerTypes /\ ManagerTypes
  BY DEF Calmly, Inv, TypeOK
<1> DEFINE R == out_count[ReadSide]
<1>1. /\ R \in Int /\ read_index[ReadSide] \in Int /\ want \in Nat /\ amount \in Int
      /\ breg \in Int
  BY <1>0, TwoSides DEF BlockTypes
<1>2. CASE bpc' \notin Reading
  BY <1>2 DEF ReadsOK, Sided, Counted, Reading, Holding, Taking
<1>3. CASE bpc \in Reading /\ UNCHANGED blockVars
  BY <1>0, <1>3, ReadsUndisturbed DEF ReadsOK, Undisturbed, Holding
<1>4. CASE FillEntry
  <2>1. /\ bpc' \in {"idle", "pointer"}
        /\ bpc' = "pointer" => tuner_valid = (tuners = 1) /\ ~m_update_valid_streams
    BY <1>4 DEF FillEntry, FillReturns
  <2>2. UNCHANGED <<store, tuner_valid, tuners>> /\ (~m_update_valid_streams => store = 0)
    BY <1>0, <1>4, BlockFrame DEF Block, Fill, Inv, StoreOK, ManagerTypes
  <2> QED BY <2>1, <2>2 DEF ReadsOK, Sided, Counted, Reading, Holding, Taking
<1>5. CASE FillCopy /\ bpc' \in Reading
  <2>1. bpc = "copy" /\ tuners = 1 /\ bpc' = "index" /\ UNCHANGED <<amount, mangVars>>
    BY <1>5 DEF FillCopy, FillReturns, Reading
  <2>2. UNCHANGED <<store, tuner_valid, tuners>>
    BY <1>5, BlockFrame DEF Block, Fill
  <2> QED BY <1>0, <2>1, <2>2 DEF ReadsOK, Sided, Counted, Reading, Holding, Taking
<1>6. CASE Inner
  <2>1. /\ UNCHANGED <<store, tuner_valid, tuners, out_pointer>>
        /\ store = 0 /\ tuner_valid = (tuners = 1) /\ bpc \in Reading
        /\ out_count' = out_count
    <3>1. bpc \in Reading /\ out_count' = out_count
      BY <1>6 DEF Inner, FillPointer, FillCount, FillValid, FillMin, FillIndex, FillIndexLoad,
           FillIndexStore, FillTotal, FillTotalLoad, FillLooks, FillLoads, FillGoes, Reading
    <3> QED BY <1>0, <1>6, <3>1, BlockFrame DEF Inner, Block, Fill, ReadsOK
  <2>2. 0 <= R
    BY <1>0, <2>1 DEF CountsOK
  <2> USE DEF FillGoes, ReadsOK, Sided, Counted, Reading, Holding, Taking
  <2> HIDE DEF ReadSide
  <2>3. CASE FillPointer
    BY <2>1, <2>3 DEF FillPointer, ReadSide
  <2>4. CASE FillCount
    BY <1>0, <1>1, <2>1, <2>2, <2>4 DEF FillCount, ReadSide
  <2>5. CASE FillValid
    BY <1>0, <2>1, <2>5 DEF FillValid, ReadSide
  <2>6. CASE FillMin
    <3>1. bpc = "min" /\ bpc' \in {"flip", "copy"} /\ amount' = R
      BY <1>0, <2>6 DEF FillMin, ReadSide
    <3> QED BY <1>1, <2>1, <2>2, <3>1 DEF ReadSide
  <2>7. CASE FillIndex \/ FillTotal
    BY <1>0, <2>1, <2>7 DEF FillIndex, FillTotal, FillLooks, ReadSide
  <2>8. CASE FillIndexLoad \/ FillTotalLoad
    BY <1>0, <2>1, <2>8 DEF FillIndexLoad, FillTotalLoad, FillLoads, ReadSide
  <2>9. CASE FillIndexStore
    BY <1>0, <2>1, <2>9 DEF FillIndexStore, ReadSide
  <2> QED BY <1>6, <2>3, <2>4, <2>5, <2>6, <2>7, <2>8, <2>9 DEF Inner
<1>7. CASE Idling
  BY <1>2, <1>7, IdleFrame
<1>8. CASE FillTotalStore
  BY <1>2, <1>8 DEF FillTotalStore, FillReturns, Reading
<1>9. CASE UNCHANGED blockVars
  BY <1>2, <1>3, <1>9
<1> QED BY <1>2, <1>4, <1>5, <1>6, <1>7, <1>8, <1>9, BlockCases, FootprintLemma DEF Footprint

\* Between its stores an update finds the counts and indices as it left them.
LEMMA ZeroedNext ==
  ASSUME Inv, Calmly, [Next]_vars, ~mixed, ~mixed'
  PROVE  ZeroedOK'
<1>0. ReadsOK /\ ZeroedOK /\ MangTypes /\ ManagerTypes
  BY DEF Calmly, Inv, TypeOK
<1>1. CASE handle_update
  <2>1. store \in 0 .. 5
    BY <1>1, StoreFacts
  <2>2. CASE store = 0
    BY <2>2, <1>1, StoreFacts DEF ZeroedOK
  <2>3. CASE store \in {1, 2}
    <3>1. /\ store' = store + 1 /\ read_index' = read_index
          /\ \E s \in Sides : store = 1 + s /\ out_count' = [out_count EXCEPT ![s] = 0]
      BY <1>1, <2>3 DEF handle_update, ApplyUpdate
    <3> QED BY <1>0, <2>3, <3>1 DEF ZeroedOK, MangTypes
  <2>4. CASE store \in {3, 4}
    <3>1. /\ store' = store + 1 /\ out_count' = out_count
          /\ \E s \in Sides : store = 3 + s /\ read_index' = [read_index EXCEPT ![s] = 0]
      BY <1>1, <2>4 DEF handle_update, ApplyUpdate
    <3> QED BY <1>0, <2>4, <3>1 DEF ZeroedOK, MangTypes
  <2>5. CASE store = 5
    BY <1>1, <2>5, StoreFacts DEF ZeroedOK
  <2> QED BY <2>1, <2>2, <2>3, <2>4, <2>5
<1>2. CASE ~handle_update /\ store > 0
  <2>1. ~Manager
    BY <1>2, UpdateFirst
  <2>2. bpc \notin Reading
    BY <1>0, <1>2 DEF ReadsOK
  <2>3. UNCHANGED <<out_count, read_index, store>>
    BY <1>2, <2>1, <2>2, FootprintLemma DEF Footprint, Manager, FillTotalStore, FillIndexStore,
       FillGoes, Reading
  <2> QED BY <1>0, <2>3 DEF ZeroedOK
<1>3. CASE ~handle_update /\ ~(store > 0)
  BY <1>0, <1>3, FootprintLemma DEF Footprint, ZeroedOK, ManagerTypes
<1> QED BY <1>1, <1>2, <1>3

\* Neither count gets below zero, and the write side never runs full.
LEMMA CountsNext ==
  ASSUME Inv, Calmly, [Next]_vars, ~mixed, ~mixed'
  PROVE  CountsOK'
<1>0. /\ ReadsOK /\ ZeroedOK /\ CountsOK /\ RoomOK /\ MangTypes /\ MangTypes' /\ BlockTypes
      /\ ManagerTypes
  BY MangNext DEF Calmly, Inv, TypeOK
<1> USE CountsAssumption
<1> SUFFICES ASSUME store' = 0
             PROVE  /\ 0 <= out_count'[ReadSide'] /\ 0 <= out_count'[out_pointer']
                    /\ out_count'[out_pointer'] < NUM_COMPLEX
  BY DEF CountsOK
<1>1. CASE handle_update
  <2>1. store = 5
    BY <1>1, StoreFacts
  <2>2. out_pointer' = 0 /\ out_count' = out_count
    BY <1>1, <2>1 DEF handle_update, ApplyUpdate
  <2> QED BY <1>0, <2>1, <2>2 DEF ZeroedOK
<1>2. CASE ~handle_update
  <2>0. store = 0 /\ 0 <= out_count[ReadSide] /\ 0 <= out_count[out_pointer]
        /\ out_count[out_pointer] < NUM_COMPLEX
    BY <1>0, <1>2, FootprintLemma DEF Footprint, CountsOK
  <2>1. CASE UNCHANGED <<out_count, out_pointer>>
    BY <2>0, <2>1
  <2>2. CASE handle_flip
    <3>1. CASE out_pointer' = ReadSide /\ out_count' = [out_count EXCEPT ![ReadSide] = 0]
      <4>1. ReadSide' = out_pointer /\ out_count'[ReadSide] = 0
            /\ out_count'[out_pointer] = out_count[out_pointer]
        BY <1>0, <3>1, TwoSides DEF MangTypes
      <4> QED BY <2>0, <3>1, <4>1
    <3> QED BY <2>1, <2>2, <3>1 DEF handle_flip, FlipSides
  <2>3. ASSUME NEW i \in Threads, Dispatch(i)
        PROVE  /\ 0 <= out_count'[ReadSide'] /\ 0 <= out_count'[out_pointer']
               /\ out_count'[out_pointer'] < NUM_COMPLEX
    <3>1. mreg = out_count[out_pointer] /\ ~Full
      BY <1>0, <2>3, DispatchFacts DEF RoomOK
    <3>2. /\ out_pointer' = out_pointer
          /\ out_count' = [out_count EXCEPT ![out_pointer] = mreg + pkt.size]
      BY <2>3, DispatchFacts
    <3>3. /\ out_count'[ReadSide] = out_count[ReadSide]
          /\ out_count'[out_pointer] = out_count[out_pointer] + pkt.size
      BY <1>0, <3>1, <3>2, TwoSides DEF MangTypes
    <3>4. out_count[out_pointer] + pkt.size \in 0 .. NUM_COMPLEX - 1
      BY <3>1 DEF Full
    <3> QED BY <2>0, <3>2, <3>3, <3>4
  <2>4. CASE FillTotalStore
    <3>1. bpc = "total_store" /\ out_count' = [out_count EXCEPT ![side] = breg - amount]
      BY <2>4 DEF FillTotalStore
    <3>2. side = ReadSide /\ breg = out_count[ReadSide] /\ amount <= out_count[ReadSide]
      BY <1>0, <3>1 DEF ReadsOK, Sided, Counted, Holding, Taking
    <3>3. /\ out_count'[ReadSide] = out_count[ReadSide] - amount
          /\ out_count'[out_pointer] = out_count[out_pointer]
      BY <1>0, <3>1, <3>2, TwoSides DEF MangTypes
    <3>4. out_pointer' = out_pointer
      BY <2>4 DEF FillTotalStore
    <3>5. amount \in Int /\ out_count[ReadSide] \in Int
      BY <1>0, TwoSides DEF BlockTypes
    <3>6. 0 <= out_count[ReadSide] - amount
      BY <3>2, <3>5
    <3> QED BY <2>0, <3>3, <3>4, <3>6
  <2> QED BY <1>2, <2>1, <2>2, <2>3, <2>4, FootprintLemma DEF Footprint
<1> QED BY <1>1, <1>2

\* While the manager's control stays, so do the write side and its count.
LEMMA WriteSideKept ==
  ASSUME Inv, ReadsOK, [Next]_vars, UNCHANGED managerVars
  PROVE  /\ UNCHANGED <<accepted, out_pointer>>
         /\ out_count'[out_pointer] = out_count[out_pointer]
<1>1. ~handle_flip
  <2>1. \A p \in FlipPoints : p[1] # p[2]
    BY DEF FlipPoints
  <2> QED BY <2>1 DEF handle_flip, FlipSides, GoTo
<1>2. ~handle_update
  <2>1. handle_update => store' # store
    BY StoreFacts
  <2> QED BY <2>1
<1>3. \A i \in Threads : ~Dispatch(i)
  BY DEF Dispatch, GoTo
<1>4. CASE FillTotalStore
  <2>1. bpc = "total_store" /\ out_count' = [out_count EXCEPT ![side] = breg - amount]
    BY <1>4 DEF FillTotalStore
  <2>2. side = ReadSide
    BY <2>1 DEF ReadsOK, Sided
  <2>3. out_count'[out_pointer] = out_count[out_pointer]
    BY <2>1, <2>2, TwoSides DEF Inv, TypeOK, MangTypes
  <2> QED BY <1>1, <1>2, <1>3, <2>3, FootprintLemma DEF Footprint
<1> QED BY <1>1, <1>2, <1>3, <1>4, FootprintLemma DEF Footprint

\* What the look-up found is still so when a task is given the packet.
LEMMA RoomNext ==
  ASSUME Inv, Calmly, [Next]_vars
  PROVE  RoomOK'
<1>0. RoomOK /\ ReadsOK
  BY DEF Calmly
<1> DEFINE Late == {"dispatch", "slot", "wake"}
<1>1. CASE UNCHANGED managerVars
  <2>1. UNCHANGED Full
    BY <1>0, <1>1, WriteSideKept DEF Full
  <2> QED BY <1>0, <1>1, <2>1, WriteSideKept DEF RoomOK
<1>2. CASE mpc' \notin Late
  BY <1>2 DEF RoomOK
<1>3. CASE LookUpStream
  <2>1. CASE ~Full /\ Move("lookup", "dispatch")
    BY <2>1 DEF RoomOK, Full, Move, GoTo
  <2> QED BY <1>2, <1>3, <2>1 DEF LookUpStream, Drop, Move, GoTo
<1>4. ASSUME NEW i \in Threads, FindTask(i) PROVE RoomOK'
  BY <1>0, <1>4 DEF FindTask, GoTo, RoomOK, Full
<1>5. CASE LoadCount
  BY <1>0, <1>5 DEF LoadCount, GoTo, RoomOK, Full
<1>6. ASSUME NEW i \in Threads, Dispatch(i) PROVE RoomOK'
  BY <1>2, <1>6, DispatchFacts
<1>7. CASE handle_flip
  <2>1. \A p \in FlipPoints : p[2] \notin Late
    BY DEF FlipPoints
  <2> QED BY <1>2, <1>7, <2>1 DEF handle_flip, FlipSides, GoTo
<1>8. CASE handle_update
  BY <1>2, <1>8, StoreFacts DEF Clearing
<1>9. CASE NoFlip \/ NoUpdate \/ ClearUpdate
  BY <1>2, <1>9 DEF NoFlip, NoUpdate, ClearUpdate, FlipPoints, UpdatePoints, Move, GoTo
<1>10. CASE TopOfLoop \/ Quiet \/ get_buffer_list \/ NextFrame \/ ParseFrame \/ EndOfFrame
            \/ DispatchStopped \/ Drain \/ NextPacket \/ FilterPacket
  BY <1>2, <1>10 DEF TopOfLoop, Quiet, get_buffer_list, NextFrame, ParseFrame, EndOfFrame,
       DispatchStopped, Drain, NextPacket, FilterPacket, Drop, Move, GoTo
<1> QED BY <1>1, <1>3, <1>4, <1>5, <1>6, <1>7, <1>8, <1>9, <1>10, FootprintLemma DEF Footprint,
     Manager

\* The slots stay apart: flips and updates find the tasks at rest, and a
\* dispatch takes the cells above all others.
LEMMA JobsNext ==
  ASSUME Inv, Calmly, [Next]_vars
  PROVE  JobsOK'
<1> USE DEF JobsOK, JobOK, Apart, Busy
<1>0. /\ TaskTypes /\ MangTypes /\ JobsOK /\ ReadsOK /\ CountsOK /\ RoomOK /\ SlotsOK
      /\ TaskTypes' /\ MangTypes'
  BY TasksNext, MangNext DEF Inv, TypeOK, Calmly
<1>1. CASE UNCHANGED <<job, out_pointer>> /\ out_count'[out_pointer] = out_count[out_pointer]
  BY <1>0, <1>1
<1>2. CASE UNCHANGED job /\ ~threads_active
  BY <1>0, <1>2 DEF threads_active, SlotsOK
<1>3. CASE handle_flip \/ handle_update
  BY <1>2, <1>3 DEF handle_flip, FlipSides, handle_update, ApplyUpdate
<1>4. ASSUME NEW i \in Threads, Dispatch(i) PROVE JobsOK'
  <2> DEFINE new == [buf |-> out_pointer, start |-> m_start_index,
                     count |-> pkt.size, first |-> accepted + 1]
             W == out_count[out_pointer]
  <2>1. /\ mreg = W /\ m_start_index = W /\ W \in Int /\ 0 <= W /\ pkt.size \in Nat
    <3>1. store = 0
      BY <1>4, DispatchFacts DEF Inv, StoreOK, TypeOK, ManagerTypes
    <3> QED BY <1>0, <1>4, <3>1, DispatchFacts, TwoSides DEF RoomOK, CountsOK
  <2>2. out_pointer' = out_pointer /\ out_count'[out_pointer] = W + pkt.size
    BY <1>0, <1>4, <2>1, DispatchFacts, TwoSides DEF MangTypes
  <2>3. /\ job'[i] = new
        /\ \A j \in Threads \ {i} : job'[j] = job[j]
    BY <1>0, <1>4 DEF Dispatch, TaskTypes
  <2>4. new.buf = out_pointer /\ new.start = W /\ new.count = pkt.size
    BY <2>1
  <2> HIDE DEF new, W
  <2>5. JobOK(i)'
    BY <2>1, <2>2, <2>3, <2>4
  <2>6. ASSUME NEW j \in Threads \ {i}, Busy(j)'
        PROVE  /\ JobOK(j)' /\ job'[j] = job[j] /\ Busy(j)
               /\ job[j].start \in Int /\ job[j].count \in Nat /\ job[j].start + job[j].count <= W
    <3>1. /\ job[j] \in [buf : Sides, start : Int, count : Nat, first : Nat]
          /\ job'[j] = job[j] /\ JobOK(j) /\ Busy(j)
      BY <1>0, <2>3, <2>6 DEF TaskTypes
    <3> QED BY <1>0, <2>1, <2>2, <3>1 DEF W
  <2>7. ASSUME NEW j \in Threads \ {i}, Busy(j)'
        PROVE  Apart(job'[j], new) /\ Apart(new, job'[j])
    BY <2>4, <2>6, <2>7
  <2>8. ASSUME NEW j \in Threads, NEW k \in Threads, j # k, Busy(j)', Busy(k)'
        PROVE  Apart(job'[j], job'[k])
    <3>1. CASE j # i /\ k # i
      BY <1>0, <2>6, <2>8, <3>1
    <3>2. CASE j = i \/ k = i
      <4> HIDE DEF Apart
      <4> QED BY <2>3, <2>7, <2>8, <3>2
    <3> QED BY <3>1, <3>2
  <2> QED BY <2>5, <2>6, <2>8
<1>5. ASSUME NEW i \in Threads, process_packet(i) PROVE JobsOK'
  <2>1. /\ job'[i] = NoJob /\ UNCHANGED mangVars
        /\ \A j \in Threads \ {i} : job'[j] = job[j]
    BY <1>0, <1>5 DEF process_packet, TaskTypes
  <2> QED BY <1>0, <2>1
<1>6. ASSUME NEW i \in Threads, TaskSleeps(i) PROVE JobsOK'
  BY <1>1, <1>6 DEF TaskSleeps
<1>7. CASE FillTotalStore
  <2>1. UNCHANGED <<job, out_pointer, managerVars>>
    BY <1>7, BlockFrame DEF Block, Fill
  <2> QED BY <1>0, <1>1, <2>1, WriteSideKept
<1>8. CASE UNCHANGED <<taskVars, out_pointer, out_count>>
  BY <1>1, <1>8
<1> QED BY <1>3, <1>4, <1>5, <1>6, <1>7, <1>8, FootprintLemma DEF Footprint

\* The cells a task is about to write lie inside the buffer.
LEMMA WritesWithin ==
  ASSUME Inv, Calmly, NEW i \in Threads, Busy(i)
  PROVE  Inside(job[i])
<1>1. /\ 0 <= job[i].start /\ job[i].start + job[i].count <= out_count[out_pointer]
      /\ started[i]
  BY DEF Calmly, JobsOK, JobOK, Inv, SlotsOK
<1>2. store = 0
  BY <1>1 DEF Inv, StoreOK, TypeOK, ManagerTypes
<1>3. out_count[out_pointer] < NUM_COMPLEX /\ out_count[out_pointer] \in Int
  BY <1>2, TwoSides DEF Calmly, CountsOK
<1>4. job[i].start \in Int /\ job[i].count \in Nat
  BY DEF Inv, TypeOK, TaskTypes, Busy
<1> QED BY <1>1, <1>3, <1>4, CountsAssumption DEF Inside, Cells

\* The process does not die.
LEMMA AliveNext ==
  ASSUME Inv, Calmly, [Next]_vars
  PROVE  Alive'
<1>0. Alive /\ crashed \in BOOLEAN
  BY DEF Calmly, Inv, TypeOK, HistoryTypes
<1>1. CASE FillCopy
  <2>1. bpc = "copy" /\ (tuners = 1 => crashed' = (amount < 0)) /\ (tuners # 1 => crashed' = crashed)
    BY <1>1 DEF FillCopy
  <2>2. tuners = 1 => 0 <= amount /\ amount \in Int
    BY <2>1 DEF Calmly, ReadsOK, Holding, Inv, TypeOK, BlockTypes
  <2> QED BY <1>0, <2>1, <2>2 DEF Alive
<1>2. ASSUME NEW i \in Threads, process_packet(i) PROVE Alive'
  <2>1. Inside(job[i])
    BY <1>2, WritesWithin DEF process_packet, Busy
  <2> QED BY <1>0, <1>2, <2>1 DEF process_packet, Alive
<1> QED BY <1>0, <1>1, <1>2, FootprintLemma DEF Footprint, Alive

\* Every step keeps who may touch what.
LEMMA ApartNext == Inv /\ ApartInv /\ [Next]_vars => ApartInv'
<1> SUFFICES ASSUME Inv, ApartInv, [Next]_vars, ~mixed' PROVE Calmly'
  BY DEF ApartInv, Calmly
<1>1. CASE handle_update /\ store = 0
  BY <1>1, ApartFirst
<1>2. CASE ~(handle_update /\ store = 0)
  <2>1. ~mixed
    <3>1. ASSUME handle_update, mixed, store # 0 PROVE FALSE
      <4>1. store > 0
        BY <3>1, StoreFacts
      <4> QED BY <3>1, <4>1 DEF handle_update, ApplyUpdate
    <3> QED BY <1>2, <3>1, FootprintLemma DEF Footprint, FillEntry, set_channel
  <2>2. Calmly
    BY <2>1 DEF ApartInv, Calmly
  <2> QED BY <1>2, <2>1, <2>2, ReadsNext, ZeroedNext, CountsNext, RoomNext, JobsNext, AliveNext
       DEF Calmly
<1> QED BY <1>1, <1>2

\* Until a change of the tuner falls into a call of fill_buffers, and again
\* after the next update that falls into none, the threads touch only what is
\* theirs.
THEOREM ApartInvariant == Spec => [](Inv /\ ApartInv)
  BY Invariant, InitApart, ApartNext, PTL DEF Spec

\* The invariants are what WritesApart needs.
LEMMA InvWritesApart == Inv /\ Calmly => WritesApart
<1> SUFFICES ASSUME Inv, Calmly, NEW i \in Threads, Busy(i)
             PROVE /\ started[i]
    /\ job[i].buf = out_pointer
    /\ \A k \in Cells(job[i]) : k < out_count[out_pointer] /\ k < NUM_COMPLEX
    /\ \A j \in Threads \ {i} : Busy(j) => Cells(job[i]) \cap Cells(job[j]) = {}
  BY DEF WritesApart
<1>0. /\ TaskTypes /\ JobsOK /\ SlotsOK /\ out_count[out_pointer] \in Int
      /\ \A j \in Threads : Busy(j) => job[j] \in [buf : Sides, start : Int, count : Nat, first : Nat]
  BY TwoSides DEF Inv, TypeOK, Calmly, TaskTypes, Busy
<1>1. started[i] /\ job[i].buf = out_pointer
  BY <1>0 DEF JobsOK, JobOK, SlotsOK
<1>2. \A k \in Cells(job[i]) : k < out_count[out_pointer] /\ k < NUM_COMPLEX
  <2>1. \A k \in Cells(job[i]) : k < out_count[out_pointer]
    BY <1>0 DEF JobsOK, JobOK, Cells
  <2>2. \A k \in Cells(job[i]) : k < NUM_COMPLEX
    BY WritesWithin, CountsAssumption DEF Inside
  <2> QED BY <2>1, <2>2
<1>3. ASSUME NEW j \in Threads \ {i}, Busy(j) PROVE Cells(job[i]) \cap Cells(job[j]) = {}
  <2>1. Apart(job[i], job[j])
    BY <1>0, <1>3 DEF JobsOK
  <2> QED BY <1>0, <1>3, <2>1 DEF Apart, Cells
<1> QED BY <1>1, <1>2, <1>3

\* Although no lock protects the double buffer, a task writes only cells of
\* the write side that were counted for it, that lie inside the buffer and that
\* no other task writes, over any flips, updates and stops and over any
\* retunings but those of which fill_buffers sees only half; and no task still
\* reads a batch when the manager asks for the next one, whatever happens.
THEOREM TasksStayApart == Spec => []TasksApart
<1>1. Inv /\ ApartInv => TasksApart
  <2> SUFFICES ASSUME Inv, ApartInv PROVE TasksApart
    OBVIOUS
  <2>1. ~mixed => WritesApart
    BY InvWritesApart DEF ApartInv, Calmly
  <2>2. SourceHeld
    BY DEF Inv, GetOK, SlotsOK, SourceHeld
  <2> QED BY <2>1, <2>2 DEF TasksApart
<1> QED BY ApartInvariant, <1>1, PTL

-----------------------------------------------------------------------------
(* Where every sample is.                                                  *)

\* It is so initially.
LEMMA InitStream == Init => StreamInv
<1> SUFFICES ASSUME Init PROVE Settling
  BY DEF StreamInv
<1> USE CountsAssumption
<1>1. /\ m_request_flip = FALSE /\ accepted = 0 /\ delivered = 0 /\ out_pointer = 0
      /\ out_count[0] = 0 /\ out_count[1] = 0
      /\ \A i \in Threads : job[i] = NoJob
  BY DEF Init
<1> QED BY <1>1 DEF Settling, FlipOK, JobsInOrder, SamplesConserved, ReadSideIntact,
     WriteSideCovered, Busy

\* The place of the first sample counted for the read side moves only when
\* fill_buffers takes samples off it, and then the sides stay.
LEMMA BaseKept ==
  ASSUME Inv, Calmly, Block, ~FillTotalStore
  PROVE  Base' = Base /\ UNCHANGED <<out_count, out_pointer, delivered>>
<1>0. /\ BlockTypes /\ ReadsOK /\ read_index \in [Sides -> Int]
      /\ ReadSide \in Sides /\ amount \in Int /\ read_index[ReadSide] \in Int
  BY TwoSides DEF Inv, TypeOK, MangTypes, Calmly, BlockTypes
<1>1. CASE FillIndexStore
  <2>1. /\ bpc = "index_store" /\ bpc' = "total" /\ amount' = amount
        /\ read_index' = [read_index EXCEPT ![side] = breg + amount]
        /\ UNCHANGED <<out_count, out_pointer, delivered>>
    BY <1>1 DEF FillIndexStore, FillGoes
  <2>2. side = ReadSide /\ breg = read_index[ReadSide]
    BY <1>0, <2>1 DEF ReadsOK, Sided
  <2>3. read_index'[ReadSide] = read_index[ReadSide] + amount
    BY <1>0, <2>1, <2>2
  <2> QED BY <1>0, <2>1, <2>3 DEF Base, Moved
<1>2. CASE ~FillIndexStore
  <2>1. /\ UNCHANGED <<out_count, out_pointer, delivered, read_index>>
        /\ (bpc \in Moved) = (bpc' \in Moved)
        /\ bpc \in Moved => amount' = amount
    <3> USE DEF BlockMoves, BlockGoes, FillGoes, Moved
    <3>1. CASE StartCall \/ StartReturn \/ StopCall \/ StopRun \/ StopJoined
               \/ \E n \in Requests : WorkCall(n)
      BY <3>1 DEF StartCall, StartReturn, StopCall, StopRun, StopJoined, WorkCall
    <3>2. CASE FillEntry \/ FillFlipped \/ FillCopy
      BY <3>2 DEF FillEntry, FillFlipped, FillCopy, FillReturns
    <3>3. CASE FillPointer \/ FillCount \/ FillValid \/ FillMin
      BY <3>3 DEF FillPointer, FillCount, FillValid, FillMin
    <3>4. CASE FillIndex \/ FillIndexLoad \/ FillTotal \/ FillTotalLoad
      BY <3>4 DEF FillIndex, FillIndexLoad, FillTotal, FillTotalLoad, FillLooks, FillLoads
    <3> QED BY <1>2, <3>1, <3>2, <3>3, <3>4 DEF Block, Fill
  <2> QED BY <2>1 DEF Base
<1> QED BY <1>1, <1>2

\* A request for a flip is raised, and stays up, only over an empty read side.
LEMMA FlipNext ==
  ASSUME Inv, Calmly, Calm, Settling, [Next]_vars, ~handle_update
  PROVE  FlipOK'
<1>0. FlipOK /\ ReadsOK /\ MangTypes /\ FillOK /\ m_request_flip \in BOOLEAN
  BY DEF Settling, Calmly, Inv, TypeOK, FlagTypes
<1>1. CASE handle_flip
  BY <1>1 DEF handle_flip, FlipSides, FlipOK
<1>2. CASE FillMin
  <2>1. /\ bpc = "min" /\ UNCHANGED <<out_count, out_pointer>>
        /\ amount' \in {breg, out_count[side], out_count[ReadSide]}
        /\ m_request_flip' = (m_request_flip \/ amount' = 0)
    BY <1>2 DEF FillMin, FillGoes
  <2>2. amount' = out_count[ReadSide] /\ ~m_request_flip
    BY <1>0, <2>1 DEF ReadsOK, Sided, Counted, FillOK
  <2> QED BY <2>1, <2>2 DEF FlipOK
<1>3. CASE FillTotalStore
  BY <1>0, <1>3 DEF FillTotalStore, FlipOK, FillOK
<1>4. ASSUME NEW i \in Threads, Dispatch(i) PROVE FlipOK'
  <2>1. /\ UNCHANGED <<m_request_flip, out_pointer>>
        /\ out_count'[ReadSide] = out_count[ReadSide]
    BY <1>0, <1>4, DispatchFacts, TwoSides DEF MangTypes
  <2> QED BY <1>0, <2>1 DEF FlipOK
<1>5. CASE UNCHANGED <<m_request_flip, out_count, out_pointer>>
  BY <1>0, <1>5 DEF FlipOK
<1> QED BY <1>1, <1>2, <1>3, <1>4, <1>5, FootprintLemma DEF Footprint

Settled4 == JobsInOrder /\ SamplesConserved /\ ReadSideIntact /\ WriteSideCovered

\* A flip finds the read side empty and the tasks at rest: the samples stay
\* where they are, and only change their side.
LEMMA SettledFlip ==
  ASSUME Inv, Calmly, Calm, Settling, handle_flip
  PROVE  Settled4'
<1>0. /\ MangTypes /\ HistoryTypes /\ FlipOK /\ JobsInOrder /\ SamplesConserved
      /\ ReadSideIntact /\ WriteSideCovered /\ CountsOK /\ store = 0 /\ SlotsOK
  BY DEF Inv, TypeOK, Settling, Calmly, Calm
<1>1. /\ m_request_flip /\ ~threads_active
      /\ UNCHANGED <<taskVars, blockVars, accepted, delivered>>
  BY DEF handle_flip, FlipSides
<1>2. bpc = "flip" /\ bpc \notin Moved
  BY <1>1 DEF Inv, FillOK, Moved
<1>3. CASE UNCHANGED mangVars
  BY <1>0, <1>1, <1>3 DEF Settled4, JobsInOrder, SamplesConserved, ReadSideIntact, Base,
     WriteSideCovered, Busy
<1>4. CASE /\ out_pointer' = ReadSide
           /\ out_count' = [out_count EXCEPT ![ReadSide] = 0]
           /\ read_index' = [s \in Sides |-> 0]
  <2>1. /\ out_count[ReadSide] = 0 /\ ReadSide \in Sides /\ out_pointer \in Sides
        /\ out_count'[ReadSide] = 0 /\ out_count'[out_pointer] = out_count[out_pointer]
        /\ read_index'[out_pointer] = 0
        /\ ReadSide' = out_pointer
    BY <1>0, <1>1, <1>4, TwoSides DEF FlipOK, MangTypes
  <2>2. \A i \in Threads : ~Busy(i) /\ ~Busy(i)'
    BY <1>0, <1>1 DEF threads_active, SlotsOK, Busy
  <2>3. JobsInOrder' /\ WriteSideCovered'
    BY <1>1, <1>4, <2>1, <2>2 DEF JobsInOrder, WriteSideCovered
  <2>4. SamplesConserved'
    BY <1>0, <1>1, <2>1, TwoSides DEF SamplesConserved
  <2>5. ReadSideIntact'
    <3> SUFFICES ASSUME NEW k \in 0 .. out_count'[out_pointer] - 1
                 PROVE  /\ Base' + k \in 0 .. NUM_COMPLEX - 1
                        /\ out_buff'[out_pointer][Base' + k] = delivered' + 1 + k
      BY <2>1 DEF ReadSideIntact
    <3>1. Base' = 0
      BY <1>1, <1>2, <2>1 DEF Base
    <3>2. k \in 0 .. out_count[out_pointer] - 1 /\ k \in 0 .. NUM_COMPLEX - 1 /\ 0 + k = k
      BY <1>0, <2>1, TwoSides, CountsAssumption DEF CountsOK
    <3>3. out_buff[out_pointer][k] = delivered + out_count[ReadSide] + 1 + k
      BY <1>0, <2>2, <3>2 DEF WriteSideCovered
    <3> QED BY <1>0, <1>1, <2>1, <3>1, <3>2, <3>3 DEF HistoryTypes
  <2> QED BY <2>3, <2>4, <2>5 DEF Settled4
<1> QED BY <1>3, <1>4 DEF handle_flip, FlipSides

\* A packet joins at the end of the write side.
LEMMA SettledDispatch ==
  ASSUME Inv, Calmly, Calm, Settling, NEW i \in Threads, Dispatch(i)
  PROVE  Settled4'
<1> DEFINE new == [buf |-> out_pointer, start |-> m_start_index,
                   count |-> pkt.size, first |-> accepted + 1]
           W == out_count[out_pointer]  R == out_count[ReadSide]
<1>0. /\ MangTypes /\ HistoryTypes /\ TaskTypes /\ JobsInOrder /\ SamplesConserved
      /\ ReadSideIntact /\ WriteSideCovered /\ CountsOK /\ RoomOK /\ SlotsOK /\ store = 0
  BY DEF Inv, TypeOK, Settling, Calmly, Calm
<1>1. /\ mreg = W /\ m_start_index = W /\ W \in Int /\ 0 <= W /\ pkt.size \in Nat /\ R \in Int
  BY <1>0, DispatchFacts, TwoSides DEF RoomOK, CountsOK
<1>2. /\ out_pointer' = out_pointer /\ out_count'[out_pointer] = W + pkt.size
      /\ out_count'[ReadSide] = R /\ accepted' = accepted + pkt.size
  BY <1>0, <1>1, DispatchFacts, TwoSides DEF MangTypes
<1>3. UNCHANGED <<read_index, out_buff, delivered, blockVars>>
  BY DispatchFacts
<1>4. /\ job'[i] = new
      /\ \A j \in Threads \ {i} : job'[j] = job[j]
  BY <1>0 DEF Dispatch, TaskTypes
<1>5. accepted = delivered + R + W /\ accepted \in Int /\ delivered \in Int
  BY <1>0, <1>1, TwoSides DEF SamplesConserved, HistoryTypes
<1>6. /\ new.start = W /\ new.count = pkt.size /\ new.first = accepted + 1 /\ new # NoJob
  BY <1>1 DEF NoJob
<1> HIDE DEF new
<1>7. ReadSideIntact'
  BY <1>0, <1>2, <1>3 DEF ReadSideIntact, Base
<1>8. SamplesConserved'
  BY <1>1, <1>2, <1>3, <1>5, TwoSides DEF SamplesConserved
<1>9. JobsInOrder'
  <2>1. new.first = delivered + R + 1 + new.start
    BY <1>1, <1>5, <1>6
  <2> QED BY <1>0, <1>2, <1>3, <1>4, <2>1 DEF JobsInOrder, Busy
<1>10. WriteSideCovered'
  <2> SUFFICES ASSUME NEW k \in 0 .. out_count'[out_pointer] - 1
               PROVE  \/ out_buff[out_pointer][k] = delivered + R + 1 + k
                      \/ \E j \in Threads : Busy(j)' /\ k \in Cells(job'[j])
    BY <1>2, <1>3 DEF WriteSideCovered
  <2>1. CASE k < W
    <3>1. \A j \in Threads : Busy(j) => j # i
      BY <1>0, DispatchFacts DEF SlotsOK
    <3> QED BY <1>0, <1>1, <1>4, <2>1, <3>1 DEF WriteSideCovered, Busy
  <2>2. CASE k >= W
    <3>1. k \in Cells(new)
      BY <1>1, <1>2, <1>6, <2>2 DEF Cells
    <3> QED BY <1>4, <1>6, <3>1 DEF Busy
  <2> QED BY <1>1, <2>1, <2>2
<1> QED BY <1>7, <1>8, <1>9, <1>10 DEF Settled4

\* A task fills its cells with the samples that belong there.
LEMMA SettledTask ==
  ASSUME Inv, Calmly, Calm, Settling, NEW i \in Threads, process_packet(i)
  PROVE  Settled4'
<1>0. /\ MangTypes /\ HistoryTypes /\ TaskTypes /\ JobsOK /\ JobsInOrder /\ SamplesConserved
      /\ ReadSideIntact /\ WriteSideCovered /\ CountsOK /\ store = 0
  BY DEF Inv, TypeOK, Settling, Calmly, Calm
<1>1. /\ Busy(i) /\ job[i] \in [buf : Sides, start : Int, count : Nat, first : Nat]
      /\ UNCHANGED <<mangVars, blockVars, accepted, delivered>>
      /\ job'[i] = NoJob /\ \A j \in Threads \ {i} : job'[j] = job[j]
  BY <1>0 DEF process_packet, Busy, TaskTypes
<1>2. job[i].buf = out_pointer /\ ReadSide # out_pointer
  BY <1>0, <1>1, TwoSides DEF JobsOK, JobOK
<1>3. /\ out_buff'[ReadSide] = out_buff[ReadSide]
      /\ \A k \in 0 .. NUM_COMPLEX - 1 :
           out_buff'[out_pointer][k] =
             IF k \in Cells(job[i]) THEN job[i].first + k - job[i].start
                                    ELSE out_buff[out_pointer][k]
  <2> DEFINE cells == [k \in 0 .. NUM_COMPLEX - 1 |->
                        IF k \in Cells(job[i]) THEN job[i].first + k - job[i].start
                                               ELSE out_buff[job[i].buf][k]]
  <2>1. out_buff' = [out_buff EXCEPT ![job[i].buf] = cells]
    BY DEF process_packet
  <2>2. \A k \in 0 .. NUM_COMPLEX - 1 :
          cells[k] = IF k \in Cells(job[i]) THEN job[i].first + k - job[i].start
                                            ELSE out_buff[out_pointer][k]
    BY <1>2
  <2> HIDE DEF cells
  <2>3. out_buff'[ReadSide] = out_buff[ReadSide] /\ out_buff'[out_pointer] = cells
    BY <1>0, <1>2, <2>1, TwoSides DEF TaskTypes
  <2> QED BY <2>2, <2>3
<1>4. SamplesConserved'
  BY <1>0, <1>1 DEF SamplesConserved
<1>5. ReadSideIntact'
  BY <1>0, <1>1, <1>3 DEF ReadSideIntact, Base
<1>6. JobsInOrder'
  BY <1>0, <1>1 DEF JobsInOrder, Busy
<1>7. WriteSideCovered'
  <2> SUFFICES ASSUME NEW k \in 0 .. out_count[out_pointer] - 1
               PROVE  \/ out_buff'[out_pointer][k] = delivered + out_count[ReadSide] + 1 + k
                      \/ \E j \in Threads : Busy(j)' /\ k \in Cells(job'[j])
    BY <1>1 DEF WriteSideCovered
  <2>1. k \in 0 .. NUM_COMPLEX - 1 /\ k \in Int
    BY <1>0, TwoSides, CountsAssumption DEF CountsOK
  <2>2. CASE k \in Cells(job[i])
    <3>1. out_buff'[out_pointer][k] = job[i].first + k - job[i].start
      BY <1>3, <2>1, <2>2
    <3>2. job[i].first = delivered + out_count[ReadSide] + 1 + job[i].start
      BY <1>0, <1>1 DEF JobsInOrder
    <3> QED BY <1>0, <1>1, <2>1, <3>1, <3>2, TwoSides DEF HistoryTypes
  <2>3. CASE k \notin Cells(job[i])
    <3>1. out_buff'[out_pointer][k] = out_buff[out_pointer][k]
      BY <1>3, <2>1, <2>3
    <3> QED BY <1>0, <1>1, <2>3, <3>1 DEF WriteSideCovered, Busy
  <2> QED BY <2>2, <2>3
<1> QED BY <1>4, <1>5, <1>6, <1>7 DEF Settled4

\* fill_buffers takes samples off the front of the read side.
LEMMA SettledTotal ==
  ASSUME Inv, Calmly, Calm, Settling, FillTotalStore
  PROVE  Settled4'
<1> DEFINE R == out_count[ReadSide]
<1>0. /\ MangTypes /\ HistoryTypes /\ BlockTypes /\ ReadsOK /\ JobsInOrder /\ SamplesConserved
      /\ ReadSideIntact /\ WriteSideCovered
  BY DEF Inv, TypeOK, Settling, Calmly
<1>1. /\ bpc = "total_store" /\ bpc' = "idle"
      /\ out_count' = [out_count EXCEPT ![side] = breg - amount]
      /\ delivered' = delivered + amount
      /\ UNCHANGED <<out_pointer, read_index, taskVars, accepted>>
  BY DEF FillTotalStore, FillReturns, BlockMoves
<1>2. /\ side = ReadSide /\ breg = R /\ 0 <= amount /\ amount <= R
  BY <1>0, <1>1 DEF ReadsOK, Sided, Counted, Holding, Taking
<1>3. /\ amount \in Int /\ R \in Int /\ delivered \in Int /\ accepted \in Int
      /\ out_count[out_pointer] \in Int /\ read_index[ReadSide] \in Int
  BY <1>0, TwoSides DEF BlockTypes, HistoryTypes
<1>4. /\ out_count'[ReadSide] = R - amount
      /\ out_count'[out_pointer] = out_count[out_pointer]
      /\ ReadSide' = ReadSide
  BY <1>0, <1>1, <1>2, TwoSides DEF MangTypes
<1>5. delivered' + out_count'[ReadSide] = delivered + R
  BY <1>1, <1>3, <1>4
<1>6. SamplesConserved'
  BY <1>0, <1>1, <1>3, <1>4, <1>5, TwoSides DEF SamplesConserved
<1>7. JobsInOrder' /\ WriteSideCovered'
  BY <1>0, <1>1, <1>4, <1>5 DEF JobsInOrder, WriteSideCovered, Busy
<1>8. ReadSideIntact'
  <2> SUFFICES ASSUME NEW k \in 0 .. out_count'[ReadSide] - 1
               PROVE  /\ Base' + k \in 0 .. NUM_COMPLEX - 1
                      /\ out_buff[ReadSide][Base' + k] = delivered' + 1 + k
    BY <1>1, <1>4 DEF ReadSideIntact
  <2>1. Base' = read_index[ReadSide] /\ Base = read_index[ReadSide] - amount
    BY <1>1, <1>3, <1>4 DEF Base, Moved
  <2>2. amount + k \in 0 .. R - 1
    BY <1>2, <1>3, <1>4
  <2>3. /\ Base + (amount + k) \in 0 .. NUM_COMPLEX - 1
        /\ out_buff[ReadSide][Base + (amount + k)] = delivered + 1 + (amount + k)
    BY <1>0, <2>2 DEF ReadSideIntact
  <2>4. Base + (amount + k) = Base' + k /\ delivered + 1 + (amount + k) = delivered' + 1 + k
    BY <1>1, <1>3, <1>4, <2>1
  <2> QED BY <2>3, <2>4
<1> QED BY <1>6, <1>7, <1>8 DEF Settled4

\* An update leaves nothing behind.
LEMMA SettledUpdate ==
  ASSUME Inv, Calmly, handle_update, store = 5
  PROVE  Settled4' /\ FlipOK'
<1>0. ZeroedOK /\ SlotsOK /\ HistoryTypes
  BY DEF Calmly, Inv, TypeOK
<1>1. /\ out_pointer' = 0 /\ delivered' = accepted /\ UNCHANGED <<out_count, read_index>>
      /\ UNCHANGED <<job, accepted>>
  BY DEF handle_update, ApplyUpdate
<1>2. out_count'[0] = 0 /\ out_count'[1] = 0
  BY <1>0, <1>1 DEF ZeroedOK
<1>3. \A i \in Threads : ~Busy(i)'
  BY <1>0, <1>1, StoreFacts DEF SlotsOK, Busy
<1>4. JobsInOrder' /\ WriteSideCovered' /\ ReadSideIntact' /\ SamplesConserved'
  BY <1>0, <1>1, <1>2, <1>3 DEF JobsInOrder, WriteSideCovered, ReadSideIntact, SamplesConserved,
     HistoryTypes
<1> QED BY <1>1, <1>2, <1>4 DEF Settled4, FlipOK

\* The other steps leave the samples alone.
LEMMA SettledStill ==
  ASSUME Inv, Calmly, Settling, UNCHANGED <<out_count, out_pointer, delivered, accepted, out_buff, job>>,
         Base' = Base
  PROVE  Settled4'
<1>0. JobsInOrder /\ SamplesConserved /\ ReadSideIntact /\ WriteSideCovered
  BY DEF Settling
<1>1. JobsInOrder' /\ SamplesConserved' /\ WriteSideCovered'
  BY <1>0 DEF JobsInOrder, SamplesConserved, WriteSideCovered, Busy
<1>2. ReadSideIntact'
  <2> HIDE DEF Base
  <2> QED BY <1>0 DEF ReadSideIntact
<1> QED BY <1>1, <1>2 DEF Settled4

\* A calm state follows a calm one, or the last store of an update.
LEMMA CalmBefore ==
  ASSUME Inv, [Next]_vars, Calm'
  PROVE  (Calm /\ ~handle_update) \/ (~mixed /\ handle_update /\ store = 5)
<1>1. CASE handle_update
  <2>1. store = 5
    BY <1>1, StoreFacts DEF Calm
  <2>2. mixed => mixed'
    <3>1. mixed' = (bpc \in Reading \/ (mixed /\ store > 0))
      BY <1>1 DEF handle_update, ApplyUpdate
    <3>2. store > 0
      BY <2>1
    <3> QED BY <3>1, <3>2, Zenon
  <2> QED BY <1>1, <2>1, <2>2 DEF Calm
<1>2. CASE ~handle_update
  <2>1. mixed => mixed'
    BY <1>2, FootprintLemma DEF Footprint, FillEntry, set_channel
  <2> QED BY <1>2, <2>1, FootprintLemma DEF Footprint, Calm
<1> QED BY <1>1, <1>2

\* Every step keeps the samples where the counts say.
LEMMA StreamNext == Inv /\ ApartInv /\ StreamInv /\ [Next]_vars => StreamInv'
<1> SUFFICES ASSUME Inv, ApartInv, StreamInv, [Next]_vars, Calm' PROVE Settling'
  BY DEF StreamInv
<1>1. CASE ~mixed /\ handle_update /\ store = 5
  BY <1>1, SettledUpdate DEF ApartInv, Calmly, Settling, Settled4
<1>2. CASE Calm /\ ~handle_update
  <2>1. Calmly /\ Settling
    BY <1>2 DEF ApartInv, Calmly, StreamInv, Calm
  <2>2. FlipOK'
    BY <1>2, <2>1, FlipNext
  <2>3. Settled4'
    <3>1. CASE handle_flip
      BY <1>2, <2>1, <3>1, SettledFlip
    <3>2. ASSUME NEW i \in Threads, Dispatch(i) PROVE Settled4'
      BY <1>2, <2>1, <3>2, SettledDispatch
    <3>3. ASSUME NEW i \in Threads, process_packet(i) PROVE Settled4'
      BY <1>2, <2>1, <3>3, SettledTask
    <3>4. CASE FillTotalStore
      BY <1>2, <2>1, <3>4, SettledTotal
    <3>5. CASE Block /\ ~FillTotalStore
      BY <2>1, <3>5, BaseKept, BlockFrame, SettledStill
    <3>6. ASSUME NEW i \in Threads, TaskSleeps(i) PROVE Settled4'
      BY <2>1, <3>6, SettledStill DEF TaskSleeps, Base
    <3>7. CASE UNCHANGED <<out_count, read_index, out_pointer, blockVars, delivered, accepted,
                           taskVars>>
      BY <2>1, <3>7, SettledStill DEF Base
    <3>8. CASE FillIndexStore
      BY <3>5, <3>8 DEF Block, Fill, FillIndexStore, FillTotalStore, FillGoes
    <3> QED BY <1>2, <3>1, <3>2, <3>3, <3>4, <3>5, <3>6, <3>7, <3>8, FootprintLemma DEF Footprint
  <2> QED BY <2>2, <2>3 DEF Settling, Settled4
<1> QED BY <1>1, <1>2, CalmBefore

-----------------------------------------------------------------------------
(* The handshake between callers and manager.                              *)

\* The update invariant holds initially.
LEMMA InitUpdate == Init => UpdateInv
  BY DEF Init, UpdateInv, Pending, CallersOK, SafeOK, PendingOK, UpdateApplied, Clearing

\* The number of calls of set_channel only grows.
LEMMA RetunesGrow == Inv /\ [Next]_vars /\ retunes' = 0 => retunes = 0
  BY FootprintLemma DEF Inv, TypeOK, Footprint, StartCall, UpdateTuners, UpdateClear,
     UpdateMatch, UpdateRaise, UpdateReturn, set_channel, TunerTypes

\* Every step keeps what is pending.
LEMMA PendingNext == Inv /\ UpdateInv /\ [Next]_vars /\ OneCaller' => Pending'
<1> SUFFICES ASSUME Inv, UpdateInv, [Next]_vars, OneCaller' PROVE Pending'
  OBVIOUS
<1> USE DEF Pending, CallersOK, SafeOK, PendingOK, UpdateApplied
<1>0. TunerTypes /\ BlockTypes /\ FlagTypes /\ ManagerTypes
  BY DEF Inv, TypeOK
<1>1. OneCaller /\ CallersOK /\ SafeOK /\ PendingOK /\ UpdateApplied
  BY RetunesGrow DEF UpdateInv, OneCaller
<1>2. CASE UNCHANGED <<tunerVars, blockVars, m_update_valid_streams, tuner_valid, store>>
  <2>1. mpc' \in Clearing => mpc \in Clearing
    <3>1. handle_update => store' # store
      BY StoreFacts
    <3> QED BY <1>2, <3>1, ControlFacts
  <2> QED BY <1>1, <1>2, <2>1
<1>3. CASE handle_update
  <2>1. /\ m_update_valid_streams /\ UNCHANGED <<tunerVars, blockVars, flagVars>>
        /\ store \in 0 .. 5
    BY <1>3, StoreFacts
  <2>2. tuner_valid' = tuner_valid_safe
    <3>1. CASE store = 0
      BY <1>3, <3>1 DEF handle_update, ApplyUpdate
    <3>2. CASE store # 0
      <4>1. store > 0 /\ tuner_valid' = tuner_valid
        BY <1>3, <2>1, <3>2 DEF handle_update, ApplyUpdate
      <4> QED BY <1>1, <4>1
    <3> QED BY <3>1, <3>2
  <2> QED BY <1>0, <1>1, <2>1, <2>2
<1>4. CASE ClearUpdate
  <2>1. /\ mpc \in Clearing /\ mpc' \notin Clearing /\ UNCHANGED store
        /\ m_update_valid_streams' = FALSE
        /\ UNCHANGED <<tunerVars, blockVars, tuner_valid>>
    BY <1>4 DEF ClearUpdate, UpdatePoints, GoTo, Clearing
  <2>2. store = 0
    BY <1>0, <2>1 DEF Inv, StoreOK, ManagerTypes, Clearing
  <2> QED BY <1>0, <1>1, <2>1, <2>2
<1>5. CASE StartCall
  BY <1>0, <1>1, <1>5 DEF StartCall, TunerTypes
<1>6. ASSUME NEW c \in Callers, UpdateTuners(c) PROVE Pending'
  <2>1. \A d \in Callers \ {c} : upc[d] = "none" /\ upc'[d] = "none"
    BY <1>0, <1>1, <1>6 DEF UpdateTuners, UpdateClear, UpdateMatch, UpdateRaise,
         UpdateReturn,
         TunerTypes
  <2>2. CASE UpdateClear(c)
    BY <1>0, <1>1, <2>1, <2>2 DEF UpdateClear, TunerTypes
  <2>3. CASE UpdateMatch(c)
    BY <1>0, <1>1, <2>1, <2>3 DEF UpdateMatch, TunerTypes
  <2>4. CASE UpdateRaise(c)
    BY <1>0, <1>1, <2>1, <2>4 DEF UpdateRaise, TunerTypes
  <2>5. CASE UpdateReturn(c)
    BY <1>0, <1>1, <2>1, <2>5 DEF UpdateReturn, TunerTypes
  <2> QED BY <1>6, <2>2, <2>3, <2>4, <2>5 DEF UpdateTuners
<1>7. ASSUME NEW t \in Channels, set_channel(t) PROVE Pending'
  <2>1. Phase # "start" /\ bpc \notin {"start", "starting"}
    BY <1>0, <1>1, <1>7 DEF set_channel, OneCaller, Phase, TunerTypes
  <2> QED BY <1>0, <1>1, <1>7, <2>1 DEF set_channel, TunerTypes
<1>8. CASE Block /\ ~StartCall
  <2>1. UNCHANGED <<tunerVars, tuner_valid, m_update_valid_streams, mpc, store>>
    BY <1>8, BlockFrame
  <2>2. bpc # "start" /\ bpc' \notin {"start", "starting"} /\ upc["block"] = "none"
    <3> USE DEF BlockGoes, FillGoes
    <3>1. CASE StartReturn \/ StopCall \/ StopRun \/ StopJoined
               \/ \E n \in Requests : WorkCall(n)
      BY <1>0, <1>1, <3>1 DEF StartReturn, WorkCall, StopCall, StopRun, StopJoined
    <3>2. CASE FillEntry \/ FillFlipped \/ FillCopy \/ FillTotalStore
      BY <1>0, <1>1, <3>2 DEF FillEntry, FillFlipped, FillCopy, FillTotalStore, FillReturns
    <3>3. CASE Inner
      BY <1>0, <1>1, <3>3 DEF Inner, FillPointer, FillCount, FillValid, FillMin, FillIndex,
           FillIndexLoad, FillIndexStore, FillTotal, FillTotalLoad, FillLooks, FillLoads
    <3> QED BY <1>8, <3>1, <3>2, <3>3 DEF Block, Fill, Inner
  <2> QED BY <1>0, <1>1, <2>1, <2>2
<1>9. CASE UNCHANGED blockVars
  BY <1>2, <1>3, <1>4, <1>6, <1>7, <1>9, FootprintLemma DEF Footprint, UpdateTuners,
       StartCall
<1> QED BY <1>5, <1>8, <1>9, FootprintLemma DEF Footprint

\* Without a call of set_channel() fill_buffers runs only on the tuner that
\* start() has given to the manager.
LEMMA QuietNext == Inv /\ UpdateInv /\ [Next]_vars /\ retunes' = 0 => ~mixed'
<1> SUFFICES ASSUME Inv, UpdateInv, [Next]_vars, retunes' = 0 PROVE ~mixed'
  OBVIOUS
<1>0. TunerTypes /\ FlagTypes /\ HistoryTypes
  BY DEF Inv, TypeOK
<1>1. retunes = 0 /\ ~mixed /\ Pending
  BY RetunesGrow DEF UpdateInv, OneCaller
<1>2. ASSUME NEW t \in Channels PROVE ~set_channel(t)
  BY <1>0 DEF set_channel, TunerTypes
<1>3. CASE FillEntry
  <2>1. bpc = "entry" /\ \A c \in Callers : upc[c] = "none"
    BY <1>0, <1>1, <1>3 DEF FillEntry, Pending, CallersOK
  <2>2. tuner_valid = (tuners = 1)
    BY <1>1, <2>1 DEF Pending, UpdateApplied
  <2> QED BY <1>1, <1>3, <2>2 DEF FillEntry
<1>4. CASE handle_update
  <2>1. PICK c \in Callers : upc[c] = "wait"
    BY <1>1, <1>4, StoreFacts DEF Pending, PendingOK
  <2>2. bpc = "starting"
    BY <1>1, <2>1 DEF Pending, CallersOK
  <2>3. bpc \notin Reading
    BY <2>2 DEF Reading
  <2>4. mixed' = (bpc \in Reading \/ (mixed /\ store > 0))
    BY <1>4 DEF handle_update, ApplyUpdate
  <2> QED BY <1>1, <2>3, <2>4, Zenon
<1> QED BY <1>1, <1>2, <1>3, <1>4, FootprintLemma DEF Footprint

\* Every step keeps the update invariant.
LEMMA UpdateNext == Inv /\ UpdateInv /\ [Next]_vars => UpdateInv'
  BY PendingNext, QuietNext DEF UpdateInv

\* All invariants hold in every state.
THEOREM StreamInvariant == Spec => [](Inv /\ ApartInv /\ StreamInv /\ UpdateInv)
  BY ApartInvariant, InitStream, StreamNext, InitUpdate, UpdateNext, PTL DEF Spec

\* update_tuners does what it says: after the last call has returned the
\* manager has the tuners that were asked for, unless set_channel() and start()
\* have overlapped.
THEOREM UpdateIsApplied == Spec => [](OneCaller => UpdateApplied)
<1>1. UpdateInv => (OneCaller => UpdateApplied)
  BY DEF UpdateInv, Pending
<1> QED BY StreamInvariant, <1>1, PTL

\* Where nothing is mixed no count is negative, and fill_buffers takes what is
\* there.
LEMMA CalmNotOverdrawn == Inv /\ Calmly /\ Calm => ~Overdrawn
<1> SUFFICES ASSUME Inv, Calmly, Calm PROVE ~Overdrawn
  OBVIOUS
<1>1. 0 <= out_count[ReadSide] /\ 0 <= out_count[out_pointer]
  BY DEF Calmly, CountsOK, Calm
<1>2. \A s \in Sides : ~(out_count[s] < 0)
  BY <1>1, TwoSides
<1>3. Holding => amount \in 0 .. out_count[ReadSide]
  BY TwoSides DEF Calmly, ReadsOK, Inv, TypeOK, BlockTypes
<1> QED BY <1>2, <1>3 DEF Overdrawn, Holding

\* As long as no change of the tuner falls into a call of fill_buffers, and
\* again after the next update that falls into none, the samples accepted come
\* out of fill_buffers in order, complete and once, and the process lives; and
\* without set_channel() there is no such change.
THEOREM StreamStaysIntact == Spec => []StreamIntact
<1>1. Inv /\ ApartInv /\ StreamInv /\ UpdateInv => StreamIntact
  <2> SUFFICES ASSUME Inv, ApartInv, StreamInv, UpdateInv PROVE StreamIntact
    OBVIOUS
  <2>1. TypeOK /\ (retunes = 0 => ~mixed)
    BY DEF Inv, UpdateInv
  <2>2. crashed => mixed
    BY DEF ApartInv, Alive
  <2>3. Calm => SamplesConserved /\ ReadSideIntact /\ WriteSideCovered
    BY DEF StreamInv, Settling
  <2>4. Calm => ~Overdrawn
    BY CalmNotOverdrawn DEF ApartInv, Calmly, Calm
  <2> QED BY <2>1, <2>2, <2>3, <2>4 DEF StreamIntact
<1> QED BY StreamInvariant, <1>1, PTL

\* What the process can die of, a negative amount in memcpy or a write outside
\* the buffer, takes a retuning.
THEOREM NoCrashUnlessRetuned == Spec => [](retunes = 0 => Alive)
<1>1. StreamIntact => (retunes = 0 => Alive)
  BY DEF StreamIntact, Alive
<1> QED BY StreamStaysIntact, <1>1, PTL

-----------------------------------------------------------------------------
(* The refinement of SampleStream.                                         *)

\* Successive numbers follow one another.
LEMMA SamplesJoin ==
  ASSUME NEW f \in Int, NEW m \in Nat, NEW n \in Nat
  PROVE  /\ Stream!Samples(f, m) \in Seq(Int) /\ Len(Stream!Samples(f, m)) = m
         /\ Stream!Samples(f, m) \o Stream!Samples(f + m, n) = Stream!Samples(f, m + n)
<1> DEFINE s == Stream!Samples(f, m)  t == Stream!Samples(f + m, n)
           u == Stream!Samples(f, m + n)
<1>1. /\ s \in Seq(Int) /\ Len(s) = m /\ \A k \in 1 .. m : s[k] = f + k - 1
      /\ t \in Seq(Int) /\ Len(t) = n /\ \A k \in 1 .. n : t[k] = f + m + k - 1
      /\ u \in Seq(Int) /\ Len(u) = m + n /\ \A k \in 1 .. m + n : u[k] = f + k - 1
  BY DEF Stream!Samples
<1> HIDE DEF s, t, u
<1>2. s \o t \in Seq(Int) /\ Len(s \o t) = m + n
  BY <1>1, ConcatProperties
<1>3. \A k \in 1 .. m + n : (s \o t)[k] = IF k <= m THEN s[k] ELSE t[k - m]
  BY <1>1, ConcatProperties
<1>4. ASSUME NEW k \in 1 .. m + n PROVE (s \o t)[k] = u[k]
  <2>1. CASE k <= m
    BY <1>1, <1>3, <2>1
  <2>2. CASE ~(k <= m)
    <3>1. k - m \in 1 .. n
      BY <2>2
    <3>2. (s \o t)[k] = t[k - m]
      BY <1>3, <2>2
    <3>3. t[k - m] = f + m + (k - m) - 1
      BY <1>1, <3>1
    <3> QED BY <1>1, <3>2, <3>3
  <2> QED BY <2>1, <2>2
<1>5. s \o t = u
  BY <1>1, <1>2, <1>4, SeqEqual
<1> QED BY <1>1, <1>5 DEF s, t, u

\* The two parts of successive numbers.
LEMMA SamplesSplit ==
  ASSUME NEW f \in Int, NEW m \in Nat, NEW n \in 0 .. m
  PROVE  /\ SubSeq(Stream!Samples(f, m), 1, n) = Stream!Samples(f, n)
         /\ SubSeq(Stream!Samples(f, m), n + 1, m) = Stream!Samples(f + n, m - n)
<1> DEFINE u == Stream!Samples(f, m)
           s == SubSeq(u, 1, n)  t == SubSeq(u, n + 1, m)
           a == Stream!Samples(f, n)  b == Stream!Samples(f + n, m - n)
<1>1. /\ u \in Seq(Int) /\ Len(u) = m /\ \A k \in 1 .. m : u[k] = f + k - 1
      /\ a \in Seq(Int) /\ Len(a) = n /\ \A k \in 1 .. n : a[k] = f + k - 1
      /\ b \in Seq(Int) /\ Len(b) = m - n /\ \A k \in 1 .. m - n : b[k] = f + n + k - 1
  BY DEF Stream!Samples
<1> HIDE DEF u, a, b
<1>2. /\ s \in Seq(Int) /\ Len(s) = n /\ \A k \in 1 .. n : s[k] = u[k]
      /\ t \in Seq(Int) /\ Len(t) = m - n /\ \A k \in 1 .. m - n : t[k] = u[n + k]
  BY <1>1
<1> HIDE DEF s, t
<1>3. s = a
  BY <1>1, <1>2, SeqEqual
<1>4. t = b
  <2>1. \A k \in 1 .. m - n : t[k] = b[k]
    BY <1>1, <1>2
  <2>2. Len(t) = m - n /\ Len(b) = m - n
    BY <1>1, <1>2
  <2> QED BY <1>1, <1>2, <2>1, <2>2, SeqEqual
<1> QED BY <1>3, <1>4 DEF u, a, b, s, t

\* What is in the hands of fill_buffers' caller, and how many samples wait.
Hands == ReadPart(0, Copied)
Held  == IF store # 0 THEN 0 ELSE accepted - delivered - Copied

\* The memory holds the samples accepted and not delivered, in order, and both
\* sides together have room for them.
Memory ==
  /\ Copied \in Nat /\ Held \in Nat /\ accepted \in Nat /\ delivered \in Int
  /\ store = 0 => Held <= NUM_COMPLEX + out_count[out_pointer]
  /\ store # 0 => Copied = 0
  /\ Waiting = Stream!Samples(delivered + Copied + 1, Held)
  /\ Hands = Stream!Samples(delivered + 1, Copied)

\* So it is as long as nothing is mixed, between two updates,
LEMMA MemoryBetween == Inv /\ Calmly /\ Settling /\ store = 0 => Memory
<1> SUFFICES ASSUME Inv, Calmly, Settling, store = 0 PROVE Memory
  OBVIOUS
<1> DEFINE R == out_count[ReadSide]  W == out_count[out_pointer]
<1> USE CountsAssumption
<1>1. /\ R \in Nat /\ W \in Nat /\ accepted \in Nat /\ delivered \in Int
      /\ Copied \in 0 .. R /\ Base \in Int
      /\ \A i \in Threads : Busy(i) => job[i].start \in Nat
  <2>1. R \in Int /\ W \in Int /\ accepted \in Nat /\ delivered \in Int
    BY TwoSides DEF Inv, TypeOK, HistoryTypes
  <2>2. R \in Nat /\ W \in Nat
    BY <2>1 DEF Calmly, CountsOK
  <2>3. Copied \in 0 .. R
    BY <2>2 DEF Copied, Calmly, ReadsOK, Holding, Inv, TypeOK, BlockTypes
  <2>4. Base \in Int
    BY TwoSides DEF Base, Inv, TypeOK, BlockTypes
  <2>5. ASSUME NEW i \in Threads, Busy(i) PROVE job[i].start \in Nat
    <3>1. job[i].start \in Int
      BY <2>5 DEF Inv, TypeOK, TaskTypes, Busy
    <3> QED BY <2>5, <3>1 DEF Calmly, JobsOK, JobOK
  <2> QED BY <2>1, <2>2, <2>3, <2>4, <2>5
<1>2. accepted = delivered + R + W
  <2>1. accepted = delivered + out_count[0] + out_count[1]
    BY DEF Settling, SamplesConserved
  <2> QED BY <1>1, <2>1, TwoSides
<1>3. R <= NUM_COMPLEX
  <2>1. CASE R > 0
    <3>1. /\ 0 \in 0 .. R - 1 /\ R - 1 \in 0 .. R - 1
      BY <1>1, <2>1
    <3>2. Base + 0 >= 0 /\ Base + (R - 1) <= NUM_COMPLEX - 1
      BY <3>1 DEF Settling, ReadSideIntact
    <3> HIDE DEF R
    <3> QED BY <1>1, <3>2
  <2> QED BY <1>1, <2>1
<1>4. ASSUME NEW k \in Nat, NEW n \in Nat, k + n <= R
      PROVE  ReadPart(k, n) = Stream!Samples(delivered + 1 + k, n)
  <2>1. ASSUME NEW m \in 1 .. n
        PROVE  out_buff[ReadSide][Base + k + m - 1] = delivered + 1 + k + m - 1
    <3>1. k + m - 1 \in 0 .. R - 1
      BY <1>1, <1>4
    <3>2. out_buff[ReadSide][Base + (k + m - 1)] = delivered + 1 + (k + m - 1)
      BY <3>1 DEF Settling, ReadSideIntact
    <3>3. Base + (k + m - 1) = Base + k + m - 1
      BY <1>1
    <3> QED BY <1>1, <3>2, <3>3
  <2> QED BY <2>1 DEF ReadPart, Stream!Samples
<1>5. WritePart = Stream!Samples(delivered + R + 1, W)
  <2>1. ASSUME NEW m \in 1 .. W PROVE Settled(m - 1) = delivered + R + 1 + m - 1
    <3> DEFINE k == m - 1
    <3>1. k \in 0 .. W - 1 /\ k \in Int
      BY <1>1
    <3> HIDE DEF k
    <3>2. CASE \E i \in Threads : Busy(i) /\ k \in Cells(job[i])
      <4> DEFINE i == CHOOSE j \in Threads : Busy(j) /\ k \in Cells(job[j])
      <4>1. i \in Threads /\ Busy(i)
        BY <3>2
      <4>2. Settled(k) = job[i].first + k - job[i].start
        BY <3>2 DEF Settled
      <4> HIDE DEF i
      <4>3. job[i].first = delivered + R + 1 + job[i].start /\ job[i].start \in Nat
        BY <1>1, <4>1 DEF Settling, JobsInOrder
      <4>4. Settled(k) = delivered + R + 1 + k
        BY <1>1, <3>1, <4>2, <4>3
      <4> QED BY <1>1, <4>4 DEF k
    <3>3. CASE ~\E i \in Threads : Busy(i) /\ k \in Cells(job[i])
      <4>1. Settled(k) = delivered + R + 1 + k
        BY <3>1, <3>3 DEF Settled, Settling, WriteSideCovered
      <4> QED BY <1>1, <4>1 DEF k
    <3> QED BY <3>2, <3>3
  <2> QED BY <2>1 DEF WritePart, Stream!Samples
<1>6. Hands = Stream!Samples(delivered + 1, Copied)
  <2>1. Hands = Stream!Samples(delivered + 1 + 0, Copied)
    BY <1>1, <1>4 DEF Hands
  <2> QED BY <1>1, <2>1
<1>7. Held = accepted - delivered - Copied /\ Held \in Nat /\ Held <= NUM_COMPLEX + W
  BY <1>1, <1>2, <1>3 DEF Held
<1>8. Waiting = Stream!Samples(delivered + Copied + 1, Held)
  <2> DEFINE f == delivered + 1 + Copied  m == R - Copied
  <2>1. ReadPart(Copied, m) = Stream!Samples(f, m)
    BY <1>1, <1>4
  <2>2. f \in Int /\ m \in Nat /\ W \in Nat /\ f + m = delivered + R + 1
    BY <1>1
  <2>3. f = delivered + Copied + 1 /\ m + W = Held
    BY <1>1, <1>2, <1>7
  <2>4. Waiting = ReadPart(Copied, m) \o WritePart
    BY DEF Waiting
  <2> HIDE DEF f, m
  <2>5. Stream!Samples(f, m) \o Stream!Samples(f + m, W) = Stream!Samples(f, m + W)
    BY <2>2, SamplesJoin
  <2> QED BY <1>5, <2>1, <2>2, <2>3, <2>4, <2>5
<1> QED BY <1>1, <1>6, <1>7, <1>8 DEF Memory

\* and while one is being applied.
LEMMA MemoryHoldsStream == Inv /\ ApartInv /\ StreamInv /\ ~mixed => Memory
<1> SUFFICES ASSUME Inv, Calmly, store = 0 => Settling PROVE Memory
  BY DEF ApartInv, Calmly, StreamInv, Calm
<1>1. CASE store = 0
  BY <1>1, MemoryBetween
<1>2. CASE store # 0
  <2>1. Copied = 0 /\ Held = 0 /\ Waiting = << >>
    BY <1>2 DEF Copied, Taking, Reading, Calmly, ReadsOK, Held, Waiting
  <2>2. accepted \in Nat /\ delivered \in Int
    BY CountsAssumption DEF Inv, TypeOK, HistoryTypes
  <2>3. Hands = << >> /\ \A k : Stream!Samples(k, 0) = << >>
    BY <2>1 DEF Hands, ReadPart, Stream!Samples
  <2> QED BY <1>2, <2>1, <2>2, <2>3 DEF Memory
<1> QED BY <1>1, <1>2

\* Only copying and the last store of fill_buffers change what is in its hands.
LEMMA CopiedKept ==
  ASSUME Inv, Block, ~FillCopy, ~FillTotalStore
  PROVE  Copied' = Copied
<1> USE DEF Copied, Taking, Reading, FillGoes
<1>1. CASE Idling
  BY <1>1, IdleFrame
<1>2. CASE FillEntry \/ FillPointer \/ FillCount \/ FillValid \/ FillMin
  BY <1>2 DEF FillEntry, FillReturns, FillPointer, FillCount, FillValid, FillMin
<1>3. CASE FillIndex \/ FillIndexLoad \/ FillTotal \/ FillTotalLoad \/ FillIndexStore
  BY <1>3 DEF FillIndex, FillIndexLoad, FillTotal, FillTotalLoad, FillIndexStore, FillLooks,
     FillLoads
<1> QED BY <1>1, <1>2, <1>3, BlockCases DEF Inner

\* Each step of the program is a step of the abstract queue or changes nothing
\* that the queue shows.
LEMMA StreamStep ==
  ASSUME Inv, Calmly, Memory, Memory', [Next]_vars
  PROVE  [Stream!Next]_(Stream!vars)
<1> DEFINE f == delivered + Copied + 1
<1> USE CountsAssumption
<1>1. /\ Copied \in Nat /\ Held \in Nat /\ accepted \in Nat /\ delivered \in Int /\ f \in Int
      /\ Waiting = Stream!Samples(f, Held) /\ Hands = Stream!Samples(delivered + 1, Copied)
  BY DEF Memory
<1>2. /\ Waiting' = Stream!Samples(delivered' + Copied' + 1, Held')
      /\ Hands' = Stream!Samples(delivered' + 1, Copied')
      /\ Held' \in Nat /\ Copied' \in Nat
  BY DEF Memory, Stream!Samples
<1>3. \A k \in Int : Stream!Samples(k, 0) = << >>
  BY DEF Stream!Samples
<1>4. Len(Waiting) = Held
  <2> HIDE DEF f
  <2> QED BY <1>1, SamplesJoin
<1>5. /\ Stream!vars = <<accepted, Waiting, Hands>>
      /\ (Stream!vars)' = <<accepted', Waiting', Hands'>>
  BY DEF Stream!vars, Hands
<1> HIDE DEF Waiting, Hands
<1>6. CASE UNCHANGED <<accepted, delivered, Copied, store>>
  BY <1>1, <1>2, <1>5, <1>6 DEF Held
<1>7. CASE handle_update
  <2>1. accepted' = accepted /\ UNCHANGED blockVars /\ (delivered' = delivered \/ store = 5)
        /\ (store < 5 => store' = store + 1) /\ (store = 5 => store' = 0 /\ delivered' = accepted)
        /\ store \in 0 .. 5
    BY <1>7, StoreFacts DEF handle_update, ApplyUpdate
  <2>2. Copied' = Copied
    BY <2>1 DEF Copied
  <2>3. Copied = 0
    BY <2>1, <2>2 DEF Memory
  <2>4. Held' = 0
    BY <1>1, <2>1, <2>2, <2>3 DEF Held
  <2>5. delivered' \in Int
    BY <1>1, <2>1
  <2>6. Waiting' = << >> /\ Hands' = Hands
    BY <1>1, <1>2, <1>3, <2>2, <2>3, <2>4, <2>5
  <2>7. Stream!Drop
    BY <2>1, <2>6 DEF Stream!Drop, Waiting, Hands
  <2> QED BY <2>7 DEF Stream!Next
<1>8. ASSUME NEW i \in Threads, Dispatch(i) PROVE Stream!Next
  <2>1. /\ pkt.size \in Nat /\ ~Full /\ store = 0 /\ store' = 0
        /\ accepted' = accepted + pkt.size /\ UNCHANGED <<delivered, blockVars>>
    <3>1. mpc = "wake"
      BY <1>8, DispatchFacts
    <3>2. store = 0
      BY <3>1 DEF Inv, StoreOK, TypeOK, ManagerTypes
    <3> QED BY <1>8, <3>1, <3>2, DispatchFacts DEF Calmly, RoomOK
  <2>2. Copied' = Copied
    BY <2>1 DEF Copied
  <2>3. out_count[out_pointer] + pkt.size < NUM_COMPLEX /\ out_count[out_pointer] \in Int
    BY <2>1, TwoSides DEF Full
  <2>4. Held + pkt.size < 2 * NUM_COMPLEX /\ pkt.size \in 0 .. 2 * NUM_COMPLEX
    BY <1>1, <2>1, <2>3 DEF Memory
  <2>5. Waiting' = Waiting \o Stream!Samples(accepted + 1, pkt.size)
    <3>1. f + Held = accepted + 1 /\ Held' = Held + pkt.size
      BY <1>1, <2>1, <2>2 DEF Held
    <3>2. Waiting' = Stream!Samples(f, Held + pkt.size)
      BY <1>1, <1>2, <2>1, <2>2, <3>1
    <3> HIDE DEF f
    <3>3. Stream!Samples(f, Held) \o Stream!Samples(f + Held, pkt.size)
            = Stream!Samples(f, Held + pkt.size)
      BY <1>1, <2>1, SamplesJoin
    <3> QED BY <1>1, <3>1, <3>2, <3>3
  <2>6. Hands' = Hands
    BY <1>1, <1>2, <2>1, <2>2
  <2>7. Stream!Arrive(pkt.size)
    BY <1>4, <2>1, <2>4, <2>5, <2>6 DEF Stream!Arrive, Hands
  <2> QED BY <2>4, <2>7 DEF Stream!Next
<1>9. CASE FillCopy
  <2>0. store = 0 /\ UNCHANGED <<accepted, delivered, store>> /\ Copied = 0
    <3>1. bpc = "copy" /\ UNCHANGED <<accepted, delivered, store>>
      BY <1>9 DEF FillCopy, BlockMoves
    <3>2. store = 0
      BY <3>1 DEF Calmly, ReadsOK, Reading
    <3> QED BY <3>1, <3>2 DEF Copied, Taking
  <2>1. CASE bpc' = "index"
    <3>1. amount' = amount /\ amount \in Nat
      <4>1. bpc = "copy" /\ tuners = 1 /\ amount' = amount
        BY <1>9, <2>1 DEF FillCopy, FillReturns
      <4> QED BY <4>1 DEF Calmly, ReadsOK, Holding, Inv, TypeOK, BlockTypes
    <3>2. Copied' = amount
      BY <2>1, <3>1 DEF Copied, Taking
    <3>3. f = delivered + 1 /\ f + amount = delivered' + Copied' + 1
          /\ Held' = Held - amount /\ amount <= Held
      BY <1>1, <1>2, <2>0, <3>1, <3>2 DEF Held
    <3>4. CASE amount = 0
      BY <1>6, <2>0, <3>2, <3>4
    <3>5. CASE amount # 0
      <4>1. Hands = << >>
        BY <1>1, <1>3, <2>0
      <4> HIDE DEF f
      <4>2. amount \in 1 .. Held /\ amount \in 0 .. Held /\ f \in Int /\ Held \in Nat
        BY <1>1, <3>1, <3>3, <3>5
      <4>3. /\ SubSeq(Stream!Samples(f, Held), 1, amount) = Stream!Samples(f, amount)
            /\ SubSeq(Stream!Samples(f, Held), amount + 1, Held)
                 = Stream!Samples(f + amount, Held - amount)
        BY <4>2, SamplesSplit
      <4>4. Hands' = SubSeq(Waiting, 1, amount) /\ Waiting' = SubSeq(Waiting, amount + 1, Held)
        BY <1>1, <1>2, <2>0, <3>2, <3>3, <4>3
      <4>5. Stream!Hand(amount)
        BY <1>4, <2>0, <4>1, <4>4 DEF Stream!Hand, Hands
      <4>6. amount \in 1 .. Len(Waiting)
        BY <1>4, <4>2
      <4> QED BY <4>5, <4>6 DEF Stream!Next
    <3> QED BY <3>4, <3>5
  <2>2. CASE bpc' # "index"
    <3>1. Copied' = 0
      BY <1>9, <2>2 DEF FillCopy, FillReturns, Copied, Taking
    <3> QED BY <1>6, <2>0, <3>1
  <2> QED BY <2>1, <2>2
<1>10. CASE FillTotalStore
  <2>1. /\ Copied = amount /\ Copied' = 0 /\ accepted' = accepted
        /\ delivered' = delivered + Copied /\ store' = store /\ store = 0
    <3>1. bpc = "total_store" /\ bpc' = "idle" /\ UNCHANGED <<accepted, store>>
          /\ delivered' = delivered + amount
      BY <1>10 DEF FillTotalStore, FillReturns, BlockMoves
    <3>2. store = 0
      BY <3>1 DEF Calmly, ReadsOK, Reading
    <3> QED BY <3>1, <3>2 DEF Copied, Taking
  <2>2. Held' = Held /\ delivered' + Copied' + 1 = f /\ delivered' \in Int
    BY <1>1, <2>1 DEF Held
  <2>3. Waiting' = Waiting /\ Hands' = << >>
    <3> HIDE DEF f
    <3> QED BY <1>1, <1>2, <1>3, <2>1, <2>2
  <2>4. Stream!Return
    BY <2>1, <2>3 DEF Stream!Return, Waiting, Hands
  <2> QED BY <2>4 DEF Stream!Next
<1>11. CASE Block /\ ~FillCopy /\ ~FillTotalStore
  <2>1. UNCHANGED <<accepted, store>> /\ Copied' = Copied
    BY <1>11, BlockFrame, CopiedKept
  <2>2. delivered' = delivered
    BY <1>11, IdleFrame, BlockCases DEF Inner, FillEntry, FillPointer, FillCount, FillValid,
       FillMin, FillIndex, FillIndexLoad, FillTotal, FillTotalLoad, FillIndexStore, FillLooks,
       FillLoads, FillGoes
  <2> QED BY <1>6, <2>1, <2>2
<1>12. CASE UNCHANGED <<accepted, delivered, blockVars, store>>
  BY <1>6, <1>12 DEF Copied
<1> QED BY <1>7, <1>8, <1>9, <1>10, <1>11, <1>12, FootprintLemma DEF Footprint

\* Without a lock between the manager, its tasks and fill_buffers, the double
\* buffer implements the queue of samples, as long as no change of the tuner
\* falls into a call of fill_buffers.
THEOREM StreamRefinement == Spec /\ []~mixed => ImplementsStream
<1>1. Init => Stream!Init
  BY DEF Init, Stream!Init, ReadPart, WritePart, Copied, Waiting, Taking
<1>2. /\ Inv /\ ApartInv /\ StreamInv /\ ~mixed /\ [Next]_vars
      /\ Inv' /\ ApartInv' /\ StreamInv' /\ ~mixed'
      => [Stream!Next]_(Stream!vars)
  <2>1. ApartInv /\ ~mixed => Calmly
    BY DEF ApartInv, Calmly
  <2>2. Inv /\ ApartInv /\ StreamInv /\ ~mixed => Memory
    BY MemoryHoldsStream
  <2>3. Inv' /\ ApartInv' /\ StreamInv' /\ ~mixed' => Memory'
    BY MemoryHoldsStream, PTL
  <2> QED BY <2>1, <2>2, <2>3, StreamStep
<1> QED BY <1>1, <1>2, StreamInvariant, PTL DEF Spec, ImplementsStream, Stream!Spec

\* In particular it does so as long as nobody calls set_channel().
THEOREM QuietStreamRefinement == Spec /\ [](retunes = 0) => ImplementsStream
<1>1. StreamIntact /\ retunes = 0 => ~mixed
  BY DEF StreamIntact
<1> QED BY <1>1, StreamStaysIntact, StreamRefinement, PTL
=============================================================================
