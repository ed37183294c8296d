----------------------------- MODULE UdpListener -----------------------------
(***************************************************************************)
(* udp_listener (lib/udp_listener.cpp): a thread that fills one of two     *)
(* buffers from a UDP socket, and get_buffer_list(), called by the thread  *)
(* of complex_manager, which asks it to swap the buffers and waits.        *)
(*                                                                         *)
(* There is no lock.  The hand-over is the flag m_do_switch alone: raised  *)
(* by the reader, lowered by the listener after it has published           *)
(* m_safe_side and m_safe_index.  Stores are taken in program order: every *)
(* wait loop makes an opaque call (usleep, recv), so the flags are read    *)
(* again on each turn.                                                     *)
(*                                                                         *)
(* Threads: the listener (lpc), the reader (cpc), the owner that calls     *)
(* stop() (spc).  A datagram is a number in order of reception; the bytes  *)
(* of a buffer are the sequence of datagrams laid out in it.               *)
(***************************************************************************)
EXTENDS Integers, Sequences

CONSTANTS
  NUM_BUFFS,          \* packets a buffer has room for
  PACKET_SIZE,        \* the largest datagram recv() may store
  UDP_START_INDEX,    \* bytes kept free at the start of each buffer
  Lengths,            \* the lengths of datagrams that arrive
  MaxDatagrams        \* bound on the datagrams received in a behaviour

ASSUME SizesAssumption ==
  /\ NUM_BUFFS \in Nat
  /\ PACKET_SIZE \in Nat \ {0}
  /\ UDP_START_INDEX \in Nat
  /\ UDP_START_INDEX < (NUM_BUFFS - 1) * PACKET_SIZE

ASSUME LengthsAssumption == Lengths \subseteq 1 .. PACKET_SIZE

ASSUME BoundAssumption == MaxDatagrams \in Nat

\* aligned_buffer::make(1, PACKET_SIZE * NUM_BUFFS), and the index at which
\* the listener starts again from UDP_START_INDEX.
Capacity == NUM_BUFFS * PACKET_SIZE
Limit    == (NUM_BUFFS - 1) * PACKET_SIZE

VARIABLES
  m_run,              \* cleared by stop()
  m_connected,        \* the socket set-up is over
  m_do_switch,        \* the reader asks for the buffers to be swapped
  m_buff_pointer,     \* the buffer recv() stores into
  m_safe_side,        \* the buffer last published to the reader
  m_safe_index,       \* end of the data in it
  cur_index,          \* where the next datagram is stored
  overflow,           \* data was dropped since the last "O"
  bound,              \* bind() succeeded: datagrams reach the socket
  mem,                \* mem[b]: datagrams laid out in buffer b, in order
  lpc,                \* the listener's thread
  cpc,                \* the reader: inside get_buffer_list or parsing
  index_count,        \* what get_buffer_list returned last
  spc,                \* the owner's call of stop()
  received,           \* history: datagrams returned by recv()
  handed,             \* history: datagrams swapped to the reader's side
  dropped,            \* history: datagrams dropped by the listener
  told                \* history: datagrams dropped before the last "O"

listenerVars == <<cur_index, overflow, bound, mem, lpc, received, dropped>>
sharedVars   == <<m_buff_pointer, m_safe_side, m_safe_index, handed, told>>
flagVars     == <<m_run, m_connected, m_do_switch>>
readerVars   == <<cpc, index_count>>
vars == <<listenerVars, sharedVars, flagVars, readerVars, spc>>

Datagrams == [id : 1 .. MaxDatagrams, off : 0 .. Capacity, len : Lengths]

Init ==
  /\ m_run = TRUE
  /\ m_connected = FALSE
  /\ m_do_switch = FALSE
  /\ m_buff_pointer = 0
  /\ m_safe_side = 0
  /\ m_safe_index = 0
  /\ cur_index = UDP_START_INDEX
  /\ overflow = 0
  /\ bound = FALSE
  /\ mem = [b \in 0 .. 1 |-> << >>]
  /\ lpc = "setup"
  /\ cpc = "idle"
  /\ index_count = 0
  /\ spc = "running"
  /\ received = 0
  /\ handed = 0
  /\ dropped = 0
  /\ told = 0

-----------------------------------------------------------------------------
(* The listener's thread.                                                  *)

\* socket() fails: the thread returns at once and m_connected stays false.
SocketFails ==
  /\ lpc = "setup"
  /\ lpc' = "done"
  /\ UNCHANGED <<cur_index, overflow, bound, mem, received, dropped>>
  /\ UNCHANGED <<sharedVars, flagVars, readerVars, spc>>

\* A failed bind() is printed and then forgotten: m_connected ends up true
\* whether or not the socket has the port.
SocketReady ==
  /\ lpc = "setup"
  /\ bound' \in BOOLEAN
  /\ m_connected' = TRUE
  /\ lpc' = "recv"
  /\ UNCHANGED <<cur_index, overflow, mem, received, dropped>>
  /\ UNCHANGED <<m_run, m_do_switch, sharedVars, readerVars, spc>>

\* Mutant of LoopEnds: the loop waits for an idle reader before it ends.
LoopEndsIdle ==
  /\ lpc = "recv"
  /\ ~m_run /\ ~m_do_switch
  /\ lpc' = "done"
  /\ UNCHANGED <<cur_index, overflow, bound, mem, received, dropped>>
  /\ UNCHANGED <<sharedVars, flagVars, readerVars, spc>>

LoopEnds ==
  /\ lpc = "recv"
  /\ ~m_run
  /\ lpc' = "done"
  /\ UNCHANGED <<cur_index, overflow, bound, mem, received, dropped>>
  /\ UNCHANGED <<sharedVars, flagVars, readerVars, spc>>

\* MSG_DONTWAIT: recv() returns at once when nothing has arrived.
RecvNothing ==
  /\ lpc = "recv"
  /\ m_run
  /\ lpc' = "switch"
  /\ UNCHANGED <<cur_index, overflow, bound, mem, received, dropped>>
  /\ UNCHANGED <<sharedVars, flagVars, readerVars, spc>>

\* The datagrams waiting in the buffer being filled.
Waiting == IF cur_index = UDP_START_INDEX THEN << >> ELSE mem[m_buff_pointer]

\* recv() stores a datagram at cur_index; the first one stored after the
\* index went back to the start overwrites what the buffer held.
Stored(len) ==
  Append(Waiting, [id |-> received + 1, off |-> cur_index, len |-> len])

RecvData(len) ==
  /\ lpc = "recv"
  /\ m_run
  /\ bound
  /\ received < MaxDatagrams
  /\ received' = received + 1
  /\ mem' = [mem EXCEPT ![m_buff_pointer] = Stored(len)]
  /\ lpc' = "switch"
  /\ UNCHANGED <<bound, sharedVars, flagVars, readerVars, spc>>

RecvFits(len) ==
  /\ cur_index + len < Limit
  /\ RecvData(len)
  /\ cur_index' = cur_index + len
  /\ UNCHANGED <<overflow, dropped>>

\* The buffer is full: the index goes back to the start, and everything in
\* it, this datagram included, is dropped.
RecvOverflows(len) ==
  /\ cur_index + len >= Limit
  /\ RecvData(len)
  /\ cur_index' = UDP_START_INDEX
  /\ overflow' = 1
  /\ dropped' = dropped + Len(Waiting) + 1

NoSwitch ==
  /\ lpc = "switch"
  /\ ~m_do_switch
  /\ lpc' = "recv"
  /\ UNCHANGED <<cur_index, overflow, bound, mem, received, dropped>>
  /\ UNCHANGED <<sharedVars, flagVars, readerVars, spc>>

\* Mutant of ReportOverflow: the flag is cleared, the "O" is not printed.
ReportOverflowSilent == overflow' = 0 /\ UNCHANGED told

ReportOverflow ==
  /\ overflow' = 0
  /\ \/ overflow > 0 /\ told' = dropped
     \/ overflow = 0 /\ UNCHANGED told

\* The reader asked for data: report a drop, publish what has been stored as
\* the safe side and carry on in buffer next, or publish an empty batch,
\* which ends at index empty.
Publish(next, empty) ==
  /\ lpc = "switch"
  /\ m_do_switch
  /\ ReportOverflow
  /\ \/ /\ cur_index > UDP_START_INDEX
        /\ m_safe_side' = m_buff_pointer
        /\ m_buff_pointer' = next
        /\ m_safe_index' = cur_index
        /\ cur_index' = UDP_START_INDEX
        /\ handed' = handed + Len(mem[m_buff_pointer])
     \/ /\ cur_index = UDP_START_INDEX
        /\ m_safe_index' = empty
        /\ UNCHANGED <<m_safe_side, m_buff_pointer, cur_index, handed>>
  /\ lpc' = "ack"
  /\ UNCHANGED <<bound, mem, received, dropped>>
  /\ UNCHANGED <<flagVars, readerVars, spc>>

\* Mutants of Switch: m_safe_index is not reset for an empty batch; the
\* listener keeps its buffer.
SwitchStaleIndex == Publish(1 - m_buff_pointer, m_safe_index)
SwitchSameBuffer == Publish(m_buff_pointer, UDP_START_INDEX)

Switch == Publish(1 - m_buff_pointer, UDP_START_INDEX)

\* Mutant of AckSwitch: m_do_switch is not lowered.
AckSwitchForgotten ==
  /\ lpc = "ack"
  /\ lpc' = "recv"
  /\ UNCHANGED <<cur_index, overflow, bound, mem, received, dropped>>
  /\ UNCHANGED <<sharedVars, flagVars, readerVars, spc>>

AckSwitch ==
  /\ lpc = "ack"
  /\ m_do_switch' = FALSE
  /\ lpc' = "recv"
  /\ UNCHANGED <<cur_index, overflow, bound, mem, received, dropped>>
  /\ UNCHANGED <<sharedVars, m_run, m_connected, readerVars, spc>>

Listener ==
  \/ SocketFails \/ SocketReady \/ LoopEnds \/ RecvNothing
  \/ \E len \in Lengths : RecvFits(len) \/ RecvOverflows(len)
  \/ NoSwitch \/ Switch \/ AckSwitch

-----------------------------------------------------------------------------
(* The reader: get_buffer_list(), then parsing what it returned.           *)

GetNotRunning ==
  /\ cpc = "idle"
  /\ ~m_run \/ ~m_connected
  /\ index_count' = 0
  /\ UNCHANGED <<cpc, listenerVars, sharedVars, flagVars, spc>>

GetRequest ==
  /\ cpc = "idle"
  /\ m_run /\ m_connected
  /\ m_do_switch' = TRUE
  /\ cpc' = "wait"
  /\ UNCHANGED <<index_count, listenerVars, sharedVars, m_run, m_connected, spc>>

\* The wait ends because the listener answered or because it was stopped.
GetHalted ==
  /\ cpc = "wait"
  /\ ~m_run
  /\ index_count' = 0
  /\ cpc' = "idle"
  /\ UNCHANGED <<listenerVars, sharedVars, flagVars, spc>>

GetReturn ==
  /\ cpc = "wait"
  /\ ~m_do_switch
  /\ m_run
  /\ index_count' = m_safe_index - UDP_START_INDEX
  /\ cpc' = IF index_count' = 0 THEN "idle" ELSE "parse"
  /\ UNCHANGED <<listenerVars, sharedVars, flagVars, spc>>

\* The reader is done with m_buffers[m_safe_side] and comes back for more.
Parsed ==
  /\ cpc = "parse"
  /\ cpc' = "idle"
  /\ UNCHANGED <<index_count, listenerVars, sharedVars, flagVars, spc>>

Reader == GetNotRunning \/ GetRequest \/ GetHalted \/ GetReturn \/ Parsed

-----------------------------------------------------------------------------
(* stop(): clear m_run and join the listener's thread.                     *)

StopCall ==
  /\ spc = "running"
  /\ m_run' = FALSE
  /\ spc' = "join"
  /\ UNCHANGED <<listenerVars, sharedVars, m_connected, m_do_switch, readerVars>>

StopJoined ==
  /\ spc = "join"
  /\ lpc = "done"
  /\ spc' = "stopped"
  /\ UNCHANGED <<listenerVars, sharedVars, flagVars, readerVars>>

Owner == StopCall \/ StopJoined

Next == Listener \/ Reader \/ Owner

Spec == Init /\ [][Next]_vars

\* Threads are scheduled: the listener and the reader keep taking steps.
\* Nothing makes datagrams arrive, the reader finish parsing or anybody
\* call stop().
Fairness ==
  /\ WF_vars(Listener)
  /\ WF_vars(GetHalted \/ GetReturn)
  /\ WF_vars(StopJoined)

FairSpec == Spec /\ Fairness

-----------------------------------------------------------------------------
(* Properties.                                                             *)

\* The values each variable may take.
TypeOK ==
  /\ m_run \in BOOLEAN /\ m_connected \in BOOLEAN /\ m_do_switch \in BOOLEAN
  /\ m_buff_pointer \in 0 .. 1 /\ m_safe_side \in 0 .. 1
  /\ m_safe_index \in 0 .. Capacity
  /\ cur_index \in UDP_START_INDEX .. Capacity
  /\ overflow \in 0 .. 1
  /\ bound \in BOOLEAN
  /\ mem \in [0 .. 1 -> Seq(Datagrams)]
  /\ lpc \in {"setup", "recv", "switch", "ack", "done"}
  /\ cpc \in {"idle", "wait", "parse"}
  /\ index_count \in 0 .. Capacity
  /\ spc \in {"running", "join", "stopped"}
  /\ received \in 0 .. MaxDatagrams
  /\ handed \in Nat /\ dropped \in Nat /\ told \in Nat

\* recv() is given PACKET_SIZE bytes of room at cur_index, whatever arrives:
\* the buffer must have that much left each time the listener calls it.
RecvHasRoom == lpc = "recv" => cur_index + PACKET_SIZE <= Capacity

\* Sequence s of datagrams fills the bytes from UDP_START_INDEX up to end:
\* no gap and no overlap between one datagram and the next.
Tiles(s, end) ==
  /\ s # << >>
  /\ s[1].off = UDP_START_INDEX
  /\ \A i \in 1 .. Len(s) - 1 : s[i + 1].off = s[i].off + s[i].len
  /\ s[Len(s)].off + s[Len(s)].len = end

\* The numbers of sequence s of datagrams follow one another.
Consecutive(s) == \A i \in 1 .. Len(s) - 1 : s[i + 1].id = s[i].id + 1

\* The bytes get_buffer_list() hands over, UDP_START_INDEX up to
\* UDP_START_INDEX + index_count of m_buffers[m_safe_side], are exactly the
\* datagrams stored there, in order of reception and without a gap, for as
\* long as the reader parses them, and the listener is filling the other
\* buffer.
HandedBytesIntact ==
  cpc = "parse" =>
    /\ m_safe_side # m_buff_pointer
    /\ Tiles(mem[m_safe_side], UDP_START_INDEX + index_count)
    /\ Consecutive(mem[m_safe_side])

\* One flag and two indices keep listener and reader apart: each has the bytes
\* it needs, and only these, in a buffer of its own.
BuffersSound == RecvHasRoom /\ HandedBytesIntact

\* Every datagram recv() returned was handed over, dropped by an overflow,
\* or is still waiting: the swap neither loses nor repeats one.
DatagramsConserved == received = handed + dropped + Len(Waiting)

\* No gap is handed over in silence: a drop not reported yet keeps the
\* overflow flag up, and by the time a swap is acknowledged every datagram
\* dropped before the batch has been reported with an "O".
DropsReported ==
  /\ overflow = 0 => told = dropped
  /\ lpc = "ack" => told = dropped

\* Nothing received is lost or repeated in silence, however often the buffer
\* runs full between two requests.
Accounting == DatagramsConserved /\ DropsReported

\* What the reader holds does not change in its hands (action property).
BatchStable ==
  [][cpc = "parse" /\ cpc' = "parse"
       => /\ m_safe_side' = m_safe_side
          /\ mem'[m_safe_side] = mem[m_safe_side]]_vars

\* get_buffer_list() comes back: a request is answered or cut short by
\* stop(), never left waiting.
RequestReturns == cpc = "wait" ~> cpc # "wait"

\* stop() returns: the listener leaves its loop and is joined.
StopReturns == spc = "join" ~> spc = "stopped"

-----------------------------------------------------------------------------
(* The abstract queue this module implements.                              *)

\* Datagrams are in the reader's hands from the moment the listener swaps
\* the buffers until the reader is done with them, or gives up on a stop.
Published ==
  /\ m_safe_index > UDP_START_INDEX
  /\ \/ cpc = "parse"
     \/ cpc = "wait" /\ (lpc = "ack" \/ ~m_do_switch)

Queue == INSTANCE BatchQueue WITH
  pending <- Waiting,
  batch   <- IF Published THEN mem[m_safe_side] ELSE << >>

\* udp_listener implements the batch queue, with the batch read from the
\* buffer the reader looks at.
ImplementsQueue == Queue!Spec
=============================================================================
