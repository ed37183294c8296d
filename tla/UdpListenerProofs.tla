-------------------------- MODULE UdpListenerProofs --------------------------
(***************************************************************************)
(* Proofs about UdpListener, for every buffer size, every set of datagram  *)
(* lengths and every number of datagrams.                                  *)
(*                                                                         *)
(* The inductive invariant says who owns which buffer at each point of the *)
(* hand-over: the listener owns m_buffers[m_buff_pointer], whose bytes up  *)
(* to cur_index are the waiting datagrams; from the moment the listener    *)
(* publishes a batch until the reader is done with it, the reader owns     *)
(* m_buffers[m_safe_side], the other one, and its bytes up to m_safe_index *)
(* are the batch.                                                          *)
(***************************************************************************)
EXTENDS UdpListener, TLAPS

\* The listener has answered the reader's request, or the reader is parsing.
Answered ==
  \/ cpc = "parse"
  \/ cpc = "wait" /\ (lpc = "ack" \/ ~m_do_switch)

Filled(s, end) == Tiles(s, end) /\ Consecutive(s)

\* A request is up only while the reader waits, or after a stop; the
\* listener acknowledges only a request that is up.
RequestOK ==
  /\ m_do_switch => cpc = "wait" \/ (cpc = "idle" /\ ~m_run)
  /\ lpc = "ack" => m_do_switch

\* The bytes below cur_index of the listener's buffer.
WriteSideOK ==
  /\ cur_index < Limit
  /\ cur_index > UDP_START_INDEX =>
       /\ Filled(mem[m_buff_pointer], cur_index)
       /\ mem[m_buff_pointer][Len(mem[m_buff_pointer])].id = received

\* The bytes below m_safe_index of the reader's buffer.
ReadSideOK ==
  Answered =>
    /\ m_safe_index >= UDP_START_INDEX
    /\ m_safe_index > UDP_START_INDEX =>
         /\ m_safe_side # m_buff_pointer
         /\ Filled(mem[m_safe_side], m_safe_index)

ParseOK ==
  cpc = "parse" => /\ index_count = m_safe_index - UDP_START_INDEX
                   /\ index_count # 0

Inv == TypeOK /\ RequestOK /\ WriteSideOK /\ ReadSideOK /\ ParseOK

-----------------------------------------------------------------------------
\* The buffer always has room for one packet above the limit.
LEMMA SizesLemma ==
  /\ Capacity \in Nat /\ Limit \in Nat
  /\ UDP_START_INDEX \in Nat /\ PACKET_SIZE \in Nat \ {0}
  /\ UDP_START_INDEX < Limit
  /\ Limit + PACKET_SIZE = Capacity
  BY SizesAssumption DEF Capacity, Limit

\* A datagram stored where the data ends, with the next number, extends it.
LEMMA AppendFilled ==
  ASSUME NEW s \in Seq(Datagrams), NEW end \in Nat, NEW n \in Nat,
         NEW d \in Datagrams,
         d.off = end, d.id = n + 1,
         \/ s = << >> /\ end = UDP_START_INDEX
         \/ Filled(s, end) /\ s[Len(s)].id = n
  PROVE  /\ Filled(Append(s, d), end + d.len)
         /\ Append(s, d)[Len(Append(s, d))].id = n + 1
<1> DEFINE t == Append(s, d)
<1>1. /\ t \in Seq(Datagrams) /\ Len(t) = Len(s) + 1
      /\ \A i \in 1 .. Len(s) : t[i] = s[i]
      /\ t[Len(s) + 1] = d
      /\ Len(s) \in Nat
  OBVIOUS
<1>2. t # << >>
  BY <1>1
<1>3. CASE s = << >> /\ end = UDP_START_INDEX
  <2>1. Len(t) = 1 /\ t[1] = d
    BY <1>1, <1>3
  <2> HIDE DEF t
  <2> QED BY <1>1, <1>2, <1>3, <2>1 DEF Filled, Tiles, Consecutive
<1>4. CASE Filled(s, end) /\ s[Len(s)].id = n
  <2>1. s # << >> /\ Len(s) >= 1
    BY <1>4 DEF Filled, Tiles
  <2> HIDE DEF t
  <2>2. t[1].off = UDP_START_INDEX
    BY <1>1, <1>4, <2>1 DEF Filled, Tiles
  <2>3. ASSUME NEW i \in 1 .. Len(t) - 1
        PROVE  t[i + 1].off = t[i].off + t[i].len /\ t[i + 1].id = t[i].id + 1
    <3>1. CASE i = Len(s)
      BY <1>1, <1>4, <2>1, <3>1 DEF Filled, Tiles
    <3>2. CASE i # Len(s)
      <4>1. i \in 1 .. Len(s) - 1 /\ i + 1 \in 1 .. Len(s)
        BY <1>1, <3>2
      <4> QED BY <1>1, <1>4, <4>1 DEF Filled, Tiles, Consecutive
    <3> QED BY <3>1, <3>2
  <2> QED BY <1>1, <1>2, <2>2, <2>3 DEF Filled, Tiles, Consecutive
<1> QED BY <1>3, <1>4

-----------------------------------------------------------------------------
\* A buffer that is being filled from the start is either empty or tiled:
\* what Waiting stands for in the invariant.
LEMMA WaitingFilled ==
  ASSUME Inv
  PROVE  /\ Waiting \in Seq(Datagrams)
         /\ \/ Waiting = << >> /\ cur_index = UDP_START_INDEX
            \/ Filled(Waiting, cur_index) /\ Waiting[Len(Waiting)].id = received
  BY SizesLemma DEF Inv, TypeOK, WriteSideOK, Waiting

\* recv() of one datagram: the bytes stored extend what was waiting.
LEMMA StoredFilled ==
  ASSUME Inv, NEW len \in Lengths, received < MaxDatagrams
  PROVE  /\ Stored(len) \in Seq(Datagrams)
         /\ Filled(Stored(len), cur_index + len)
         /\ Stored(len)[Len(Stored(len))].id = received + 1
<1> DEFINE d == [id |-> received + 1, off |-> cur_index, len |-> len]
<1>1. d \in Datagrams /\ cur_index \in Nat /\ received \in Nat
  BY SizesLemma, BoundAssumption DEF Inv, TypeOK, Datagrams
<1>2. d.off = cur_index /\ d.id = received + 1 /\ d.len = len
  OBVIOUS
<1>3. Stored(len) = Append(Waiting, d)
  BY DEF Stored
<1> HIDE DEF d
<1>4. Append(Waiting, d) \in Seq(Datagrams)
  BY <1>1, WaitingFilled
<1>5. /\ Filled(Append(Waiting, d), cur_index + d.len)
      /\ Append(Waiting, d)[Len(Append(Waiting, d))].id = received + 1
  BY <1>1, <1>2, WaitingFilled, AppendFilled
<1> QED BY <1>2, <1>3, <1>4, <1>5

\* The steps of the listener that store nothing and publish nothing.
LEMMA QuietListener ==
  ASSUME Inv, SocketFails \/ SocketReady \/ LoopEnds \/ RecvNothing \/ NoSwitch
  PROVE  Inv'
<1> USE DEF listenerVars, sharedVars, flagVars, readerVars
<1>1. TypeOK'
  BY DEF Inv, TypeOK, SocketFails, SocketReady, LoopEnds, RecvNothing, NoSwitch
<1>2. RequestOK'
  BY DEF Inv, RequestOK, SocketFails, SocketReady, LoopEnds, RecvNothing, NoSwitch
<1>3. WriteSideOK' /\ ParseOK'
  BY DEF Inv, WriteSideOK, ParseOK, SocketFails, SocketReady, LoopEnds, RecvNothing,
         NoSwitch
<1>4. ReadSideOK'
  BY DEF Inv, ReadSideOK, Answered, SocketFails, SocketReady, LoopEnds, RecvNothing,
         NoSwitch
<1> QED BY <1>1, <1>2, <1>3, <1>4 DEF Inv

\* Storing a datagram touches only the listener's own buffer.
LEMMA RecvStep ==
  ASSUME Inv, NEW len \in Lengths, RecvFits(len) \/ RecvOverflows(len)
  PROVE  Inv'
<1> USE DEF listenerVars, sharedVars, flagVars, readerVars
<1>1. /\ RecvData(len)
      /\ \/ cur_index + len < Limit /\ cur_index' = cur_index + len
         \/ cur_index' = UDP_START_INDEX
      /\ overflow' \in 0 .. 1 /\ dropped' \in Nat
  <2>1. CASE RecvFits(len)
    BY <2>1 DEF RecvFits, Inv, TypeOK
  <2>2. CASE RecvOverflows(len)
    <3>1. Len(Waiting) \in Nat
      BY WaitingFilled
    <3> QED BY <2>2, <3>1 DEF RecvOverflows, Inv, TypeOK
  <2> QED BY <2>1, <2>2
<1>2. /\ lpc = "recv" /\ lpc' = "switch"
      /\ received < MaxDatagrams /\ received' = received + 1
      /\ mem' = [mem EXCEPT ![m_buff_pointer] = Stored(len)]
      /\ UNCHANGED <<bound, sharedVars, flagVars, readerVars, spc>>
  BY <1>1 DEF RecvData
<1>3. /\ Stored(len) \in Seq(Datagrams)
      /\ Filled(Stored(len), cur_index + len)
      /\ Stored(len)[Len(Stored(len))].id = received + 1
  BY <1>2, StoredFilled
<1>4. /\ mem \in [0 .. 1 -> Seq(Datagrams)] /\ m_buff_pointer \in 0 .. 1
      /\ m_safe_side \in 0 .. 1 /\ len \in Nat \ {0}
      /\ cur_index \in UDP_START_INDEX .. Capacity
  BY LengthsAssumption, SizesLemma DEF Inv, TypeOK
<1>5. /\ mem' \in [0 .. 1 -> Seq(Datagrams)]
      /\ mem'[m_buff_pointer] = Stored(len)
      /\ m_safe_side # m_buff_pointer => mem'[m_safe_side] = mem[m_safe_side]
  BY <1>2, <1>3, <1>4
<1>6. TypeOK'
  BY <1>1, <1>2, <1>4, <1>5, SizesLemma, BoundAssumption DEF Inv, TypeOK
<1>7. RequestOK' /\ ParseOK'
  BY <1>2 DEF Inv, RequestOK, ParseOK
<1>8. WriteSideOK'
  BY <1>1, <1>2, <1>3, <1>4, <1>5, SizesLemma DEF WriteSideOK
<1>9. ReadSideOK'
  BY <1>2, <1>4, <1>5 DEF Inv, ReadSideOK, Answered
<1> QED BY <1>6, <1>7, <1>8, <1>9 DEF Inv

\* The swap: the buffer just filled becomes the reader's, and only a reader
\* that waits, or has been stopped, can have asked for it.
LEMMA SwitchStep ==
  ASSUME Inv, Switch
  PROVE  Inv'
<1> USE DEF listenerVars, sharedVars, flagVars, readerVars
<1>1. /\ lpc = "switch" /\ m_do_switch /\ lpc' = "ack"
      /\ UNCHANGED <<bound, mem, received, dropped, flagVars, readerVars, spc>>
  BY DEF Switch, Publish
<1>2. \/ /\ cur_index > UDP_START_INDEX
         /\ m_safe_side' = m_buff_pointer
         /\ m_buff_pointer' = 1 - m_buff_pointer
         /\ m_safe_index' = cur_index
         /\ cur_index' = UDP_START_INDEX
         /\ handed' = handed + Len(mem[m_buff_pointer])
      \/ /\ cur_index = UDP_START_INDEX
         /\ m_safe_index' = UDP_START_INDEX
         /\ UNCHANGED <<m_safe_side, m_buff_pointer, cur_index, handed>>
  BY DEF Switch, Publish
<1>3. overflow' = 0 /\ told' \in Nat
  BY DEF Switch, Publish, ReportOverflow, Inv, TypeOK
<1>4. TypeOK'
  <2>1. Len(mem[m_buff_pointer]) \in Nat
    BY DEF Inv, TypeOK
  <2> QED BY <1>1, <1>2, <1>3, <2>1, SizesLemma DEF Inv, TypeOK
<1>5. RequestOK' /\ ParseOK' /\ cpc # "parse"
  BY <1>1 DEF Inv, RequestOK, ParseOK
<1>6. WriteSideOK'
  BY <1>1, <1>2, SizesLemma DEF Inv, WriteSideOK
<1>7. ReadSideOK'
  <2>1. m_buff_pointer \in 0 .. 1 /\ cur_index \in Nat
    BY SizesLemma DEF Inv, TypeOK
  <2> QED BY <1>1, <1>2, <2>1, SizesLemma DEF Inv, ReadSideOK, WriteSideOK
<1> QED BY <1>4, <1>5, <1>6, <1>7 DEF Inv

\* The acknowledgement changes the flag and nothing that is published.
LEMMA AckStep ==
  ASSUME Inv, AckSwitch
  PROVE  Inv'
<1> USE DEF AckSwitch, listenerVars, sharedVars, flagVars, readerVars
<1>1. TypeOK'
  BY DEF Inv, TypeOK
<1>2. RequestOK' /\ WriteSideOK' /\ ParseOK'
  BY DEF Inv, RequestOK, WriteSideOK, ParseOK
<1>3. ReadSideOK'
  BY DEF Inv, ReadSideOK, Answered
<1> QED BY <1>1, <1>2, <1>3 DEF Inv

\* get_buffer_list() and the parsing of what it returned.
LEMMA ReaderStep ==
  ASSUME Inv, Reader
  PROVE  Inv'
<1> USE DEF listenerVars, sharedVars, flagVars, readerVars
<1>1. CASE GetNotRunning
  <2>1. TypeOK'
    BY <1>1, SizesLemma DEF GetNotRunning, Inv, TypeOK
  <2>2. RequestOK' /\ WriteSideOK' /\ ParseOK' /\ ReadSideOK'
    BY <1>1 DEF GetNotRunning, Inv, RequestOK, WriteSideOK, ParseOK, ReadSideOK, Answered
  <2> QED BY <2>1, <2>2 DEF Inv
<1>2. CASE GetRequest
  <2>1. TypeOK'
    BY <1>2 DEF GetRequest, Inv, TypeOK
  <2>2. lpc # "ack"
    BY <1>2 DEF GetRequest, Inv, RequestOK
  <2>3. RequestOK' /\ WriteSideOK' /\ ParseOK' /\ ReadSideOK'
    BY <1>2, <2>2 DEF GetRequest, Inv, RequestOK, WriteSideOK, ParseOK, ReadSideOK, Answered
  <2> QED BY <2>1, <2>3 DEF Inv
<1>3. CASE GetHalted
  <2>1. TypeOK'
    BY <1>3, SizesLemma DEF GetHalted, Inv, TypeOK
  <2>2. RequestOK' /\ WriteSideOK' /\ ParseOK' /\ ReadSideOK'
    BY <1>3 DEF GetHalted, Inv, RequestOK, WriteSideOK, ParseOK, ReadSideOK, Answered
  <2> QED BY <2>1, <2>2 DEF Inv
<1>4. CASE GetReturn
  <2>1. m_safe_index \in UDP_START_INDEX .. Capacity
    BY <1>4, SizesLemma DEF GetReturn, Inv, TypeOK, ReadSideOK, Answered
  <2>2. TypeOK'
    BY <1>4, <2>1, SizesLemma DEF GetReturn, Inv, TypeOK
  <2>3. RequestOK' /\ WriteSideOK' /\ ParseOK'
    BY <1>4 DEF GetReturn, Inv, RequestOK, WriteSideOK, ParseOK
  <2>4. ReadSideOK'
    BY <1>4 DEF GetReturn, Inv, ReadSideOK, Answered
  <2> QED BY <2>2, <2>3, <2>4 DEF Inv
<1>5. CASE Parsed
  <2>1. TypeOK'
    BY <1>5 DEF Parsed, Inv, TypeOK
  <2>2. RequestOK' /\ WriteSideOK' /\ ParseOK' /\ ReadSideOK'
    BY <1>5 DEF Parsed, Inv, RequestOK, WriteSideOK, ParseOK, ReadSideOK, Answered
  <2> QED BY <2>1, <2>2 DEF Inv
<1> QED BY <1>1, <1>2, <1>3, <1>4, <1>5 DEF Reader

\* stop() can only turn a waiting request into an abandoned one.
LEMMA OwnerStep ==
  ASSUME Inv, Owner
  PROVE  Inv'
<1> USE DEF Owner, StopCall, StopJoined, listenerVars, sharedVars, flagVars, readerVars
<1>1. TypeOK'
  BY DEF Inv, TypeOK
<1>2. RequestOK' /\ WriteSideOK' /\ ParseOK' /\ ReadSideOK'
  BY DEF Inv, RequestOK, WriteSideOK, ParseOK, ReadSideOK, Answered
<1> QED BY <1>1, <1>2 DEF Inv

-----------------------------------------------------------------------------
\* The ownership invariant holds in every reachable state.
LEMMA InvAlways == Spec => []Inv
<1>1. Init => Inv
  <2> SUFFICES ASSUME Init PROVE Inv
    OBVIOUS
  <2>1. TypeOK
    <3>1. mem \in [0 .. 1 -> Seq(Datagrams)]
      BY DEF Init
    <3>2. m_safe_index \in 0 .. Capacity /\ index_count \in 0 .. Capacity
      BY SizesLemma DEF Init
    <3>3. cur_index \in UDP_START_INDEX .. Capacity /\ received \in 0 .. MaxDatagrams
      BY SizesLemma, BoundAssumption DEF Init
    <3>4. /\ m_buff_pointer \in 0 .. 1 /\ m_safe_side \in 0 .. 1 /\ overflow \in 0 .. 1
          /\ handed \in Nat /\ dropped \in Nat /\ told \in Nat
      BY DEF Init
    <3>5. /\ m_run \in BOOLEAN /\ m_connected \in BOOLEAN /\ m_do_switch \in BOOLEAN
          /\ bound \in BOOLEAN
      BY DEF Init
    <3>6. /\ lpc \in {"setup", "recv", "switch", "ack", "done"}
          /\ cpc \in {"idle", "wait", "parse"} /\ spc \in {"running", "join", "stopped"}
      BY DEF Init
    <3> QED
      BY <3>1, <3>2, <3>3, <3>4, <3>5, <3>6 DEF TypeOK
  <2>2. RequestOK /\ WriteSideOK /\ ReadSideOK /\ ParseOK
    BY SizesLemma DEF Init, RequestOK, WriteSideOK, ReadSideOK, ParseOK, Answered
  <2> QED BY <2>1, <2>2 DEF Inv
<1>2. Inv /\ [Next]_vars => Inv'
  <2> SUFFICES ASSUME Inv, [Next]_vars PROVE Inv'
    OBVIOUS
  <2>1. CASE Listener
    BY <2>1, QuietListener, RecvStep, SwitchStep, AckStep DEF Listener
  <2>2. CASE Reader
    BY <2>2, ReaderStep
  <2>3. CASE Owner
    BY <2>3, OwnerStep
  <2>4. CASE UNCHANGED vars
    <3> USE <2>4 DEF vars, listenerVars, sharedVars, flagVars, readerVars
    <3>1. TypeOK'
      BY DEF Inv, TypeOK
    <3>2. RequestOK' /\ WriteSideOK' /\ ParseOK' /\ ReadSideOK'
      BY DEF Inv, RequestOK, WriteSideOK, ParseOK, ReadSideOK, Answered
    <3> QED BY <3>1, <3>2 DEF Inv
  <2> QED BY <2>1, <2>2, <2>3, <2>4 DEF Next
<1> QED BY <1>1, <1>2, PTL DEF Spec

\* The variables keep their types (udp_listener.h, the locals of operator()).
THEOREM TypeCorrect == Spec => []TypeOK
<1>1. Inv => TypeOK
  BY DEF Inv
<1> QED BY <1>1, InvAlways, PTL

\* recv() never writes past the end of a buffer (udp_listener.cpp, the call
\* of recv and the wrap of cur_index), whatever arrives; and what
\* get_buffer_list() returns is a gapless run of datagrams that the listener is
\* not writing to, although no lock protects it.
THEOREM BuffersAreSound == Spec => []BuffersSound
<1>1. Inv => RecvHasRoom
  BY SizesLemma DEF Inv, TypeOK, WriteSideOK, RecvHasRoom
<1>2. Inv => HandedBytesIntact
  <2> SUFFICES ASSUME Inv, cpc = "parse" PROVE HandedBytesIntact
    BY DEF HandedBytesIntact
  <2>1. /\ m_safe_index \in Nat /\ index_count = m_safe_index - UDP_START_INDEX
        /\ m_safe_index > UDP_START_INDEX
    BY SizesLemma DEF Inv, TypeOK, ParseOK, ReadSideOK, Answered
  <2>2. UDP_START_INDEX + index_count = m_safe_index
    BY <2>1, SizesLemma
  <2> QED BY <2>1, <2>2 DEF Inv, ReadSideOK, Answered, Filled, HandedBytesIntact
<1>3. Inv => BuffersSound
  BY <1>1, <1>2 DEF BuffersSound
<1> QED BY <1>3, InvAlways, PTL

\* While the reader parses, its buffer and its contents stay the same.
THEOREM BatchIsStable == Spec => BatchStable
<1>1. ASSUME Inv, [Next]_vars
      PROVE  [cpc = "parse" /\ cpc' = "parse"
               => /\ m_safe_side' = m_safe_side
                  /\ mem'[m_safe_side] = mem[m_safe_side]]_vars
  <2> SUFFICES ASSUME Next, cpc = "parse", cpc' = "parse"
               PROVE  m_safe_side' = m_safe_side /\ mem'[m_safe_side] = mem[m_safe_side]
    BY <1>1
  <2> USE DEF listenerVars, sharedVars, flagVars, readerVars
  <2>1. ~m_do_switch /\ m_safe_side # m_buff_pointer
    BY <1>1, SizesLemma DEF Inv, TypeOK, RequestOK, ReadSideOK, ParseOK, Answered
  <2>2. /\ mem \in [0 .. 1 -> Seq(Datagrams)]
        /\ m_buff_pointer \in 0 .. 1 /\ m_safe_side \in 0 .. 1
    BY <1>1 DEF Inv, TypeOK
  <2>3. ASSUME NEW len \in Lengths, RecvFits(len) \/ RecvOverflows(len)
        PROVE  m_safe_side' = m_safe_side /\ mem'[m_safe_side] = mem[m_safe_side]
    BY <2>1, <2>2, <2>3 DEF RecvFits, RecvOverflows, RecvData
  <2>4. CASE Listener
    BY <2>1, <2>3, <2>4 DEF Listener, SocketFails, SocketReady, LoopEnds, RecvNothing,
                            NoSwitch, Switch, Publish, AckSwitch
  <2>5. CASE Reader
    BY <2>5 DEF Reader, GetNotRunning, GetRequest, GetHalted, GetReturn, Parsed
  <2>6. CASE Owner
    BY <2>6 DEF Owner, StopCall, StopJoined
  <2> QED BY <2>4, <2>5, <2>6 DEF Next
<1> QED BY <1>1, InvAlways, PTL DEF Spec, BatchStable

-----------------------------------------------------------------------------
(* Nothing is lost in silence.                                             *)

\* One step keeps the count of datagrams and the report of drops.
LEMMA AccountingStep ==
  ASSUME Inv, Inv', Accounting, [Next]_vars
  PROVE  Accounting'
<1> USE DEF vars, listenerVars, sharedVars, flagVars, readerVars, Accounting
<1>1. Waiting \in Seq(Datagrams) /\ Len(Waiting) \in Nat
  BY WaitingFilled
<1>2. ASSUME NEW len \in Lengths, RecvFits(len) \/ RecvOverflows(len)
      PROVE  Accounting'
  <2>1. RecvData(len)
    BY <1>2 DEF RecvFits, RecvOverflows
  <2>2. Len(Stored(len)) = Len(Waiting) + 1
    BY <1>1 DEF Stored
  <2>3. mem'[m_buff_pointer] = Stored(len) /\ m_buff_pointer' = m_buff_pointer
    BY <2>1 DEF RecvData, Inv, TypeOK
  <2>4. /\ received' = received + 1 /\ handed' = handed /\ told' = told
        /\ lpc' = "switch"
    BY <2>1 DEF RecvData
  <2>5. CASE RecvFits(len)
    <3>1. cur_index' # UDP_START_INDEX
      BY <2>5, LengthsAssumption, SizesLemma DEF RecvFits, Inv, TypeOK
    <3>2. Waiting' = Stored(len)
      BY <2>3, <3>1 DEF Waiting
    <3>3. DatagramsConserved'
      <4>1. Len(Waiting') = Len(Waiting) + 1 /\ dropped' = dropped
        BY <2>2, <2>5, <3>2 DEF RecvFits
      <4>2. received \in Nat /\ handed \in Nat /\ dropped \in Nat
        BY DEF Inv, TypeOK
      <4> QED BY <1>1, <2>4, <4>1, <4>2 DEF DatagramsConserved
    <3>4. DropsReported'
      BY <2>4, <2>5 DEF RecvFits, DropsReported
    <3> QED BY <3>3, <3>4
  <2>6. CASE RecvOverflows(len)
    <3>1. Len(Waiting') = 0
      BY <2>6 DEF RecvOverflows, Waiting
    <3>2. DatagramsConserved'
      BY <1>1, <2>4, <2>6, <3>1 DEF RecvOverflows, Inv, TypeOK, DatagramsConserved
    <3>3. DropsReported'
      BY <2>4, <2>6 DEF RecvOverflows, DropsReported
    <3> QED BY <3>2, <3>3
  <2> QED BY <1>2, <2>5, <2>6
<1>3. CASE Switch
  <2>1. Len(Waiting') = 0 /\ handed' = handed + Len(Waiting)
    BY <1>3, SizesLemma DEF Switch, Publish, Waiting, Inv, TypeOK
  <2>2. DatagramsConserved'
    BY <1>1, <1>3, <2>1 DEF Switch, Publish, Inv, TypeOK, DatagramsConserved
  <2>3. DropsReported'
    BY <1>3 DEF Switch, Publish, ReportOverflow, Inv, TypeOK, DropsReported
  <2> QED BY <2>2, <2>3
<1>4. CASE \/ SocketFails \/ SocketReady \/ LoopEnds \/ RecvNothing \/ NoSwitch
           \/ AckSwitch \/ Reader \/ Owner \/ UNCHANGED vars
  <2>1. /\ UNCHANGED <<received, handed, dropped, cur_index, mem, m_buff_pointer>>
        /\ UNCHANGED <<overflow, told>>
        /\ lpc' = lpc \/ lpc' # "ack"
    BY <1>4 DEF SocketFails, SocketReady, LoopEnds, RecvNothing, NoSwitch, AckSwitch,
                Reader, GetNotRunning, GetRequest, GetHalted, GetReturn, Parsed,
                Owner, StopCall, StopJoined
  <2>2. Waiting' = Waiting
    BY <2>1 DEF Waiting
  <2> QED BY <2>1, <2>2 DEF DatagramsConserved, DropsReported
<1> QED BY <1>2, <1>3, <1>4 DEF Next, Listener

\* Every datagram received is handed over once, dropped or still waiting, and
\* a batch never follows a gap that was not reported with an "O" first.
THEOREM Accounted == Spec => []Accounting
<1>1. Init => Accounting
  BY DEF Init, Accounting, DatagramsConserved, DropsReported, Waiting
<1>2. Inv /\ Inv' /\ Accounting /\ [Next]_vars => Accounting'
  BY AccountingStep
<1> QED BY <1>1, <1>2, InvAlways, PTL DEF Spec

-----------------------------------------------------------------------------
(* The refinement of BatchQueue.                                           *)

Batch == IF Published THEN mem[m_safe_side] ELSE << >>

\* Each step of the program is a step of the abstract queue or changes
\* nothing that the queue shows.
LEMMA QueueStep ==
  ASSUME Inv, Inv', [Next]_vars
  PROVE  [Queue!Next]_(Queue!vars)
<1> USE DEF vars, listenerVars, sharedVars, flagVars, readerVars
<1>1. /\ mem \in [0 .. 1 -> Seq(Datagrams)]
      /\ m_buff_pointer \in 0 .. 1 /\ m_safe_side \in 0 .. 1
      /\ m_safe_index \in Nat /\ cur_index \in Nat /\ UDP_START_INDEX \in Nat
      /\ cpc \in {"idle", "wait", "parse"} /\ m_do_switch \in BOOLEAN
  BY SizesLemma DEF Inv, TypeOK
<1>2. Published => m_safe_side # m_buff_pointer
  BY DEF Published, Inv, ReadSideOK, Answered
<1>3. ASSUME Waiting' = Waiting, Batch' = Batch
      PROVE  [Queue!Next]_(Queue!vars)
  BY <1>3 DEF Queue!vars, Batch
<1>4. ASSUME NEW len \in Lengths, RecvFits(len) \/ RecvOverflows(len)
      PROVE  [Queue!Next]_(Queue!vars)
  <2>1. RecvData(len)
    BY <1>4 DEF RecvFits, RecvOverflows
  <2>2. mem'[m_buff_pointer] = Stored(len) /\ m_buff_pointer' = m_buff_pointer
    BY <1>1, <2>1 DEF RecvData
  <2>3. Batch' = Batch
    <3>1. Published' = Published
      BY <2>1 DEF RecvData, Published
    <3>2. Published => mem'[m_safe_side] = mem[m_safe_side] /\ m_safe_side' = m_safe_side
      BY <1>1, <1>2, <2>1 DEF RecvData
    <3> QED BY <3>1, <3>2 DEF Batch
  <2>4. CASE RecvFits(len)
    <3> DEFINE d == [id |-> received + 1, off |-> cur_index, len |-> len]
    <3>1. d \in Datagrams
      BY <2>1, SizesLemma, BoundAssumption DEF RecvData, Inv, TypeOK, Datagrams
    <3>2. cur_index' # UDP_START_INDEX
      BY <1>1, <2>4, LengthsAssumption, SizesLemma DEF RecvFits, Inv, TypeOK
    <3>3. Waiting' = Append(Waiting, d)
      BY <2>2, <3>2 DEF Waiting, Stored
    <3> HIDE DEF d
    <3>4. Queue!Arrive(d)
      BY <2>3, <3>3 DEF Queue!Arrive, Batch
    <3> QED BY <3>1, <3>4 DEF Queue!Next
  <2>5. CASE RecvOverflows(len)
    <3>1. Waiting' = << >>
      BY <2>5 DEF RecvOverflows, Waiting
    <3>2. Queue!ArriveAndDrop
      BY <2>3, <3>1 DEF Queue!ArriveAndDrop, Batch
    <3> QED BY <3>2 DEF Queue!Next
  <2> QED BY <1>4, <2>4, <2>5
<1>5. CASE Switch
  <2>1. /\ cpc # "parse" /\ Batch = << >> /\ lpc' = "ack" /\ cpc' = cpc
        /\ mem' = mem
    BY <1>5 DEF Switch, Publish, Inv, RequestOK, Batch, Published
  <2>2. CASE cur_index > UDP_START_INDEX
    <3>1. /\ m_safe_index' = cur_index /\ m_safe_side' = m_buff_pointer
          /\ cur_index' = UDP_START_INDEX
      BY <1>1, <1>5, <2>2 DEF Switch, Publish
    <3>2. Waiting' = << >> /\ Waiting = mem[m_buff_pointer]
      BY <1>1, <2>2, <3>1 DEF Waiting
    <3>3. CASE cpc = "wait"
      <4>1. Batch' = Waiting
        BY <2>1, <2>2, <3>1, <3>2, <3>3 DEF Batch, Published
      <4>2. Queue!Take
        BY <2>1, <3>2, <4>1 DEF Queue!Take, Batch
      <4> QED BY <4>2 DEF Queue!Next
    <3>4. CASE cpc # "wait"
      <4>1. Batch' = Batch
        BY <2>1, <3>4 DEF Batch, Published
      <4>2. Queue!ArriveAndDrop
        BY <3>2, <4>1 DEF Queue!ArriveAndDrop, Batch
      <4> QED BY <4>2 DEF Queue!Next
    <3> QED BY <3>3, <3>4
  <2>3. CASE cur_index = UDP_START_INDEX
    <3>1. m_safe_index' = UDP_START_INDEX /\ cur_index' = cur_index
      BY <1>1, <1>5, <2>3 DEF Switch, Publish
    <3>2. Waiting' = Waiting
      BY <2>3, <3>1 DEF Waiting
    <3>3. Batch' = Batch
      BY <1>1, <2>1, <3>1 DEF Batch, Published
    <3> QED BY <1>3, <3>2, <3>3
  <2> QED BY <1>1, <1>5, <2>2, <2>3 DEF Switch, Publish
<1>6. CASE SocketFails \/ SocketReady \/ LoopEnds \/ RecvNothing \/ NoSwitch \/ AckSwitch
  <2>1. UNCHANGED <<cur_index, mem, m_buff_pointer, m_safe_side, m_safe_index, cpc>>
    BY <1>6 DEF SocketFails, SocketReady, LoopEnds, RecvNothing, NoSwitch, AckSwitch
  <2>2. Published' = Published
    BY <1>6 DEF SocketFails, SocketReady, LoopEnds, RecvNothing, NoSwitch, AckSwitch,
                Published
  <2>3. Waiting' = Waiting /\ Batch' = Batch
    BY <2>1, <2>2 DEF Waiting, Batch
  <2> QED BY <1>3, <2>3
<1>7. CASE Reader
  <2>1. Waiting' = Waiting /\ mem' = mem /\ m_safe_side' = m_safe_side
    BY <1>7 DEF Reader, GetNotRunning, GetRequest, GetHalted, GetReturn, Parsed, Waiting
  <2>2. CASE GetNotRunning
    BY <1>3, <2>1, <2>2 DEF GetNotRunning, Batch, Published
  <2>3. CASE GetRequest
    <3>1. ~Published /\ ~Published'
      BY <2>3 DEF GetRequest, Published, Inv, RequestOK
    <3> QED BY <1>3, <2>1, <3>1 DEF Batch
  <2>4. CASE GetHalted \/ Parsed
    <3>1. Batch' = << >>
      BY <2>4 DEF GetHalted, Parsed, Batch, Published
    <3>2. Queue!Release
      BY <2>1, <3>1 DEF Queue!Release, Batch
    <3> QED BY <3>2 DEF Queue!Next
  <2>5. CASE GetReturn
    <3>1. Published' = Published
      BY <1>1, <2>5 DEF GetReturn, Published, Inv, ReadSideOK, Answered
    <3> QED BY <1>3, <2>1, <3>1 DEF Batch
  <2> QED BY <1>7, <2>2, <2>3, <2>4, <2>5 DEF Reader
<1>8. CASE Owner \/ UNCHANGED vars
  BY <1>3, <1>8 DEF Owner, StopCall, StopJoined, Waiting, Batch, Published
<1> QED BY <1>4, <1>5, <1>6, <1>7, <1>8 DEF Next, Listener

\* udp_listener, with its two buffers, its flag and no lock, implements the
\* queue that is emptied a batch at a time.
THEOREM Refinement == Spec => ImplementsQueue
<1>1. Init => Queue!Init
  BY DEF Init, Queue!Init, Waiting, Published
<1>2. Inv /\ Inv' /\ [Next]_vars => [Queue!Next]_(Queue!vars)
  BY QueueStep
<1> QED BY <1>1, <1>2, InvAlways, PTL DEF Spec, ImplementsQueue, Queue!Spec
=============================================================================
