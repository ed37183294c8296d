# gr-pico in TLA+

gr-pico is a GNU Radio out-of-tree module for DRS Pico radios. `pico_src`
receives IQ samples from the radio over UDP and controls it over a TCP
"mnemonic" session; `pico_sink` sends samples. The repository also carries the
tools that turn doxygen's XML into docstrings (`docs/doxygen`). This directory
models both halves: the threads, buffers, flags and commands of the blocks, and
the object graphs and caches of the documentation tools. TLC checks the models
on small instances; TLAPS proves every safety property of the receive path, of the
parser and of both blocks for every size.

## 1. Inventory

| Component | State | Operations | Interacts with |
|---|---|---|---|
| `udp_listener` (lib/udp_listener.cpp) | two byte buffers, `m_buff_pointer`, `m_safe_side`, `m_safe_index`, flags `m_do_switch`, `m_run`, `m_connected`; locals `cur_index`, `overflow` | its thread (socket set-up, recv loop, swap on request), `get_buffer_list`, `stop` | the manager's thread calls `get_buffer_list` and waits for the flag |
| `task_impl` (lib/task.cpp) | `started`, mutex, condition variable | worker loop, `wake_up_thread`, `is_running` (no lock), `stop_thread` | the manager wakes tasks; each runs `process_packet` |
| `complex_manager` (lib/complex_manager.cpp) | double sample buffer `m_mang[0]` (counts, indices, pointer, `flip`, tuner validity), flags `m_request_flip`, `m_update_valid_streams`, `m_run`, task slots, `m_safety_count`, carry-over, loss counters | its thread `operator()`, `handle_flip`, `handle_update`, `process_packet`, `fill_buffers`, `update_tuners`, `stop` | listener below, tasks beside, block and GUI threads above |
| `vita49` (lib/vita49.cpp) | none (parsers) | `VRLFrame::parse`, `VRTPacket::parse`, accessors | manager |
| `pico_src_impl` (lib/pico_src_impl.cc) | `m_connected`, `m_active_channels`, the manager, the TCP client | `start`, `work`, `stop` (thread of the block); `set_*` / `update_*` (thread of the GUI) | radio over TCP, manager |
| `pico_sink_impl` (lib/pico_sink_impl.cc) | connections, throttle (`m_sample_rate`, `m_start`, `m_total_samples`, `m_samples_per_tick`, `m_samples_per_us`) | constructor, destructor, `start`, `work`; setters | radio |
| `boost_client` (lib/boost_client.cpp) | TCP socket | `try_connect`, `send_message`, `send_data`, `disconnect` | radio |
| generated classes (docs/doxygen/doxyxml/generated) | object graph of a document | `build`, `export` | minidom; `text.py` reads descriptions from the graph |
| doxyxml objects (doxyxml/base.py, doxyindex.py) | `_parsed`, `_error`, `_members`, caches, `_refs` of the index | `members`, `in_category`, `get_member`, `has_member`, `error`, `name`, `_parse` | generated classes |
| `swig_doc.py` | lists of blocks, functions, classes; entries | `make_swig_interface_file` | doxyxml |
| `aligned_buffer`, `mne_helper.h`, `build_utils` | allocation; command strings; templates | | |

Hard behaviours: a lock-free swap of receive buffers; a second one of sample
buffers, with worker threads writing and another thread reading; requests that
spin on a flag another thread lowers, across a stop; retuning while streaming; a
restart that replaces the manager under its users; buffers that run full on both
levels; lost datagrams seen through wrapping counters; incomplete frames carried
from one batch to the next; answers tied to their queries only by their order; a
throttle whose variables are replaced one by one while it uses them; objects that
are parsed on first use, cache what they find and may fail half-way.
`PROJECT.json` lists them at their lines under "hazards".

What makes each part correct:

* listener: batches are intact, in order and complete, nothing is lost without
  an "O", no overrun of the buffer, requests are always answered;
* task: one run per wake-up, a slot is never shared, it comes to rest, it stops;
* manager: every frame is processed once, wherever batches cut it; samples
  delivered = samples accepted, in order and once; tasks write only free cells of
  the write side; packets outlive the tasks that read them; callers always
  return; an update is applied; losses are reported;
* parser: a complete frame is taken apart as it was sent, an incomplete one is
  held back, nothing outside the frame is taken for a packet, parsing ends;
* source: the channel asked for is delivered, the radio streams while the block
  runs and not after, calls return, over restarts;
* sink: the radio is given samples at its rate, neither faster nor much slower;
* documentation tools: what is exported can be read back; descriptions are in
  order; one object for a file, read once, no stale answers; everything is
  documented once or the script fails for a reason that can be named.

## 2. Plan

Done: `BatchQueue`, `UdpListener`, `TaskImpl`, `SampleStream`, `ComplexManager`,
`FrameAssembly`, `Vita49`, `MneClient`, `PicoSrc`, `PicoSink`, with a module of proofs
for each component (`UdpListenerProofs`, `TaskImplProofs`, `ComplexManagerProofs`,
`FrameAssemblyProofs`, `Vita49Proofs`, `PicoSrcProofs`, `PicoSinkProofs`);
`DoxySchema`, `GenerateDS`, `DoxyXml`, `SwigDoc`. Of the safety properties that the
runs check only those of the documentation tools have no theorem (§ 5).

Open: joining `FrameAssembly` and `ComplexManager`, which model the two halves of the
manager's thread, into one module whose frames carry samples, so that a loss on the
network can be followed to the samples that the block gets.

## 3. Modules

**`UdpListener`** has one action per step of the code that another thread can
see. The listener (`lpc`): set-up fails or succeeds (`SocketFails`,
`SocketReady`, where a failed `bind` is forgotten as in the code), the loop test
(`LoopEnds`), `recv` with nothing, with data that fits, with data that fills the
buffer (`RecvNothing`, `RecvFits`, `RecvOverflows`), then the test of
`m_do_switch` (`NoSwitch`, `Switch`) and its lowering (`AckSwitch`). The reader
(`cpc`) is `get_buffer_list`: early return, request, return on stop, return with
a batch, followed by the parsing that complex_manager does (`Parsed`). The owner
(`spc`) is `stop`. A datagram is `[id, off, len]`: its number and the bytes it
occupies; `mem[b]` is what lies in buffer b. Stores happen in program order: all
wait loops contain opaque calls, so flags are re-read, and on the platforms
GNU Radio is built for plain loads and stores of aligned words do not tear.
`Publish` is the body of the swap; `Switch` is its use in the code.

**`BatchQueue`** is what the listener promises: a queue emptied a batch at a
time. `ImplementsQueue` is the refinement, with `pending` read off the write
buffer and `batch` off the buffer the reader looks at.

**`TaskImpl`** is one task and its two users. The mutex is held while `task_fcn`
runs, and for the section that clears `started` and waits, which is one step;
`boost`'s interruption takes effect only in the wait. `task.h` says that a wake-up makes
`task_fcn` be called one time: `EachWakeRuns` is that sentence and is violated;
`WakesAccounted` says what is true instead.

**`ComplexManager`** composes the manager's thread (`mpc`), the tasks (`started`,
`job`), the block's thread (`bpc`: start, work, stop one after the other, as GNU
Radio calls them) and the GUI's thread in `set_channel` (`upc["gui"]`). Every
flag test of the three nested loops is a step. Of what the threads share without a
lock each load and each store that another thread may interleave with is a step:
`handle_update` is its stores in the order of the program (`store` counts them;
`out_pointer` is last), and the lowering of the flag comes after. `fill_buffers` reads the
pointer, the count and the validity of the tuner in three steps, then come the minimum
and the request of a flip, the wait and the recursion, the copy, and `+=` on the index and
`-=` on the count, each a load and a store whose side is read off `out_pointer` again or
was kept by the compiler (`side`, `breg`). A task is found, the count of
the write side loaded and increased, and the task woken in steps of their own
(`FindTask`, `LoadCount`, `Dispatch`). Samples carry their number in order of acceptance.
The history `mixed` says that a change of the tuner fell into a call of
`fill_buffers` and no later update, outside of any call, has made up for it. A `memcpy`
of a negative length and a write outside the buffer stop the model (`crashed`). The build
has NUM_STREAMS = 1, so there is one `buffer_manager`. Abstracted: the contents of a batch
(any frames of any packets), conversion to float, loss counters, the number that
`fill_buffers` returns. Tasks are those of `TaskImpl` once past their first wait;
`get_buffer_list` is one step because `RequestReturns` of `UdpListener` shows that it
returns.

**`SampleStream`** is what the manager promises to the block: a queue of samples. A
packet joins it all together, a caller is handed samples from its front, and an update
drops all that waits. `ImplementsStream` is the refinement. The queue is read off the
memory and not off the counts alone: the cells of the read side from the read index on,
then those of the write side, where a cell counted for a task that has yet to write it
is what the task is going to write (`Settled`). What `fill_buffers` has copied and not
yet taken off is in the caller's hands (`Copied`). An update drops the queue with the first
of its stores.

**`FrameAssembly`** is the other half of the manager's thread: how frames come out
of batches. The stream of the radio is the constant `Stream`, any sequence of words
`[f, k]` (word k of frame f) without a gap; TLC is given all frames of `Sizes` one
after the other (`MCStream`). Datagrams cut it anywhere and may be lost. `NextBatch` puts what was
saved before the new data, `ProcessFrame`, `SaveRest` and `GiveUpRest` are the
three ends of a parse (done, `index_error`, another exception), with the F and L
that the counters print (`Follows` and `Missing` measure the gap before a frame in the
stream itself). `Parse` takes the outcomes of `VRLFrame::parse` that
`Vita49` has step by step: a frame whose words are not those that were sent has
any outcome of `Misreadings`. A carry-over larger than its buffer is undefined
behaviour: the model stops there (`pc = "crashed"`).

**`Vita49`** is the constructor of `VRLFrameImpl`, one action per stage
(`CheckSize`, `FindAlignment`, `ReadFrameInfo`, `ParsePacket`, which includes the
constructor of `VRTPacketImpl`), and the accessors of a packet as operators on
its header with the code's names. A word has the kind the radio gave it; a word
read as something else gives any value of `Headers` or `FrameSizes`. Sizes are in
words: both size checks of the code round down to words, and bytes modulo 2^64
are words modulo 2^62 (`WordLimit`, of which TLC needs only that it is larger than
every block). The reference is `Layout`, the order in which the standard puts the
words of a packet, written field by field without the accessors; `SentAssumption` says
of a block what it means that the radio sent a frame in it (`HeadSent`, `FrameSent`).
`MCVita49` builds its blocks from `Layout`, and TLC finds that the assumption holds of
them. The two
alignment words are one kind; sample data that happens to equal an alignment word
is not modelled. The read of the frame's last word, whose result the code ignores,
is left out.

**`MneClient`** is the session of `boost_client`: `line` holds the mnemonics on
their way to the radio, `answers` the segments on their way back. A read takes as
many segments as have come and uses the number in front; it may return with
nothing or throw. An answer may come in two segments. `late` remembers that a
read did not get exactly the answer to its query. `PicoSrc` and `PicoSink` extend
it and add the radio, which is external and does what their commands suppose.

**`PicoSrc`** has the thread of the block (`bpc`: start, which makes a manager,
publishes it, deletes the old one, calls `update_tuners`, switches the stream on;
stop), the thread of the GUI (`gpc`: every setter, cut at each command and each
answer), and the managers of successive starts with the steps others see of them:
binding the socket, applying an update, lowering its flag. `update_tuners` is
`UpdateStep`, four steps for either caller. A use of a deleted manager is
undefined behaviour (`crashed`).

**`PicoSink`** cuts `work` at every read of a variable that `set_sample_rate`
writes, and `set_sample_rate` at every write. Time is a counter of microseconds.
`+=` on the count of samples is a load and a store. `since` and `given` are the
history that the throttle is measured against.

**`DoxySchema`** lists, for each of the 44 generated classes that a document can
reach, its attributes, its children in the order of `export`, and which of four
templates its text follows. The classes are thousands of lines of code that
differ in nothing else. **`GenerateDS`** has the operations: `build`, `export`,
`quote_xml`, reading back, and `description_bit` of text.py. Text is a sequence of
pieces that know how often they are quoted, whether they came from CDATA and whether
they are in ASCII. `encode` is the ASCII encoding that text children and string
attributes (`Strings`) go through and tokens (`Tokens`) do not; `stdout` says what
the stream that is printed to can take (`WriteRaises`); `Layout` and `Laid` are the line
breaks and the indentation around children, which in mixed content and in the value of a
link or a location become text.

**`DoxyXml`** has the methods of `Base` and the `_parse` of every class as
operators from a heap to the heap they leave, the exception they raise and their
value; what was done before an exception stays done. **`SwigDoc`** runs
`swig_doc.py` over it, one action for each turn of its loops, and beside it an
interactive user who calls any method of any object in any order. What the script
should write is defined from the directory alone (`Expected`, `Sound`). The MC module
`MCDocTools` starts either of the two programs, a generated module or a user of doxyxml,
and the other one stays at rest.

Definitions called mutants are plausible bugs of the definition they name; no
specification uses them. Each shows that a property can fail: substituted for
the original, TLC must find the property violated.

## 4. Runs

| Run | What it shows |
|---|---|
| `udp_listener` | all properties of the swap, liveness, and that it implements `BatchQueue` |
| `task` | slots, wake-up accounting, liveness of tasks |
| `wake_lost` | violation: a wake-up before the worker's first wait is lost |
| `stream` | two tasks, no retuning: nobody writes where another writes or reads, and the manager implements `SampleStream` |
| `retune` | the GUI retunes while streaming: the update is applied; only a change of the tuner that falls into a call of `fill_buffers` can spoil the stream, and the next update outside of one makes it whole; nobody waits for ever; only a packet that does not fit holds up `stop` |
| `stop_hangs` | violation: `stop` waits for ever for a manager that retries such a packet |
| `vita49` | whole frames are taken apart as sent, fields are where the accessors look, cut frames are held back; with words missing, parsing ends and packets stay inside their frame |
| `frames` | every frame once and in order wherever it is cut; back in step after a loss; F and L are printed exactly where the counters can see the loss |
| `no_packet_loss` | violation: a loss of frames prints an F and no L |
| `pico_src` | channel, stream and managers over a restart, with setters at any moment |
| `pico_sink` | the throttle over starts, stops, changes of rate and bandwidth, late answers |
| `doc_tools` | export and build of every class agree but for seven distortions; descriptions in order; everything documented once or a known reason to die; caches and references of doxyxml under any calls |

Where several invariants say together what one piece of state is for, the run
checks their conjunction: `BuffersSound` (`RecvHasRoom`, `HandedBytesIntact`),
`Accounting` (`DatagramsConserved`, `DropsReported`), `TasksApart` (`WritesApart`,
`SourceHeld`), `StreamIntact` (without a retuning nothing is mixed, the process dies only
when something is, and when nothing is and no update is half applied: `SamplesConserved`,
`ReadSideIntact`, `WriteSideCovered` and not `Overdrawn`), `CarryOverSound`
(`CarryFits`, `NothingForgotten`) and `ObjectsShared` (`OneObjectPerRefid`,
`ReadOnce`). The type invariants of
`ComplexManager`, `FrameAssembly`, `PicoSrc`, `PicoSink`, `GenerateDS` and
`SwigDoc` are conjuncts of `StreamIntact`, `CarryOverSound`, `FirstStartSafe`,
`SleepBounded`, `RoundTrip` and `ObjectsShared`; those of all but the last two are
proved, and so are those of `UdpListener`, `TaskImpl` and `Vita49`.

Three violation runs check a sentence of the repository that the code does not keep; each
is a finding in `PROJECT.json`. `wake_lost`: a wake-up given before the worker first takes
its mutex is lost, against task.h:66-67; in the passing run `WakesAccounted` says that
this is the only one that can be. `no_packet_loss`: an F comes without an L when
the packets in the missing frames are a multiple of sixteen, against README.md:26 and
complex_manager.h:120-121; `LossReported` says exactly what F and L say (an update before
the frame hides the L too, one L stands for a gap of any length, and a gap of a multiple of
4096 frames prints no F). `stop_hangs`: complex_manager.h:230-231 promises the
shutdown; `StopReturnsUnlessFull` says that nothing else than a full write side
can prevent it.

Some properties carry an exception, and the models reach it:

* Between two requests the listener may flush several times and print one O; the
  repository's README says "Each "O" represents a full buffer flush".
* In `retune` an update may fall between the computation of `min` and the end of
  `fill_buffers`, which looks at the flag on entry only: the count of the read
  side becomes negative and the next `memcpy` has a negative length, or, because
  `out_pointer` is stored last, the count of the write side does, and the next
  packet is written before the buffer. The model stops there (`crashed`). `StreamIntact`
  allows both while something is `mixed` and at no other time, and `TasksApart` is proved
  with the same condition; `ImplementsStream` is checked in `stream`, where the GUI is
  quiet, and proved for every behaviour in which nothing is mixed.
* Two overlapping calls of `update_tuners`, from `start` and from `set_channel`, may both
  return with the tuner invalid (`UpdateApplied` in `retune` has one caller at a time,
  `ChannelApplied` has `overlap`). With no valid tuner `fill_buffers` returns a number of
  items that it did not copy, against complex_manager.h:256-257; no property is about
  that number.
* After a loss the carry-over may outgrow its buffer (`CarryFits`), a packet may
  announce more fields than it has words (vita49.cpp:383), and a misread frame size
  of zero would hold the loop for ever (`MisreadingsAssumption`).
* On a restart the new listener may find the port taken and stay deaf, and
  `set_channel` may be inside the manager that is deleted; after `stop` it waits
  for ever (`FirstStartSafe`, `CallersReturn`).
* `set_sample_rate` on a stopped block switches the stream on for nobody
  (`StreamFollowsBlock`), and with a start in its middle changes the rate of a running
  stream (`RateChangedQuietly`).
* `export` writes a title as the address of its object, mixed text without
  quoting, objects in mixed content with line breaks and indentation around them, the
  value of a link or a location on a line of its own, quoted text into CDATA sections,
  and `None` for some missing attributes; and it raises for a character outside ASCII,
  always in a string and otherwise when stdout takes ASCII only (`Distorted`).
  `RoundTrip` is an equivalence, so it shows both that these break the round
  trip and that nothing else does, for text made of the pieces named in § 6.

**Bounds.** `udp_listener`: a buffer of three packets of two bytes, five
datagrams of one or two bytes: the wrap happens after two to four datagrams, at
the limit exactly and beyond it, and three to five hand-overs fit. `task`: twelve
wake-ups; the behaviour repeats after two. `stream`: four samples a side, packets
of one or two, six samples: full sides, retries, two tasks writing at once, and
at least two flips with data. `retune` has one task, sides of three samples, packets of two,
of which a side holds one, two of them accepted (so the second waits for room), and one call of
`set_channel` after the update of `start`, at every point of a call of `work` and beside it:
that is enough to take the tuner away or to give it back, to spoil the stream with the first
store that falls into a call, and to make it whole when the update comes after the
call. `MaxFrame` bounds the packets of a frame, `MaxSamples` the samples,
`MaxRetunes` the calls of `set_channel`; the block calls `work` only while the read index
is inside the buffer, which matters only while there is no valid tuner.
`vita49`: one packet with every combination of type, class id, timestamps,
trailer and payload, or two packets; zero, one or six words before the frame;
another frame or nothing after it; a cut after every word; up to
twelve words missing anywhere after the alignment word, across the end of a frame; a packet
header overwritten with any other, empty ones included.
`frames`: five frames of five and seven words in datagrams of one, four and
seven, so that every cut of a frame happens and a frame may lie in three batches;
one lost datagram of any of these lengths, misreadings smaller and larger than any
frame with each outcome, one update; a frame counter of three values and a packet counter of
four, with two packets a frame: gaps of one, two and three frames are then seen by both
counters, by the first alone, and by the second alone.
`pico_src`: two starts, two calls of setters, rates inside and outside the limits,
the channel there is and one there is not, three mnemonics on their way.
`pico_sink`: two bandwidths, of which one has a rate the block refuses; two calls
of setters, of which a change of bandwidth contains a third; three microseconds
and up to five samples counted, enough to be ahead of, at and behind the rate.
`doc_tools`: every class as the root with up to two children (three in a
description), each known child empty or filled two levels deep, unknown markup, text and
CDATA with characters that need quoting, that do not, and outside ASCII, attributes absent,
valid and not a number, a stream that takes ASCII only and one that takes UTF-8; and
up to two compounds in any order, and three where one is
a block or a group, out of a catalogue of seventeen; five calls of the user.

**Deadlock** is checked for the listener (the reader can always ask again). The
tasks, the manager, the blocks and the scripts really stop, so it is switched off
there, and liveness properties take its place where something waits.

**Fairness** is weak fairness of each thread for its next step: the scheduler of
the operating system runs every thread that can run, and all waits are loops
around `usleep` or a condition variable (the parser is sequential code). Nothing is assumed about the arrival of
packets, about calls of `work`, `set_channel`, `stop` or about the time parsing
takes. In `ComplexManager` a frame has finitely many packets (`left`). In
`PicoSrc` the threads of each manager and the callers inside `update_tuners` are
fair; nothing is assumed about the radio, which may never answer.

## 5. Proofs

`UdpListenerProofs` proves, for every `NUM_BUFFS`, `PACKET_SIZE`,
`UDP_START_INDEX`, set of lengths and number of datagrams with
`UDP_START_INDEX < (NUM_BUFFS - 1) * PACKET_SIZE` and lengths in
`1 .. PACKET_SIZE` (40000 < 3199 * 100000 in the build): `TypeOK`,
`BuffersSound`, `BatchStable`, `Accounting` and the
refinement of `BatchQueue`. None of these is inductive:
nothing in them says why the listener is not in the reader's buffer. The
inductive invariant `Inv` adds who owns which buffer at each point: a request is
up only while the reader waits or after a stop (`RequestOK`), the bytes below
`cur_index` are the waiting datagrams (`WriteSideOK`), and from the moment the
listener has answered, the other buffer holds the batch up to `m_safe_index`
(`ReadSideOK`, `ParseOK`). One lemma says that appending a datagram at the end
keeps a buffer tiled; one lemma per action group shows that `Inv` is preserved.
`Accounting` is proved on top of `Inv`. `BatchStable`, which says that the batch
does not change in the reader's hands, is proved only.

`TaskImplProofs` proves `TypeOK`, `SlotNotShared`, `WakesAccounted` and
`NoMissedNotify` for any number of wake-ups. The strengthening `Discipline` says
that the only caller wakes a task only after it has seen `started` clear.
`NoMissedNotify` is what `TaskQuiesces`, which TLC checks, depends on.

`ComplexManagerProofs` proves for any number of tasks, size of the buffers,
payloads, requests and bounds, with every store of an update and every load and store of
`fill_buffers` a step of its own, that tasks stay apart (`TasksApart`), that the stream is
intact (`StreamIntact`), that nothing dies before somebody retunes
(`NoCrashUnlessRetuned`), and, while the calls of `update_tuners` do not overlap, that an
update is applied (`UpdateApplied`). It does so with four invariants:

* `Inv` is what no interleaving can break: types and control. The stores of an update
  happen where the manager looked for one, with no task running (`StoreOK`); `lookup`
  and `dispatch` rely on what the filter has established (`PacketOK`); a flip is requested
  only while `fill_buffers` waits for one (`FillOK`); the packets in the slots were
  accepted (`SlotsOK`); all tasks are at rest when the next batch is asked for (`GetOK`).
* `ApartInv`, while nothing is `mixed`, is an account of who may touch what: what
  `fill_buffers` holds in its locals is what the memory has (`ReadsOK`), counts are
  not negative and the write side is never full beyond its last cell
  (`CountsOK`), the room that was looked up is still there (`RoomOK`), and the busy tasks
  hold disjoint parts of what is counted (`JobsOK`).
* `StreamInv`, under the same condition and between updates, says where every accepted
  sample is: returned, on the read side, on the write side, or in a task's hands with the
  numbers its place calls for.
* `UpdateInv`, while `update_tuners` has one caller at a time (`OneCaller`), follows
  the request from caller to manager and back; and it says that without a retuning
  nothing is mixed.

The condition is needed: with a change of the tuner in the middle of a call, counts do become
negative on either side (§ 4). It is a condition on that call only, because the first update
outside of a call of `fill_buffers` sets counts and indices to zero.

From these, `StreamRefinement`: as long as nothing is mixed the manager implements
`SampleStream`, and so it does in particular while nobody calls `set_channel`
(`QuietStreamRefinement`). One lemma says what the memory holds in terms of sample
numbers (`MemoryHoldsStream`), so that each step is a step of the queue by arithmetic:
a flip and the write of a task do not change it, a dispatch appends, a copy hands over
the front, the end of `fill_buffers` returns, the first store of an update drops. The hypotheses of `UpdateIsApplied` and
of the refinement are needed: § 4 names what happens without them. One lemma
(`FootprintLemma`) says which actions change which group of variables; each part of an
invariant is then preserved by its own lemma, over the actions that matter to it. The
other proofs are laid out in the same way.

`FrameAssemblyProofs` proves `CarryOverSound`, `FramesInOrder`, `BackInStep` and
`LossReported` for every stream, cut into any datagrams and batches, with any
losses, misreadings and updates. It assumes frames of at least five words that
fit into the carry-over, a stream without a gap that begins with a frame, counters
larger than one, and no misread size of zero. `OrderInv`: all that waits is sorted,
each part is before the next, and it is past every frame processed. `CarryInv`:
with nothing lost, what waits is the stream from the end of the last frame processed
on, so a parse always starts at a frame and the carry-over never reaches its limit.
`CountersInv`: the counters are those of the last frame; with the remainders it gives
exactly when F and L are printed (`ExpectedCounts`). `BatchInv`: in a batch without
a gap the manager has taken nothing, or found no complete frame, or is behind the
end of one and has listed all before it. `Skipped` is the least index of an alignment
word, and words follow one another: `Least` and `Induction` give both, for sets
of natural numbers, from their well-foundedness.

`Vita49Proofs` proves `TypeOK` and `PacketsInside` for every set of blocks and every
reading of words. The invariant says that index and remaining size add up to the
block, that the packets found end where the next begins, and that this is at most
one word before the end of the frame: therefore the remaining size does not wrap
and the comparison in `VRTPacketImpl` means what it says. For frame sizes below
three this fails: the remaining size wraps, and `PacketsInside` leaves them out.
`LoopsAdvance` says that no step of either loop stands still, which is the part of
`Terminates` that is not about scheduling.

It also proves `ParsedAsSent` and `FieldsInPlace` for every block in which the radio
sent what `SentAssumption` says, of any length and with any packets. `SentInv` follows
a frame through the search, which neither passes its alignment word nor stops before it
(`SearchOK`), and through the loop, where the packets taken are the first of those sent
(`WholeOK`); for a frame cut short it says why the search ends with the answer that
asks for more (`CutOK`). For `FieldsInPlace`, `LayoutRuns` shows that each run of words
in `Layout` begins at the offset that `get_field_offset` computes, and `AccessorsAgree`
that every accessor, and `get_payload_size`, therefore finds its own run, whatever
optional fields there are.

`PicoSrcProofs` proves `FirstStartSafe`, `StreamFollowsBlock`, `RateChangedQuietly`
and `ChannelApplied` for every set of rates and channels and any number of starts,
calls and mnemonics on their way. `Inv` says where both threads can be, who holds
which manager and which of them is deleted or has the socket. `StreamInv` is about
the mnemonics still on the line: whatever the radio does now, once it has carried
them out the stream is what the block wants, and none of them changes the rate in
between (`After`). `SessionInv` ties the one open query to the setter that asked it, as
long as no answer came late; `TunerInv` says how far the channel has got between the
setter, the manager's request and the manager, as long as no two calls overlapped.

`PicoSinkProofs` proves `SleepBounded`, `RateHeld` and `RateKnown` for every table of
rates, every size of the calls of `work` and any time. `Inv` includes the unit of
`m_sample_rate`, which is in MHz until `set_sample_rate` has scaled it and in Hz
after: a rate that was never scaled divides to zero, so the proof needs that no rate
in MHz is as large as `Mega`. `PaceInv` says what the two copies of the rate, the clock and the
count are to each other at every point of `work` and `set_sample_rate`, and, while
their calls do not overlap, that samples were given at the rate. `SessionInv` says
which query is open and what the block knows of the radio. The proof of `RateKnown`
needs that every bandwidth has a rate the block accepts (`RatesAssumption`): TLC's
instance had it, the text of the model did not say so. `ItemsAssumption` says that
GNU Radio's calls of `work` are bounded by its buffer.

Model-checked only:

* liveness under fairness (`RequestReturns`, `TaskQuiesces`, `CallersReturn` and the
  others), which is outside the prover's reach;
* the documentation tools (`RoundTrip`, `DescriptionInOrder`, `ObjectsShared`,
  `CachesFresh`, `NeverSilentlyPartial`, `DiesOnlyUnsound`, `DocumentedOnce`): their
  object graphs are trees of any depth that recursive operators build and folds go
  through, and what these compute for every input takes an induction over the data
  that the installed provers cannot do.

## 6. Not modelled

* `aligned_buffer` (allocation), the formatting of mnemonics, the conversion of
  samples and everything that is only printed.
* Generated classes that no document can reach, their accessors, `exportLiteral`
  and the `find_members` helpers: nothing in the repository calls them.
* `build_utils`, the CMake files, GRC descriptions, SWIG glue and the empty test
  scaffolds, which have no behaviour of the running program.
* Weak-memory effects beyond program order and torn accesses. A `+=` or `-=` is a load and
  a store where another thread may write in between: in `fill_buffers`, for the count of the
  write side, and for the count of samples in `PicoSink`.
* The number that `fill_buffers` returns, and what is printed with `last_count`.
* An exception out of `boost::asio::write`: in `MneClient` only the read throws.
* The four statements of `PicoSink`'s `start` one by one (pico_sink_impl.cc:104-109): they
  are one step, so the steps of a `set_sample_rate` beside it fall before or after it and
  not between its stores.
* Text that spells the marks of a CDATA section itself, and characters that a document
  can hold only as a character reference: the pieces of text in `GenerateDS` are plain, in need
  of quoting, or outside ASCII.
* The off-by-one of `boost_client::send_message` (`recv_buff[amnt_read + 1]`) and
  the deadline of `try_connect` that nothing waits for.

In the models, but with no property, because the repository says nothing that they
could contradict: a rate answer that is lost and read as zero, which switches the
throttle of the sink off (pico_sink_impl.cc:264); a stream id of NUM_STREAMS, which
passes the bound check and reads past the array (complex_manager.cpp:349); `name()`
of an object made from a refid, which raises AttributeError (base.py:219); and
overloaded functions, which collapse into the first (base.py:188).
