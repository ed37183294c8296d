------------------------------- MODULE PicoSink --------------------------------
(***************************************************************************)
(* pico_sink: the block that sends samples to a radio (pico_sink_impl.cc)  *)
(* with its session of mnemonics (boost_client.cpp).  GNU Radio calls      *)
(* start and work in the thread of the block; the setters run in the       *)
(* thread of the GUI and share the variables of the throttle with work,    *)
(* without a lock.                                                         *)
(*                                                                         *)
(* Time is counted in microseconds, which are also the ticks of boost's    *)
(* clock; a rate of r is r samples in a tick, r Msps, and Mega * r in      *)
(* m_sample_rate.  Messages that the block prints are left out; the tables *)
(* of available values are read from the radio and only printed.           *)
(***************************************************************************)
EXTENDS MneClient

CONSTANTS
  Requested,     \* rates the user asks for, within the limits of the block
  Bandwidths,    \* bandwidths the user asks for
  Available,     \* Available[b]: the rates the radio has at bandwidth b
  PowerUp,       \* the states [rate, bw] the radio may be found in
  MAX_SR_MHZ,    \* the highest rate the block accepts
  Items,         \* numbers of samples GNU Radio calls work with
  Mega,          \* 1e6
  MaxTime,       \* the bound on time
  MaxSamples,    \* the bound on samples counted
  MaxCalls       \* the bound on calls of setters

\* The radio has, at every bandwidth, a rate that the block accepts.
ASSUME RatesAssumption ==
  /\ Bandwidths \subseteq Nat /\ MAX_SR_MHZ \in Nat
  /\ \A b \in Bandwidths : Available[b] \subseteq Nat \ {0}
  /\ \A b \in Bandwidths : \E r \in Available[b] : r <= MAX_SR_MHZ
  /\ \A p \in PowerUp : /\ p = [rate |-> p.rate, bw |-> p.bw]
                        /\ p.bw \in Bandwidths /\ p.rate \in Available[p.bw]
  /\ Requested \subseteq 1 .. MAX_SR_MHZ
\* No rate in Msps and no bandwidth in MHz comes near a million.
ASSUME MegaAssumption ==
  /\ Mega \in Nat /\ Mega > 1
  /\ \A b \in Bandwidths : b < Mega /\ \A r \in Available[b] : r < Mega
\* GNU Radio calls work with some samples, and never with more than its buffer has.
ASSUME ItemsAssumption ==
  Items \subseteq Nat /\ \E n \in Items : \A m \in Items : m <= n

VARIABLES
  m_mne_connected, m_data_connected,
  radio,               \* [rate, bw] of the radio
  m_sample_rate, m_start, m_total_samples, m_samples_per_tick, m_samples_per_us,
  wpc,                 \* where the thread of the block is
  items,               \* noutput_items
  expected,            \* expected_samps
  wake,                \* when the sleep ends
  load,                \* m_total_samples as read by +=
  gpc,                 \* where the thread of the GUI is
  want,                \* the value the setter was called with
  now,
  calls,
  since, given,        \* when the count last began, and the samples given to the
                       \* radio under a rate since then (history)
  overlap              \* set_sample_rate changed the throttle during work (history)

throttle == <<m_sample_rate, m_start, m_total_samples, m_samples_per_tick,
              m_samples_per_us>>
connection == <<m_mne_connected, m_data_connected>>
session == <<radio, client>>
block == <<wpc, items, expected, wake, load>>
gui == <<gpc, want, calls>>
count == <<since, given>>
vars == <<connection, session, throttle, block, gui, now, count, overlap>>

MaxItems == CHOOSE n \in Items : \A m \in Items : m <= n

Init ==
  /\ m_mne_connected = FALSE /\ m_data_connected = FALSE
  /\ radio \in PowerUp
  /\ ClientInit
  /\ m_sample_rate = 0 /\ m_start = 0 /\ m_total_samples = 0
  /\ m_samples_per_tick = 0 /\ m_samples_per_us = 0
  /\ wpc = "stopped" /\ items = 0 /\ expected = 0 /\ wake = 0 /\ load = 0
  /\ gpc = "construct" /\ want = 0 /\ calls = 0
  /\ now = 0 /\ since = 0 /\ given = 0 /\ overlap = FALSE

-----------------------------------------------------------------------------
(* The radio (external).  It takes the nearest rate it has; a bandwidth    *)
(* may not have the present rate.                                          *)

\* What atof makes of an answer.
Answer(query) ==
  CASE query = "SPR" -> radio.rate
    [] query = "BWT" -> radio.bw
    [] OTHER -> 0

RadioAnswers ==
  /\ line # <<>> /\ IsQuery(Head(line))
  /\ Reply(Answer(Head(line).name))
  /\ UNCHANGED radio

RadioObeys ==
  /\ line # <<>> /\ ~IsQuery(Head(line))
  /\ line' = Tail(line)
  /\ CASE Head(line).name = "SPR" ->
            \E r \in Available[radio.bw] :
              /\ Head(line).value \in Available[radio.bw] => r = Head(line).value
              /\ Head(line).value = 0 => \A q \in Available[radio.bw] : r <= q
              /\ radio' = [radio EXCEPT !.rate = r]
       [] Head(line).name = "BWT" ->
            \E r \in Available[Head(line).value] :
              /\ radio.rate \in Available[Head(line).value] => r = radio.rate
              /\ radio' = [rate |-> r, bw |-> Head(line).value]
       [] OTHER -> UNCHANGED radio
  /\ UNCHANGED <<answers, late>>

Radio ==
  /\ RadioAnswers \/ RadioObeys
  /\ UNCHANGED <<connection, throttle, block, gui, now, count, overlap>>

Tick ==
  /\ now < MaxTime
  /\ now' = now + 1
  /\ UNCHANGED <<connection, session, throttle, block, gui, count, overlap>>

-----------------------------------------------------------------------------
(* The thread of the block                                                 *)

\* set_sample_rate has begun to change the throttle.
Assigning == {"rate_again", "scale", "m_start", "m_total_samples", "per_tick", "per_us"}

Working == wpc \notin {"stopped", "idle", "done", "died"}

BlockStep ==
  /\ overlap' = (overlap \/ gpc \in Assigning)
  /\ UNCHANGED <<connection, session, gui, now>>

start ==
  /\ wpc = "stopped" /\ gpc \notin {"construct", "destroyed"}
  /\ m_start' = now
  /\ m_total_samples' = 0
  /\ m_samples_per_tick' = m_sample_rate \div Mega
  /\ m_samples_per_us' = m_sample_rate \div Mega
  /\ since' = now /\ given' = 0
  /\ wpc' = "idle"
  /\ UNCHANGED <<m_sample_rate, items, expected, wake, load>>
  /\ BlockStep

\* Without both connections the block is done.
work(n) ==
  /\ wpc = "idle" /\ m_total_samples < MaxSamples
  /\ items' = n
  /\ wpc' = IF m_data_connected /\ m_mne_connected THEN "rate?" ELSE "done"
  /\ UNCHANGED <<throttle, expected, wake, load, count>>
  /\ BlockStep

\* No rate, no throttle.
ThrottleOn ==
  /\ wpc = "rate?"
  /\ wpc' = IF m_sample_rate > 0 THEN "expect" ELSE "send"
  /\ UNCHANGED <<throttle, items, expected, wake, load, count>>
  /\ BlockStep

Expect ==
  /\ wpc = "expect"
  /\ expected' = m_samples_per_tick * (now - m_start)
  /\ wpc' = "compare"
  /\ UNCHANGED <<throttle, items, wake, load, count>>
  /\ BlockStep

\* Sleep off what is ahead of the radio.  A division by zero makes a sleep of
\* any length of it: the block is stuck.
Compare ==
  /\ wpc = "compare"
  /\ \/ /\ m_total_samples <= expected
        /\ wpc' = "load"
        /\ UNCHANGED wake
     \/ /\ m_total_samples > expected /\ m_samples_per_us # 0
        /\ wpc' = "sleep"
        /\ wake' = now + (m_total_samples - expected) \div m_samples_per_us
     \/ /\ m_total_samples > expected /\ m_samples_per_us = 0
        /\ wpc' = "stuck"
        /\ UNCHANGED wake
  /\ UNCHANGED <<throttle, items, expected, load, count>>
  /\ BlockStep

Wake ==
  /\ wpc = "sleep" /\ now >= wake
  /\ wpc' = "load"
  /\ UNCHANGED <<throttle, items, expected, wake, load, count>>
  /\ BlockStep

\* m_total_samples += is a load and a store.
LoadTotal ==
  /\ wpc = "load"
  /\ load' = m_total_samples
  /\ wpc' = "store"
  /\ UNCHANGED <<throttle, items, expected, wake, count>>
  /\ BlockStep

StoreTotal ==
  /\ wpc = "store"
  /\ m_total_samples' = load + items
  /\ wpc' = "send"
  /\ UNCHANGED <<m_sample_rate, m_start, m_samples_per_tick, m_samples_per_us,
                 items, expected, wake, load, count>>
  /\ BlockStep

\* The write of the samples fails with an exception that nobody catches, or
\* work returns.
SendData ==
  /\ wpc = "send"
  /\ \/ wpc' = "idle" /\ given' = IF m_sample_rate > 0 THEN given + items ELSE given
     \/ wpc' = "died" /\ UNCHANGED given
  /\ UNCHANGED since
  /\ items' = 0 /\ expected' = 0 /\ wake' = 0 /\ load' = 0
  /\ UNCHANGED throttle
  /\ BlockStep

\* GNU Radio stops the flowgraph; the block has nothing to do for it.
StopFlowgraph ==
  /\ wpc = "idle"
  /\ wpc' = "stopped"
  /\ UNCHANGED <<throttle, items, expected, wake, load, count>>
  /\ BlockStep

Block ==
  \/ start \/ \E n \in Items : work(n)
  \/ ThrottleOn \/ Expect \/ Compare \/ Wake \/ LoadTotal \/ StoreTotal \/ SendData
  \/ StopFlowgraph

-----------------------------------------------------------------------------
(* The thread of the GUI                                                   *)

GuiStep ==
  /\ overlap' = (overlap \/ (Working /\ gpc \in Assigning))
  /\ UNCHANGED <<radio, block, now>>

\* The constructor: no session; a session and no data connection, which makes
\* it ask for help; or both.
Construct ==
  /\ gpc = "construct"
  /\ \/ /\ gpc' = "idle"
        /\ UNCHANGED <<connection, line>>
     \/ /\ m_mne_connected' = TRUE /\ UNCHANGED m_data_connected
        /\ line' = <<Cmd("RCH", 3), Cmd("SIP", 0), Cmd("ISM", 1), Query("HLP")>>
        /\ gpc' = "help"
     \/ /\ m_mne_connected' = TRUE /\ m_data_connected' = TRUE
        /\ line' = <<Cmd("RCH", 3), Cmd("SIP", 0), Cmd("ISM", 1)>>
        /\ gpc' = "idle"
  /\ UNCHANGED <<answers, late, throttle, want, calls, count>>
  /\ GuiStep

Values == {0} \cup Bandwidths \cup UNION {Available[b] : b \in Bandwidths}

\* Wait for an answer that is only looked at or printed, then go to next.
Ignore(at, next) ==
  /\ gpc = at
  /\ \E v \in Values : Receive(v)
  /\ gpc' = next
  /\ UNCHANGED <<connection, line, throttle, want, calls, count>>
  /\ GuiStep

\* The socket is closed: read_some throws, and the setter is left.
Throw ==
  /\ gpc \in {"help", "power", "bandwidth", "bandwidth_help", "rate", "rate_again", "rate_help"}
  /\ gpc' = "idle"
  /\ ReceiveThrows
  /\ UNCHANGED <<connection, line, throttle, want, calls, count>>
  /\ GuiStep

Setter == gpc = "idle" /\ m_mne_connected /\ calls < MaxCalls /\ calls' = calls + 1

set_frequency ==
  /\ Setter
  /\ line' = Append(line, Cmd("FRQ", 0))
  /\ UNCHANGED <<connection, answers, late, throttle, gpc, want, count>>
  /\ GuiStep

set_power ==
  /\ Setter
  /\ line' = line \o <<Cmd("TXP", 0), Query("TXP")>>
  /\ gpc' = "power"
  /\ UNCHANGED <<connection, answers, late, throttle, want, count>>
  /\ GuiStep

set_sample_rate(sr) ==
  /\ Setter
  /\ line' = line \o <<Cmd("SPR", sr), Query("SPR")>>
  /\ want' = sr
  /\ gpc' = "rate"
  /\ UNCHANGED <<connection, answers, late, throttle, count>>
  /\ GuiStep

set_bandwidth(bw) ==
  /\ Setter
  /\ line' = line \o <<Cmd("BWT", bw), Query("BWT")>>
  /\ want' = bw
  /\ gpc' = "bandwidth"
  /\ UNCHANGED <<connection, answers, late, throttle, count>>
  /\ GuiStep

\* If the radio did not take the bandwidth, ask which it has.
BandwidthAnswered ==
  /\ gpc = "bandwidth"
  /\ \E v \in Values :
       /\ Receive(v)
       /\ \/ v = want /\ gpc' = "resample" /\ UNCHANGED line
          \/ v # want /\ gpc' = "bandwidth_help" /\ line' = Append(line, Query("help_BWT"))
  /\ UNCHANGED <<connection, throttle, want, calls, count>>
  /\ GuiStep

\* Mutant of Resample: the rate is taken to be what it was.
ResampleNot ==
  /\ gpc = "resample"
  /\ gpc' = "idle"
  /\ UNCHANGED <<connection, line, answers, late, throttle, want, calls, count>>
  /\ GuiStep

\* set_bandwidth ends with a set_sample_rate, which may refuse the rate.
Resample ==
  /\ gpc = "resample"
  /\ IF m_sample_rate > 0 /\ m_sample_rate \div Mega <= MAX_SR_MHZ
     THEN /\ want' = m_sample_rate \div Mega
          /\ line' = line \o <<Cmd("SPR", want'), Query("SPR")>>
          /\ gpc' = "rate"
     ELSE gpc' = "idle" /\ UNCHANGED <<line, want>>
  /\ UNCHANGED <<connection, answers, late, throttle, calls, count>>
  /\ GuiStep

\* m_sample_rate is the answer, in Msps for now; one that is too high is
\* replaced by the lowest.
RateAnswered ==
  /\ gpc \in {"rate", "rate_again"}
  /\ \E v \in Values :
       /\ Receive(v)
       /\ m_sample_rate' = v
       /\ \/ /\ gpc = "rate" /\ v > MAX_SR_MHZ
             /\ line' = line \o <<Cmd("SPR", 0), Query("SPR")>>
             /\ gpc' = "rate_again"
          \/ /\ gpc = "rate_again" \/ v <= MAX_SR_MHZ
             /\ UNCHANGED line
             /\ gpc' = "scale"
  /\ UNCHANGED <<connection, m_start, m_total_samples, m_samples_per_tick, m_samples_per_us,
                 want, calls, count>>
  /\ GuiStep

ScaleRate ==
  /\ gpc = "scale"
  /\ m_sample_rate' = m_sample_rate * Mega
  /\ gpc' = "m_start"
  /\ UNCHANGED <<connection, line, answers, late, m_start, m_total_samples, m_samples_per_tick,
                 m_samples_per_us, want, calls, count>>
  /\ GuiStep

\* Mutant of ResetStart: the clock goes on from the last start.
ResetStartNot ==
  /\ gpc = "m_start"
  /\ since' = now /\ given' = 0
  /\ gpc' = "m_total_samples"
  /\ UNCHANGED <<connection, line, answers, late, throttle, want, calls>>
  /\ GuiStep

ResetStart ==
  /\ gpc = "m_start"
  /\ m_start' = now
  /\ since' = now /\ given' = 0
  /\ gpc' = "m_total_samples"
  /\ UNCHANGED <<connection, line, answers, late, m_sample_rate, m_total_samples,
                 m_samples_per_tick, m_samples_per_us, want, calls>>
  /\ GuiStep

\* Mutant of ResetTotal: the samples go on being counted.
ResetTotalNot ==
  /\ gpc = "m_total_samples"
  /\ gpc' = "per_tick"
  /\ UNCHANGED <<connection, line, answers, late, throttle, want, calls, count>>
  /\ GuiStep

ResetTotal ==
  /\ gpc = "m_total_samples"
  /\ m_total_samples' = 0
  /\ gpc' = "per_tick"
  /\ UNCHANGED <<connection, line, answers, late, m_sample_rate, m_start,
                 m_samples_per_tick, m_samples_per_us, want, calls, count>>
  /\ GuiStep

SetPerTick ==
  /\ gpc = "per_tick"
  /\ m_samples_per_tick' = m_sample_rate \div Mega
  /\ gpc' = "per_us"
  /\ UNCHANGED <<connection, line, answers, late, m_sample_rate, m_start, m_total_samples,
                 m_samples_per_us, want, calls, count>>
  /\ GuiStep

\* If the radio did not take the rate, ask which it has.
SetPerUs ==
  /\ gpc = "per_us"
  /\ m_samples_per_us' = m_sample_rate \div Mega
  /\ \/ m_sample_rate = want * Mega /\ gpc' = "idle" /\ UNCHANGED line
     \/ m_sample_rate # want * Mega /\ gpc' = "rate_help"
          /\ line' = Append(line, Query("help_SPR"))
  /\ UNCHANGED <<connection, answers, late, m_sample_rate, m_start, m_total_samples,
                 m_samples_per_tick, want, calls, count>>
  /\ GuiStep

\* The destructor: the data connection is closed first.
Destroy ==
  /\ gpc = "idle" /\ wpc \in {"stopped", "done"} /\ m_mne_connected
  /\ m_data_connected' = FALSE /\ m_mne_connected' = FALSE
  /\ line' = Append(line, Cmd("ISM", 0))
  /\ gpc' = "destroyed"
  /\ UNCHANGED <<answers, late, throttle, want, calls, count>>
  /\ GuiStep

Gui ==
  \/ Construct \/ Ignore("help", "idle")
  \/ set_frequency
  \/ set_power \/ Ignore("power", "idle")
  \/ \E sr \in Requested : set_sample_rate(sr)
  \/ RateAnswered \/ ScaleRate \/ ResetStart \/ ResetTotal \/ SetPerTick \/ SetPerUs
  \/ Ignore("rate_help", "idle")
  \/ \E bw \in Bandwidths : set_bandwidth(bw)
  \/ BandwidthAnswered \/ Ignore("bandwidth_help", "resample") \/ Resample
  \/ Throw
  \/ Destroy

Next == Radio \/ Tick \/ Block \/ Gui

Spec == Init /\ [][Next]_vars

-----------------------------------------------------------------------------
(* Properties.                                                             *)

\* The values each variable may take.
TypeOK ==
  /\ m_data_connected => m_mne_connected
  /\ radio.bw \in Bandwidths /\ radio.rate \in Available[radio.bw]
  /\ m_sample_rate \in Nat /\ m_start \in 0 .. now /\ m_total_samples \in Nat
  /\ m_samples_per_tick \in Values /\ m_samples_per_us \in Values
  /\ Working => m_data_connected /\ m_mne_connected
  /\ given \in Nat /\ items \in {0} \cup Items

Throttled == wpc # "stopped" /\ m_sample_rate > 0 /\ ~overlap /\ ~late

\* The radio is never given more than its rate allows for the time since the
\* count began, but for the last call and the fraction of a tick that the
\* sleep rounds down (work), across any sequence of starts, stops and changes
\* of rate and bandwidth that do not fall into a call of work.
RateHeld ==
  Throttled /\ gpc \notin Assigning =>
    given <= m_samples_per_tick * (now - since) + MaxItems + m_samples_per_tick

\* And the block never sleeps longer than the radio needs for the samples of
\* one call: what was counted is never compared with another clock, and never
\* divided by a rate of zero, but for an answer that was lost or a
\* set_sample_rate in the middle of work.
SleepBounded ==
  /\ TypeOK
  /\ Throttled /\ wpc = "sleep" => m_samples_per_us * (wake - now) < MaxItems + m_samples_per_us
  /\ wpc = "stuck" => overlap \/ late

\* Between calls of setters the rate the block throttles to is the rate of the
\* radio, whichever setter made the radio change it (set_bandwidth sets the
\* rate again); and as long as every answer came in time and in one piece, no
\* setter leaves a query or an answer behind for the next one to mistake for
\* its own (send_message reads once for every query).
RateKnown ==
  gpc = "idle" /\ ~late =>
    /\ answers = <<>> /\ \A i \in DOMAIN line : ~IsQuery(line[i])
    /\ m_sample_rate > 0 =>
         /\ m_sample_rate = radio.rate * Mega
         /\ m_samples_per_tick = radio.rate /\ m_samples_per_us = radio.rate
=============================================================================
