------------------------------- MODULE MneClient --------------------------------
(***************************************************************************)
(* boost_client: the TCP session over which a block sends mnemonics to the *)
(* radio (boost_client.cpp).  A command is not answered; a query is, and   *)
(* send_message waits for the answer with one read, that nothing but the   *)
(* order of the stream ties to the query.                                  *)
(***************************************************************************)
EXTENDS Integers, Sequences

VARIABLES
  line,          \* mnemonics on their way to the radio
  answers,       \* segments from the radio that have not been read: [value, more]
  late           \* a read got less than an answer, or nothing (history)

client == <<line, answers, late>>

ClientInit == line = <<>> /\ answers = <<>> /\ late = FALSE

Cmd(name, value) == [name |-> name, value |-> value]

Query(name) == Cmd(name, -1)

IsQuery(mne) == mne.value = -1

\* The radio answers the query it has come to, in one segment or in two, of
\* which the first does not have the number yet (external).
Reply(value) ==
  /\ line' = Tail(line)
  /\ \/ answers' = Append(answers, [value |-> value, more |-> FALSE])
     \/ answers' = answers \o <<[value |-> 0, more |-> TRUE], [value |-> value, more |-> FALSE]>>
  /\ UNCHANGED late

\* send_message after the write: the read takes what has come, as far as its
\* buffer goes, and the caller uses the number it begins with; or it returns
\* with nothing, which the caller reads as zero.
Receive(value) ==
  \/ \E n \in 1 .. Len(answers) :
       /\ value = Head(answers).value
       /\ answers' = SubSeq(answers, n + 1, Len(answers))
       /\ late' = (late \/ Head(answers).more)
  \/ /\ value = 0
     /\ late' = TRUE
     /\ UNCHANGED answers

\* read_some throws: the session has ended, or the read has.
ReceiveThrows == late' = TRUE /\ UNCHANGED answers

=============================================================================
