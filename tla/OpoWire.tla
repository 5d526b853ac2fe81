------------------------------- MODULE OpoWire -------------------------------
(***************************************************************************)
(* The OPOv1 link as RfcommTransport sees it: requests numbered by one     *)
(* wrapping counter, and frames that arrive in order, in chunks of any     *)
(* size.  One socket.recv hands over a chunk: a non-empty prefix of the    *)
(* frames that have arrived.  The first frame of the chunk that carries    *)
(* the awaited command and sequence is the reply; the session gets every   *)
(* other frame of the chunk, those behind the reply included.              *)
(*                                                                         *)
(* Bytes are not modelled here: FrameStream keeps a partial frame until    *)
(* the rest of it arrives, so a recv that completes no frame changes       *)
(* nothing.                                                                *)
(***************************************************************************)
EXTENDS Naturals, SequencesExt

CONSTANT LastSequence       \* 0xFE in the code: the counter goes back to 1 after it

ASSUME LastSequenceAssumption == LastSequence \in Nat \ {0}

SequenceNumbers == 1..LastSequence

NextSequence(s) == IF s = LastSequence THEN 1 ELSE s + 1

\* Fault: the sequence number is not compared.
AnswersAnySequence(frame, want) == frame.command = want.command

\* What transport.request waits for: a command and the sequence it sent.
Answers(frame, want) ==
    /\ frame.command = want.command
    /\ frame.sequence = want.sequence

IsReplyAt(chunk, want, i) ==
    /\ Answers(chunk[i], want)
    /\ \A j \in 1..(i - 1) : ~Answers(chunk[j], want)

HasReply(chunk, want) == \E i \in DOMAIN chunk : Answers(chunk[i], want)

\* The chunk without its reply, as it is passed to on_frames.
Others(chunk, want) ==
    IF HasReply(chunk, want)
    THEN RemoveAt(chunk, CHOOSE i \in DOMAIN chunk : IsReplyAt(chunk, want, i))
    ELSE chunk

\* One recv: the first n frames that have arrived, and those still to be read.
Chunk(arrived, n) == SubSeq(arrived, 1, n)

Unread(arrived, n) == SubSeq(arrived, n + 1, Len(arrived))
==============================================================================
