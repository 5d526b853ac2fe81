------------------------------ MODULE FrameStream ------------------------------
(***************************************************************************)
(* The OPOv1 codec: FrameStream.feed, decode_frame and encode_frame, and   *)
(* RfcommTransport.receive, which feeds it whatever recv returns.          *)
(*                                                                         *)
(* The header has four bytes instead of nine: start of frame, length of    *)
(* what follows it, command, length of the payload.  High bytes, the       *)
(* reserved ones and the sequence number are left out.                     *)
(***************************************************************************)
EXTENDS Naturals, SequencesExt

CONSTANTS
    SOF,             \* 0xAA, which may also occur as any other byte
    Capability,      \* 0x8100: its payload length may be one too small
    Notify,          \* NOTIFY_STATE: its payload length is not looked at
    Plain,           \* any other command
    Payloads,        \* payloads of the frames sent
    MaxItems,        \* bound: frames and pieces of noise sent
    MaxRecvs         \* recvs of one receive(): 16 in the code

HeaderSize == 4

Commands == {Plain, Capability, Notify}

ASSUME StreamAssumption ==
    /\ SOF \in Nat \ {0}
    /\ Commands \subseteq Nat
    /\ Plain \notin {Capability, Notify}
    /\ Payloads \subseteq Seq(Nat)
    /\ MaxItems \in Nat
    /\ MaxRecvs \in Nat \ {0}

VARIABLES
    items,           \* history: what the earbuds send, piece by piece
    incoming,        \* bytes that recv has not returned yet
    buffer,          \* FrameStream._buffer
    frames,          \* what this receive() has collected
    recvs,           \* how many recvs it has made
    delivered,       \* what earlier ones have returned
    lost,            \* history: how many frames a ValueError has taken along
    failed           \* history: "no", "now" or "before"

vars == <<items, incoming, buffer, frames, recvs, delivered, lost, failed>>

Frame == [command : Commands, payload : Payloads]

------------------------------------------------------------------------------
(* Frames on the wire.                                                     *)

Wire(frame, innerLength) ==
    <<SOF, HeaderSize - 2 + Len(frame.payload), frame.command, innerLength>> \o frame.payload

\* Fault: both lengths have to agree.
DecodesExactly(raw) == raw[4] = Len(raw) - HeaderSize

\* decode_frame of a complete frame; otherwise it raises ValueError.
Decodes(raw) ==
    LET actual == Len(raw) - HeaderSize IN
    \/ raw[4] = actual
    \/ raw[3] = Capability /\ raw[4] + 1 = actual
    \/ raw[3] = Notify

Decoded(raw) == [command |-> raw[3], payload |-> SubSeq(raw, HeaderSize + 1, Len(raw))]

\* A piece of the byte stream: a frame, a frame that cannot be decoded, or noise.
Piece(kind, bytes, frame) == [kind |-> kind, bytes |-> bytes, frame |-> frame]

InnerLengths(frame) ==
    LET length == Len(frame.payload) IN
    CASE frame.command = Plain -> {length}
      [] frame.command = Capability -> {length} \cup {n \in {0, 1} : n + 1 = length}
      [] frame.command = Notify -> {0, length}

GoodPieces == UNION {{Piece("frame", Wire(f, n), <<f>>) : n \in InnerLengths(f)} : f \in Frame}

BadPieces ==
    {Piece("bad", Wire([command |-> Plain, payload |-> p], Len(p) + 1), <<>>) : p \in Payloads}

NoisePieces ==
    {Piece("silence", <<0>>, <<>>), Piece("noise", <<SOF>>, <<>>),
     Piece("noise", <<SOF, 1>>, <<>>), Piece("noise", <<SOF, HeaderSize, Plain>>, <<>>)}

Bytes(pieces) == FlattenSeq([i \in DOMAIN pieces |-> pieces[i].bytes])

FramesOf(pieces) == FlattenSeq([i \in DOMAIN pieces |-> pieces[i].frame])

------------------------------------------------------------------------------
(* FrameStream.feed.                                                       *)

\* What precedes the first start of frame is dropped.
FromStart(bytes) ==
    LET start == SelectInSeq(bytes, LAMBDA byte : byte = SOF) IN
    IF start = 0 THEN <<>> ELSE SubSeq(bytes, start, Len(bytes))

FrameLength(bytes) == bytes[2] + 2

\* Fault: the whole buffer is dropped with a length that cannot be.
SkipAll(bytes) == <<>>

\* A length that cannot be: this was no start of frame, the next may be.
Skip(bytes) == Tail(bytes)

\* The loop: the frames decoded, what stays in the buffer, and whether decode_frame
\* has raised, which ends the loop with the bad frame already removed.
Scan[bytes \in Seq(Nat)] ==
    LET start == FromStart(bytes) IN
    IF Len(start) < 2 THEN [frames |-> <<>>, rest |-> start, raised |-> FALSE]
    ELSE IF FrameLength(start) < HeaderSize THEN Scan[Skip(start)]
    ELSE IF Len(start) < FrameLength(start)
         THEN [frames |-> <<>>, rest |-> start, raised |-> FALSE]
    ELSE LET raw == SubSeq(start, 1, FrameLength(start))
             rest == SubSeq(start, FrameLength(start) + 1, Len(start))
         IN IF ~Decodes(raw) THEN [frames |-> <<>>, rest |-> rest, raised |-> TRUE]
            ELSE [Scan[rest] EXCEPT !.frames = <<Decoded(raw)>> \o @]

------------------------------------------------------------------------------

Init ==
    /\ \E n \in 0..MaxItems : items \in [1..n -> GoodPieces \cup BadPieces \cup NoisePieces]
    /\ incoming = Bytes(items)
    /\ buffer = <<>>
    /\ frames = <<>>
    /\ recvs = 0
    /\ delivered = <<>>
    /\ lost = 0
    /\ failed = "no"

\* "Bound each drain so notification floods cannot starve commands."
Limited == recvs < MaxRecvs

\* Fault: the buffer is cleared when a frame cannot be decoded.
KeptUnlessRaised(fed) == IF fed.raised THEN <<>> ELSE fed.rest

\* The bad frame is out of the buffer, what follows it stays.
Kept(fed) == fed.rest

\* A recv of n bytes.  ValueError leaves receive() with what it has collected.
Receive(n) ==
    LET fed == Scan[buffer \o SubSeq(incoming, 1, n)] IN
    /\ Limited
    /\ incoming' = SubSeq(incoming, n + 1, Len(incoming))
    /\ buffer' = Kept(fed)
    /\ \/ /\ fed.raised
          /\ frames' = <<>>
          /\ recvs' = 0
          /\ lost' = lost + Len(frames) + Len(fed.frames)
          /\ failed' = "now"
       \/ /\ ~fed.raised
          /\ frames' = frames \o fed.frames
          /\ recvs' = recvs + 1
          /\ lost' = lost
          /\ failed' = IF failed = "no" THEN "no" ELSE "before"
    /\ UNCHANGED <<items, delivered>>

\* Nothing more to read, or enough for one poll.
Return ==
    /\ recvs > 0
    /\ recvs' = 0
    /\ delivered' = delivered \o frames
    /\ frames' = <<>>
    /\ UNCHANGED <<items, incoming, buffer, lost, failed>>

Next == Return \/ \E n \in 1..Len(incoming) : Receive(n)

Spec == Init /\ [][Next]_vars

------------------------------------------------------------------------------
(* Properties.                                                             *)

Received == SubSeq(Bytes(items), 1, Len(Bytes(items)) - Len(incoming))

\* The pieces that have been received to their last byte.
Arrived ==
    SubSeq(items, 1, Max({n \in 0..Len(items) :
                             Len(Bytes(SubSeq(items, 1, n))) <= Len(Received)}))

OnlyKinds(kinds) == \A i \in DOMAIN items : items[i].kind \in kinds

\* Frames, with anything but a start of frame between them, are delivered each as it
\* was sent, in order, once, with the recv that completes it, wherever the stream is
\* cut and whatever bytes their payloads hold.
FramesArriveWhole ==
    OnlyKinds({"frame", "silence"}) =>
        failed = "no" /\ delivered \o frames = FramesOf(Arrived)

\* Also with noise that looks like a start of frame, what is delivered and what is kept
\* depend on the bytes alone, not on where recv cuts them, until a frame is undecodable.
CutsDoNotMatter ==
    failed = "no" =>
        /\ delivered \o frames = Scan[Received].frames
        /\ buffer = Scan[Received].rest

\* The frames that the recvs to come will find in the buffer.
Held[bytes \in Seq(Nat)] ==
    LET fed == Scan[bytes] IN Len(fed.frames) + (IF fed.raised THEN Held[fed.rest] ELSE 0)

\* An undecodable frame takes along what the same receive() had collected and nothing
\* else: every other frame is delivered once, those behind it too.  But these wait in
\* the buffer, complete, until something else is received.
OneReceiveIsLost ==
    OnlyKinds({"frame", "bad"}) =>
        /\ Len(delivered \o frames) + lost + Held[buffer] = Len(FramesOf(Arrived))
        /\ Held[buffer] > 0 => failed = "now"
==============================================================================
