------------------------------- MODULE MCCodec -------------------------------
(***************************************************************************)
(* Small instances of FrameStream and EqCatalogue.  Frames have payloads   *)
(* that are empty, look like a start of frame, or like a start of frame    *)
(* and a length.  Bytes of a catalogue have three bits, and it has one or  *)
(* two entries, of which the first may have two bands and a name.          *)
(*                                                                         *)
(* The two do not touch each other, so that a run has either a stream or a *)
(* catalogue: with the other one it would only repeat itself.              *)
(***************************************************************************)
EXTENDS FrameStream, EqCatalogue

MCPayloads == {<<>>, <<5>>, <<5, 3>>}

Bands == {<<[frequency |-> 1, gain |-> -1]>>, <<[frequency |-> 2, gain |-> 0]>>}

Custom ==
    [id : {1}, name : {<<>>, <<3>>}, selected : BOOLEAN, min : {-2}, max : {1},
     bands : {<<[frequency |-> 2, gain |-> 1], [frequency |-> 3, gain |-> -2]>>}]

Preset == [id : {0, 2}, name : {<<>>}, selected : {FALSE}, min : {-1}, max : {0}, bands : Bands]

MCCatalogues == {<<c>> : c \in Custom \cup Preset} \cup {<<c, p>> : c \in Custom, p \in Preset}

CodecInit ==
    /\ Init
    /\ \/ HoldsOneOf /\ items = <<>>
       \/ catalogue = <<>>

CodecNext ==
    \/ Next /\ UNCHANGED catalogue
    \/ Stores /\ UNCHANGED vars

CodecSpec == CodecInit /\ [][CodecNext]_<<vars, catalogue>>
==============================================================================
