------------------------------ MODULE EqCatalogue ------------------------------
(***************************************************************************)
(* The payload of RESPONSE_EQ_ALL, the list of equaliser entries that the  *)
(* earbuds hold, as parse_eq_entries reads it, and the payload that        *)
(* encode_eq_detail_payload writes back for one of them.                   *)
(*                                                                         *)
(* Bytes go from 0 to Full - 1; gains are signed.  A frequency takes one   *)
(* byte instead of two.  Sequences count from 1, offsets from 0.           *)
(***************************************************************************)
EXTENDS Integers, SequencesExt

CONSTANTS
    Full,            \* 256 in the code
    Undecodable,     \* a byte that no UTF-8 name has
    Catalogues,      \* lists of entries that earbuds may hold at first
    MaxGains,        \* bound: gains of a store
    Nothing          \* None

Byte == 0..(Full - 1)
Gain == (0 - Full \div 2)..(Full \div 2 - 1)
Band == [frequency : Byte, gain : Gain]
Entry == [id : Byte, name : Seq(Byte), selected : BOOLEAN, min : Gain, max : Gain,
          bands : Seq(Band)]

\* No frequency twice, none zero, no gain outside the entry's range.
ProperBands(bands, min, max) ==
    \A i \in DOMAIN bands :
        /\ bands[i].frequency # 0
        /\ bands[i].gain \in min..max
        /\ \A j \in DOMAIN bands : bands[j].frequency = bands[i].frequency => i = j

\* Entries that keep to the rules, and of which every count fits a byte.
ProperList(list) ==
    /\ Len(list) < Full
    /\ \A i \in DOMAIN list :
        /\ Len(list[i].name) < Full /\ ~Contains(list[i].name, Undecodable)
        /\ Len(list[i].bands) \in 1..(Full - 1)
        /\ ProperBands(list[i].bands, list[i].min, list[i].max)
        /\ \A j \in DOMAIN list : list[j].id = list[i].id => i = j

\* Earbuds begin with lists like that; None is nothing else.
ASSUME CatalogueAssumption ==
    /\ Full \in Nat /\ Full % 2 = 0
    /\ Undecodable \in Byte
    /\ \A list \in Catalogues : list \in Seq(Entry) /\ ProperList(list)
    /\ MaxGains \in Nat
    /\ Nothing \notin Seq(Entry) \cup Seq(Nat)
    /\ Nothing \notin [entry : Entry, next : Nat] \cup [list : Seq(Entry), offset : Nat]

VARIABLE catalogue   \* what the earbuds hold

Signed(byte) == IF byte < Full \div 2 THEN byte ELSE byte - Full

Unsigned(gain) == gain % Full

------------------------------------------------------------------------------
(* What the earbuds send.                                                  *)

Fields(entry, first) ==
    <<first, Unsigned(entry.min), Unsigned(entry.max), entry.id, Len(entry.name)>>
    \o entry.name \o <<Len(entry.bands)>>
    \o FlattenSeq([i \in DOMAIN entry.bands |->
                     <<entry.bands[i].frequency, Unsigned(entry.bands[i].gain)>>])

Payload(list) ==
    <<0, Len(list)>>
    \o FlattenSeq([i \in DOMAIN list |-> Fields(list[i], IF list[i].selected THEN 1 ELSE 0)])

\* A payload with one byte changed, taken out or put in, or with its end cut off.
Changed(bytes) == {[bytes EXCEPT ![i] = b] : i \in DOMAIN bytes, b \in Byte}
Shortened(bytes) == {RemoveAt(bytes, i) : i \in DOMAIN bytes}
Lengthened(bytes) == {InsertAt(bytes, i, b) : i \in 1..(Len(bytes) + 1), b \in Byte}
CutOff(bytes) == {SubSeq(bytes, 1, n) : n \in 0..Len(bytes)}

Damage(bytes) == Changed(bytes) \cup Shortened(bytes) \cup Lengthened(bytes) \cup CutOff(bytes)

------------------------------------------------------------------------------
(* parse_eq_entries.                                                       *)

\* The entry at an offset and the offset behind it, or Nothing.
EntryAt(bytes, offset) ==
    LET at(n) == bytes[offset + n + 1] IN
    IF offset + 5 > Len(bytes) THEN Nothing
    ELSE LET min == Signed(at(1))
             max == Signed(at(2))
             nameLength == at(4)
         IN IF at(0) \notin {0, 1} \/ min > max \/ offset + 5 + nameLength + 1 > Len(bytes)
            THEN Nothing
    ELSE LET name == SubSeq(bytes, offset + 6, offset + 5 + nameLength)
             count == at(5 + nameLength)
             first == offset + 6 + nameLength
         IN IF Contains(name, Undecodable) \/ count = 0 \/ first + 2 * count > Len(bytes)
            THEN Nothing
    ELSE LET bands == [i \in 1..count |-> [frequency |-> bytes[first + 2 * i - 1],
                                           gain |-> Signed(bytes[first + 2 * i])]]
         IN IF ~ProperBands(bands, min, max) THEN Nothing
    ELSE [entry |-> [id |-> at(3), name |-> name, selected |-> at(0) = 1,
                     min |-> min, max |-> max, bands |-> bands],
          next |-> first + 2 * count]

\* Fault: bytes behind the last entry are not noticed.
EndsSomewhere(bytes, offset) == TRUE

EndsAt(bytes, offset) == offset = Len(bytes)

\* The loop: the entries read after k rounds and the offset behind them, or Nothing.
Reading(bytes) ==
    LET after[k \in Nat] ==
            IF k = 0 THEN [list |-> <<>>, offset |-> 2]
            ELSE LET before == after[k - 1] IN
                 IF before = Nothing THEN Nothing
                 ELSE LET here == EntryAt(bytes, before.offset) IN
                      IF here = Nothing THEN Nothing
                      ELSE [list |-> Append(before.list, here.entry), offset |-> here.next]
    IN after

EntriesOf(bytes) ==
    LET last == Reading(bytes)[bytes[2]] IN
    IF last = Nothing \/ ~EndsAt(bytes, last.offset) THEN Nothing ELSE last.list

ParseEqEntries(bytes) ==
    IF Len(bytes) < 2 \/ bytes[1] # 0 THEN Nothing
    ELSE LET list == EntriesOf(bytes) IN
         IF list # Nothing /\ \E i, j \in DOMAIN list : i # j /\ list[i].id = list[j].id
         THEN Nothing ELSE list

------------------------------------------------------------------------------
(* encode_eq_detail_payload.                                               *)

\* Fault: only the number of the gains is checked.
GainsCounted(entry, gains) == Len(gains) = Len(entry.bands)

GainsAllowed(entry, gains) ==
    /\ Len(gains) = Len(entry.bands)
    /\ \A i \in DOMAIN gains : gains[i] \in entry.min..entry.max

\* The entry with other gains.
WithGains(entry, gains) ==
    [entry EXCEPT !.bands = [i \in DOMAIN @ |-> [@[i] EXCEPT !.gain = gains[i]]]]

\* The payload of a store; ValueError is Nothing.
EncodeEqDetail(entry, gains) ==
    IF GainsAllowed(entry, gains) THEN Fields(WithGains(entry, gains), 2) ELSE Nothing

\* What an update says when it is read as an entry of a list.
ReadBack(bytes) == ParseEqEntries(<<0, 1, 0>> \o Tail(bytes))

HoldsOneOf == catalogue \in Catalogues

\* set_custom_eq: the earbuds take the entry as they read it, and select it.
StoreEntry(k, gains) ==
    LET entry == ParseEqEntries(Payload(catalogue))[k]
        bytes == EncodeEqDetail(entry, gains)
    IN
    /\ bytes # Nothing
    /\ catalogue' = [j \in DOMAIN catalogue |->
                        IF j = k THEN [ReadBack(bytes)[1] EXCEPT !.selected = TRUE]
                        ELSE [catalogue[j] EXCEPT !.selected = FALSE]]

Stores == \E k \in DOMAIN catalogue : \E gains \in SeqOf(Gain, MaxGains) : StoreEntry(k, gains)

EqSpec == HoldsOneOf /\ [][Stores]_catalogue

------------------------------------------------------------------------------
(* Properties.                                                             *)

\* What the earbuds hold is what is parsed, also after any number of stores.  Anything
\* else is either refused, or is itself, byte for byte, the list that is parsed: no field
\* is read at a wrong place and no byte is left over; and no entry of it breaks the rules
\* of an entry.
ParsedIsSent ==
    /\ ParseEqEntries(Payload(catalogue)) = catalogue
    /\ \A bytes \in Damage(Payload(catalogue)) :
        LET entries == ParseEqEntries(bytes) IN
        entries # Nothing =>
            /\ Payload(entries) = bytes
            /\ \A i, j \in DOMAIN entries : entries[i].id = entries[j].id => i = j
            /\ \A i \in DOMAIN entries :
                ProperBands(entries[i].bands, entries[i].min, entries[i].max)

\* The bytes of a store, sent back as an entry of a list, are the entry with its gains
\* exchanged: a store changes neither name, frequencies nor range, no gain wraps around,
\* and what is refused is what the earbuds could not hold.
StoreChangesGainsOnly ==
    \A k \in DOMAIN catalogue : \A gains \in SeqOf(Gain, MaxGains) :
        LET entry == catalogue[k]
            bytes == EncodeEqDetail(entry, gains)
        IN IF bytes # Nothing
           THEN ReadBack(bytes) = <<WithGains([entry EXCEPT !.selected = FALSE], gains)>>
           ELSE \/ Len(gains) # Len(entry.bands)
                \/ ParseEqEntries(Payload(<<WithGains(entry, gains)>>)) = Nothing
==============================================================================
