--------------------------- MODULE EqSessionProofs ----------------------------
(***************************************************************************)
(* EqSession for any ids, curves, sequence numbers and bounds.             *)
(*                                                                         *)
(* Here a failed read leaves requests and replies in flight, and a write   *)
(* that met an undecodable frame leaves its SET.  What keeps the next      *)
(* command from being misled is the order of the link: a query goes behind *)
(* every SET, its number is on nothing else in flight, and so a frame with *)
(* that number was sent when no write was left.                            *)
(***************************************************************************)
EXTENDS EqSession, OpoWireProofs

Reading == pc \in {"read_current", "read_entries"}

\* A frame by which the cached EQ is known to be out of date.
Announcement(frame) == frame.command \in {"RESPONSE_EQ", "NOTIFY_EQ"}

------------------------------------------------------------------------------
(* The inductive invariant.                                                *)

\* What requests, frames and commands carry.
Payloads ==
    /\ \A i \in DOMAIN up :
          /\ up[i].command = "SET_EQ" => up[i].value \in Ids
          /\ up[i].command = "SET_EQ_DETAIL" => up[i].value \in Curves
    /\ \A i \in DOMAIN down :
          /\ down[i].command = "RESPONSE_EQ" => down[i].value \in Ids
          /\ down[i].command = "RESPONSE_EQ_ALL" => down[i].value \in Curves
    /\ op.kind = "preset" => op.target \in Ids \cup {NoEq}
    /\ op.kind = "custom" => op.target \in Curves \cup {NoEq}

\* The earbuds cannot have seen fewer writes than none.
Counted == Cardinality(SetsInFlight) <= writes

\* The phases of each kind of command, and the reply each waits for.
Stages ==
    /\ pc # "idle" => open /\ outcome = "none"
    /\ op.kind = "status" => pc = "idle" \/ Reading
    /\ pc = "confirm_entries" => op.kind = "preset"
    /\ pc \in {"read_current", "confirm_current"} => want.command = "RESPONSE_EQ"
    /\ pc \in {"read_entries", "confirm_entries"} => want.command = "RESPONSE_EQ_ALL"
    /\ pc = "read_entries" => readId \in Ids

\* A query is behind every SET; what answers it was sent after every write.
Ordered ==
    pc \notin {"idle", "ack"} =>
        /\ \A i \in DOMAIN up :
              up[i].sequence = want.sequence => \A j \in SetsInFlight : j < i
        /\ \A i \in DOMAIN down :
              down[i].sequence = want.sequence =>
                  down[i].asOf = writes /\ SetsInFlight = {}

\* What a command goes on from was read after the last write.
Evidence ==
    /\ pc = "read_entries" => readAsOf = writes /\ SetsInFlight = {}
    /\ pc = "confirm_current" => evidence.value = op.target /\ evidence.asOf = writes
    /\ pc = "confirm_entries" => evidence.value = readId /\ evidence.asOf = writes

\* So was what is cached, and then no SET of an abandoned write is left.
Current ==
    (pc = "idle" \/ Reading) /\ eqStatus # NoEq /\ "undecodable" \notin overlooked =>
        cacheAsOf = writes /\ SetsInFlight = {}

\* An announcement still to be read; the reply that is awaited is not one.
Unheard ==
    \E i \in DOMAIN down : Announcement(down[i]) /\ (pc = "idle" \/ ~Answers(down[i], want))

\* A change is still to be received, or was by the present command.
Noticed == Unheard \/ (pc # "idle" /\ overlooking # {})

\* What is cached, or just read, is the earbuds' own selection until then.
Follows ==
    /\ (pc = "idle" \/ Reading) /\ eqStatus # NoEq /\ overlooked = {} =>
          eqStatus.id = selected \/ Noticed
    /\ pc = "read_current" =>
          \A i \in DOMAIN down : Answers(down[i], want) => down[i].value = selected \/ Noticed
    /\ pc = "read_entries" => readId = selected \/ Noticed

Typed == TypeOK /\ Payloads /\ Counted /\ Stages

------------------------------------------------------------------------------
(* SETs among requests.                                                    *)

Sets(requests) == {i \in DOMAIN requests : requests[i].command \in SetCommands}

LEMMA SetsAreFinite ==
    ASSUME NEW requests \in Seq(Request)
    PROVE  IsFiniteSet(Sets(requests)) /\ Cardinality(Sets(requests)) \in Nat
<1>1. DOMAIN requests = 1..Len(requests) /\ Len(requests) \in Nat
  BY LenProperties
<1>2. IsFiniteSet(1..Len(requests))
  BY <1>1, FS_Interval
<1>3. Sets(requests) \in SUBSET (1..Len(requests))
  BY <1>1 DEF Sets
<1>. QED
  BY <1>2, <1>3, FS_Subset, FS_CardinalityType

\* One request fewer: those left have moved up.
LEMMA SetsOfTail ==
    ASSUME NEW requests \in Seq(Request), requests # <<>>
    PROVE  /\ \A i \in DOMAIN Tail(requests) :
                 i \in Sets(Tail(requests)) <=> i + 1 \in Sets(requests)
           /\ Cardinality(Sets(Tail(requests))) <= Cardinality(Sets(requests))
<1>. DEFINE rest == Tail(requests)
            move == [i \in Sets(rest) |-> i + 1]
<1>1. /\ rest \in Seq(Request) /\ DOMAIN rest = 1..(Len(requests) - 1)
      /\ Len(requests) \in Nat
      /\ \A i \in DOMAIN rest : rest[i] = requests[i + 1] /\ i + 1 \in DOMAIN requests
  BY OneFrameLess
<1>. HIDE DEF rest
<1>2. \A i \in DOMAIN rest : i \in Sets(rest) <=> i + 1 \in Sets(requests)
  BY <1>1 DEF Sets
<1>3. move \in Injection(Sets(rest), Sets(requests))
  <2>1. \A i \in Sets(rest) : i \in Nat /\ i + 1 \in Sets(requests)
    BY <1>1, <1>2 DEF Sets
  <2>2. move \in [Sets(rest) -> Sets(requests)]
    BY <2>1
  <2>3. \A i, j \in Sets(rest) : i + 1 = j + 1 => i = j
    BY <2>1
  <2>4. \A i, j \in Sets(rest) : move[i] = move[j] => i = j
    BY <2>3
  <2>. HIDE DEF move
  <2>. QED
    BY <2>2, <2>4 DEF Injection, IsInjective
<1>4. Cardinality(Sets(rest)) <= Cardinality(Sets(requests))
  <2>. HIDE DEF move
  <2>. QED
    BY <1>3, SetsAreFinite, FS_Injection
<1>. QED
  BY <1>2, <1>4 DEF rest

\* One more at the end.
LEMMA SetsOfAppend ==
    ASSUME NEW requests \in Seq(Request), NEW request \in Request
    PROVE  /\ Sets(Append(requests, request))
              = IF request.command \in SetCommands
                THEN Sets(requests) \cup {Len(requests) + 1} ELSE Sets(requests)
           /\ Cardinality(Sets(Append(requests, request)))
              <= Cardinality(Sets(requests)) + 1
<1>1. /\ DOMAIN Append(requests, request) = 1..(Len(requests) + 1)
      /\ \A i \in DOMAIN requests : Append(requests, request)[i] = requests[i]
      /\ Append(requests, request)[Len(requests) + 1] = request
      /\ DOMAIN requests = 1..Len(requests) /\ Len(requests) \in Nat
  BY OneMoreFrame
<1>2. Sets(Append(requests, request))
      = IF request.command \in SetCommands
        THEN Sets(requests) \cup {Len(requests) + 1} ELSE Sets(requests)
  BY <1>1 DEF Sets
<1>3. Cardinality(Sets(requests) \cup {Len(requests) + 1}) <= Cardinality(Sets(requests)) + 1
  <2>1. IsFiniteSet(Sets(requests)) /\ Cardinality(Sets(requests)) \in Nat
    BY SetsAreFinite
  <2>. DEFINE last == Len(requests) + 1
  <2>2. Cardinality(Sets(requests) \cup {last})
        = IF last \in Sets(requests) THEN Cardinality(Sets(requests))
          ELSE Cardinality(Sets(requests)) + 1
    BY <2>1, FS_AddElement
  <2>. HIDE DEF last
  <2>. QED
    BY <2>1, <2>2 DEF last
<1>. QED
  BY <1>2, <1>3, SetsAreFinite

\* Without SETs in flight all writes are handled.
LEMMA AllHandled ==
    ASSUME TypeOK, SetsInFlight = {}
    PROVE  HandledWrites = writes
<1>1. Cardinality(SetsInFlight) = 0
  BY FS_EmptySet
<1>2. writes \in Nat
  BY DEF TypeOK
<1>. QED
  BY <1>1, <1>2 DEF HandledWrites

LEMMA HandledTyped ==
    ASSUME TypeOK, Counted
    PROVE  HandledWrites \in Nat
<1>1. writes \in Nat /\ Cardinality(SetsInFlight) \in Nat
  BY SetsAreFinite DEF TypeOK, SetsInFlight, Sets
<1>. QED
  BY <1>1 DEF HandledWrites, Counted

------------------------------------------------------------------------------
(* Requests, answers, and receives.                                        *)

Commands == {"QUERY_EQ", "QUERY_EQ_ALL", "SET_EQ", "SET_EQ_DETAIL"}

LEMMA Responses ==
    /\ DOMAIN ResponseTo = Commands
    /\ ResponseTo["QUERY_EQ"] = "RESPONSE_EQ"
    /\ ResponseTo["QUERY_EQ_ALL"] = "RESPONSE_EQ_ALL"
    /\ ResponseTo["SET_EQ"] = "RESPONSE_SET_EQ"
    /\ ResponseTo["SET_EQ_DETAIL"] = "RESPONSE_SET_EQ_DETAIL"
BY DEF ResponseTo, Commands

\* A request goes behind the others, with a number that nothing in flight has.
LEMMA SendStep ==
    ASSUME TypeOK, NEW command \in Commands, NEW value \in Values, NEW phase \in Phases,
           Send(command, value, phase)
    PROVE  /\ up' \in Seq(Request) /\ sequence' \in SequenceNumbers
           /\ want' = [command |-> ResponseTo[command], sequence |-> sequence]
           /\ want' \in [command : {ResponseTo[c] : c \in DOMAIN ResponseTo},
                         sequence : SequenceNumbers]
           /\ pc' = phase
           /\ DOMAIN up' = 1..(Len(up) + 1) /\ DOMAIN up = 1..Len(up) /\ Len(up) \in Nat
           /\ up'[Len(up) + 1] = [command |-> command, sequence |-> sequence, value |-> value]
           /\ \A i \in DOMAIN up : up'[i] = up[i] /\ up[i].sequence # sequence
           /\ \A i \in DOMAIN down : down[i].sequence # sequence
           /\ SetsInFlight' = IF command \in SetCommands
                              THEN SetsInFlight \cup {Len(up) + 1} ELSE SetsInFlight
           /\ Cardinality(SetsInFlight') <= Cardinality(SetsInFlight) + 1
<1>. DEFINE request == [command |-> command, sequence |-> sequence, value |-> value]
<1>1. request \in Request /\ request.command = command
  BY Responses DEF TypeOK, Request
<1>2. up \in Seq(Request) /\ up' = Append(up, request)
  BY DEF TypeOK, Send
<1>. HIDE DEF request
<1>3. /\ up' \in Seq(Request)
      /\ DOMAIN up' = 1..(Len(up) + 1) /\ DOMAIN up = 1..Len(up) /\ Len(up) \in Nat
      /\ up'[Len(up) + 1] = request
      /\ \A i \in DOMAIN up : up'[i] = up[i]
  BY <1>1, <1>2, OneMoreFrame
<1>4. /\ SetsInFlight' = IF command \in SetCommands
                         THEN SetsInFlight \cup {Len(up) + 1} ELSE SetsInFlight
      /\ Cardinality(SetsInFlight') <= Cardinality(SetsInFlight) + 1
  <2>1. SetsInFlight = Sets(up) /\ SetsInFlight' = Sets(up')
    BY DEF SetsInFlight, Sets
  <2>. QED
    BY <1>1, <1>2, <2>1, SetsOfAppend
<1>5. sequence \in SequenceNumbers /\ sequence' \in SequenceNumbers
  BY SequenceCounts DEF TypeOK, Send
<1>6. want' = [command |-> ResponseTo[command], sequence |-> sequence] /\ pc' = phase
  BY DEF Send
<1>7. want' \in [command : {ResponseTo[c] : c \in DOMAIN ResponseTo},
                 sequence : SequenceNumbers]
  BY <1>5, <1>6, Responses
<1>8. /\ \A i \in DOMAIN up : up[i].sequence # sequence
      /\ \A i \in DOMAIN down : down[i].sequence # sequence
  BY DEF Send, NotInFlight
<1>. QED
  BY <1>3, <1>4, <1>5, <1>6, <1>7, <1>8 DEF request

\* A receive of n frames.
LEMMA ReceiveStep ==
    ASSUME TypeOK, NEW n \in 0..Len(down)
    PROVE  /\ Unread(down, n) \in Seq(Frame)
           /\ Chunk(down, n) \in Seq(Frame)
           /\ DOMAIN Chunk(down, n) = 1..n
           /\ \A i \in 1..n : Chunk(down, n)[i] = down[i] /\ i \in DOMAIN down
           /\ DOMAIN Unread(down, n) = 1..(Len(down) - n)
           /\ \A i \in 1..(Len(down) - n) :
                 Unread(down, n)[i] = down[n + i] /\ n + i \in DOMAIN down
           /\ \A i \in DOMAIN down : down[i] \in Frame /\ i \in 1..Len(down)
           /\ Len(down) \in Nat
<1>1. down \in Seq(Frame)
  BY DEF TypeOK
<1>2. \A i \in DOMAIN down : down[i] \in Frame /\ i \in 1..Len(down)
  BY <1>1, ElementOfSeq, LenProperties
<1>3. Len(down) \in Nat
  BY <1>1, LenProperties
<1>4. /\ Chunk(down, n) \in Seq(Frame)
      /\ DOMAIN Chunk(down, n) = 1..n
      /\ \A i \in 1..n : Chunk(down, n)[i] = down[i] /\ i \in DOMAIN down
  BY <1>1, ChunkFrames
<1>5. /\ Unread(down, n) \in Seq(Frame)
      /\ DOMAIN Unread(down, n) = 1..(Len(down) - n)
      /\ \A i \in 1..(Len(down) - n) :
            Unread(down, n)[i] = down[n + i] /\ n + i \in DOMAIN down
  BY <1>1, UnreadFrames
<1>. QED
  BY <1>2, <1>3, <1>4, <1>5

------------------------------------------------------------------------------
(* Types.                                                                  *)

LEMMA InitTyped == Init => Typed
<1>. SUFFICES ASSUME Init PROVE Typed
  OBVIOUS
<1>1. up = <<>> /\ down = <<>> /\ DOMAIN up = {} /\ DOMAIN down = {}
  BY DEF Init
<1>2. SetsInFlight = {} /\ Cardinality(SetsInFlight) = 0
  BY <1>1, FS_EmptySet DEF SetsInFlight
<1>3. sequence \in SequenceNumbers /\ 1 \in SequenceNumbers
  BY LastSequenceAssumption DEF Init, SequenceNumbers
<1>4. want \in [command : {ResponseTo[c] : c \in DOMAIN ResponseTo},
                sequence : SequenceNumbers]
  <2>1. "RESPONSE_EQ" \in {ResponseTo[c] : c \in DOMAIN ResponseTo}
    BY Responses DEF Commands
  <2>. QED
    BY <1>3, <2>1 DEF Init
<1>5. subscribed \in BOOLEAN /\ running \in BOOLEAN /\ open \in BOOLEAN
      /\ subscriptionPending \in BOOLEAN /\ (open => running)
  BY Zenon DEF Init
<1>6. op \in [kind : {"status", "preset", "custom"}, target : Values]
      /\ evidence \in [value : Values, asOf : Nat]
  BY DEF Init, Values
<1>7. TypeOK
  BY <1>1, <1>3, <1>4, <1>5, <1>6, EqAssumption DEF Init, TypeOK
<1>. QED
  BY <1>1, <1>2, <1>7 DEF Init, Typed, Payloads, Counted, Stages

\* The flags of the controller and of the earbuds' subscription.
Flags ==
    /\ subscribed \in BOOLEAN /\ running \in BOOLEAN /\ open \in BOOLEAN
    /\ subscriptionPending \in BOOLEAN /\ (open => running)

\* A request is handled, with or without an answer.
LEMMA HandleStep ==
    ASSUME Typed, up # <<>>, up' = Tail(up), UNCHANGED <<op, writes>>,
           NEW value \in Values,
           Head(up).command = "QUERY_EQ" => value \in Ids,
           Head(up).command = "QUERY_EQ_ALL" => value \in Curves,
           AnswerOrNot(value)
    PROVE  up' \in Seq(Request) /\ down' \in Seq(Frame) /\ Payloads' /\ Counted'
<1>. USE DEF Typed
<1>1. /\ Head(up) \in Request /\ Head(up) = up[1] /\ up' \in Seq(Request)
      /\ \A i \in DOMAIN up' : up'[i] = up[i + 1] /\ i + 1 \in DOMAIN up
  BY OneFrameLess DEF TypeOK
<1>2. Counted'
  <2>1. SetsInFlight = Sets(up) /\ SetsInFlight' = Sets(up')
    BY DEF SetsInFlight, Sets
  <2>2. Cardinality(SetsInFlight') <= Cardinality(SetsInFlight)
        /\ Cardinality(SetsInFlight) \in Nat /\ Cardinality(SetsInFlight') \in Nat
    BY <1>1, <2>1, SetsOfTail, SetsAreFinite DEF TypeOK
  <2>. QED
    BY <2>2 DEF Counted, TypeOK
<1>. DEFINE answer == Answer(Head(up), value)
<1>3. /\ answer \in Frame
      /\ answer.command = "RESPONSE_EQ" => answer.value \in Ids
      /\ answer.command = "RESPONSE_EQ_ALL" => answer.value \in Curves
  <2>1. HandledWrites \in Nat
    BY HandledTyped
  <2>2. Head(up).command \in Commands /\ Head(up).sequence \in SequenceNumbers
    BY <1>1, Responses DEF Request
  <2>3. ResponseTo[Head(up).command] \in {"RESPONSE_EQ", "RESPONSE_EQ_ALL",
                                           "RESPONSE_SET_EQ", "RESPONSE_SET_EQ_DETAIL"}
    BY <2>2, Responses DEF Commands
  <2>4. answer \in Frame
    BY <2>1, <2>2, <2>3 DEF Answer, Frame
  <2>5. /\ answer.command = "RESPONSE_EQ" => Head(up).command = "QUERY_EQ"
        /\ answer.command = "RESPONSE_EQ_ALL" => Head(up).command = "QUERY_EQ_ALL"
    BY <2>2, Responses DEF Answer, Commands
  <2>. QED
    BY <2>4, <2>5 DEF Answer
<1>4. down' = down \/ down' = Append(down, answer)
  BY DEF AnswerOrNot
<1>. HIDE DEF answer
<1>5. CASE down' = down
  BY <1>1, <1>2, <1>5 DEF TypeOK, Payloads
<1>6. CASE down' = Append(down, answer)
  <2>1. /\ down' \in Seq(Frame) /\ DOMAIN down' = 1..(Len(down) + 1)
        /\ DOMAIN down = 1..Len(down) /\ Len(down) \in Nat
        /\ down'[Len(down) + 1] = answer /\ \A i \in DOMAIN down : down'[i] = down[i]
    BY <1>3, <1>6, OneMoreFrame DEF TypeOK
  <2>2. ASSUME NEW i \in DOMAIN down'
        PROVE  /\ down'[i].command = "RESPONSE_EQ" => down'[i].value \in Ids
               /\ down'[i].command = "RESPONSE_EQ_ALL" => down'[i].value \in Curves
    <3>1. CASE i \in DOMAIN down
      BY <2>1, <3>1 DEF Payloads
    <3>2. CASE i = Len(down) + 1
      BY <1>3, <2>1, <3>2
    <3>. QED
      BY <2>1, <3>1, <3>2
  <2>. QED
    BY <1>1, <1>2, <2>1, <2>2 DEF Payloads
<1>. QED
  BY <1>4, <1>5, <1>6

LEMMA OutsideTyped == Typed /\ Outside => Typed'
<1>. SUFFICES ASSUME Typed, Outside PROVE Typed'
  OBVIOUS
<1>0. Flags' /\ UNCHANGED <<running, open, subscriptionPending, subscribed>>
  <2>1. UNCHANGED <<running, open, subscriptionPending, subscribed>>
    BY DEF Outside, EarbudsHandleQuery, EarbudsHandleSet, HeyMelodySelects, earbuds, client
  <2>. QED
    BY <2>1 DEF Typed, TypeOK, Flags
<1>. USE <1>0 DEF Flags, transaction, cache, result
<1>1. CASE EarbudsHandleQuery
  <2>1. selected \in Values /\ curve \in Values /\ selected \in Ids /\ curve \in Curves
    BY DEF Typed, TypeOK, Values
  <2>2. up' \in Seq(Request) /\ down' \in Seq(Frame) /\ Payloads' /\ Counted'
    BY <1>1, <2>1, HandleStep DEF EarbudsHandleQuery
  <2>3. TypeOK'
    BY <1>1, <2>2 DEF EarbudsHandleQuery, earbuds, client, Typed, TypeOK
  <2>. QED
    BY <1>1, <2>2, <2>3 DEF EarbudsHandleQuery, Typed, Stages, Reading
<1>2. CASE EarbudsHandleSet
  <2>1. NoEq \in Values /\ Head(up).command \notin {"QUERY_EQ", "QUERY_EQ_ALL"}
    BY <1>2 DEF EarbudsHandleSet, Values
  <2>2. up' \in Seq(Request) /\ down' \in Seq(Frame) /\ Payloads' /\ Counted'
    BY <1>2, <2>1, HandleStep DEF EarbudsHandleSet
  <2>3. selected' \in Ids /\ curve' \in Curves
    <3>1. Head(up) = up[1] /\ 1 \in DOMAIN up
      BY <1>2, OneFrameLess DEF EarbudsHandleSet, Typed, TypeOK
    <3>. QED
      BY <1>2, <3>1, EqAssumption DEF EarbudsHandleSet, Typed, TypeOK, Payloads
  <2>4. TypeOK'
    BY <1>2, <2>2, <2>3 DEF EarbudsHandleSet, client, Typed, TypeOK
  <2>. QED
    BY <1>2, <2>2, <2>4 DEF EarbudsHandleSet, Typed, Stages, Reading
<1>3. ASSUME NEW id \in Ids, HeyMelodySelects(id) PROVE Typed'
  <2>. DEFINE notice == [command |-> "NOTIFY_EQ", sequence |-> 0, value |-> id,
                         asOf |-> HandledWrites]
  <2>1. notice \in Frame
    BY HandledTyped DEF Frame, Values, Typed
  <2>2. down' = down \/ down' = Append(down, notice)
    BY <1>3 DEF HeyMelodySelects
  <2>3. /\ down' \in Seq(Frame)
        /\ \A i \in DOMAIN down' : down'[i].command = "NOTIFY_EQ"
                                   \/ (i \in DOMAIN down /\ down'[i] = down[i])
    <3>1. notice.command = "NOTIFY_EQ"
      OBVIOUS
    <3>. HIDE DEF notice
    <3>2. CASE down' = down
      BY <3>2 DEF Typed, TypeOK
    <3>3. CASE down' = Append(down, notice)
      <4>1. /\ down' \in Seq(Frame) /\ DOMAIN down' = 1..(Len(down) + 1)
            /\ DOMAIN down = 1..Len(down) /\ Len(down) \in Nat
            /\ down'[Len(down) + 1] = notice /\ \A i \in DOMAIN down : down'[i] = down[i]
        BY <2>1, <3>3, OneMoreFrame DEF Typed, TypeOK
      <4>. QED
        BY <3>1, <4>1
    <3>. QED
      BY <2>2, <3>2, <3>3
  <2>4. overlooking' \subseteq Causes /\ overlooked' \subseteq Causes
    BY <1>3 DEF HeyMelodySelects, Causes, Typed, TypeOK
  <2>5. TypeOK'
    BY <1>3, <2>3, <2>4 DEF HeyMelodySelects, client, Typed, TypeOK
  <2>6. Payloads'
    BY <1>3, <2>3 DEF HeyMelodySelects, Typed, Payloads
  <2>. QED
    BY <1>3, <2>5, <2>6 DEF HeyMelodySelects, Typed, Counted, SetsInFlight, Stages, Reading
<1>. QED
  BY <1>1, <1>2, <1>3 DEF Outside

\* A step that only takes frames away from those that have arrived.
Kept ==
    /\ down' \in Seq(Frame)
    /\ \A j \in DOMAIN down' : \E k \in DOMAIN down : down'[j] = down[k]

OpTyped ==
    /\ op \in [kind : {"status", "preset", "custom"}, target : Values]
    /\ op.kind = "preset" => op.target \in Ids \cup {NoEq}
    /\ op.kind = "custom" => op.target \in Curves \cup {NoEq}

LEMMA SentTyped ==
    ASSUME Typed, NEW command \in Commands, NEW value \in Values, NEW phase \in Phases,
           Send(command, value, phase), Kept, OpTyped',
           command = "SET_EQ" => value \in Ids,
           command = "SET_EQ_DETAIL" => value \in Curves,
           writes' = IF command \in SetCommands THEN writes + 1 ELSE writes
    PROVE  Payloads' /\ Counted' /\ writes' \in Nat
<1>1. /\ DOMAIN up' = 1..(Len(up) + 1) /\ DOMAIN up = 1..Len(up) /\ Len(up) \in Nat
      /\ up'[Len(up) + 1] = [command |-> command, sequence |-> sequence, value |-> value]
      /\ \A i \in DOMAIN up : up'[i] = up[i]
      /\ SetsInFlight' = IF command \in SetCommands
                         THEN SetsInFlight \cup {Len(up) + 1} ELSE SetsInFlight
      /\ Cardinality(SetsInFlight') <= Cardinality(SetsInFlight) + 1
      /\ up' \in Seq(Request)
  BY SendStep DEF Typed
<1>2. Cardinality(SetsInFlight) \in Nat /\ Cardinality(SetsInFlight') \in Nat
  <2>1. SetsInFlight = Sets(up) /\ SetsInFlight' = Sets(up')
    BY DEF SetsInFlight, Sets
  <2>. QED
    BY <1>1, <2>1, SetsAreFinite DEF Typed, TypeOK
<1>3. writes \in Nat
  BY DEF Typed, TypeOK
<1>4. Counted' /\ writes' \in Nat
  <2>1. CASE command \in SetCommands
    BY <1>1, <1>2, <1>3, <2>1 DEF Typed, Counted
  <2>2. CASE command \notin SetCommands
    BY <1>1, <1>2, <1>3, <2>2 DEF Typed, Counted
  <2>. QED
    BY <2>1, <2>2
<1>5. ASSUME NEW i \in DOMAIN up'
      PROVE  /\ up'[i].command = "SET_EQ" => up'[i].value \in Ids
             /\ up'[i].command = "SET_EQ_DETAIL" => up'[i].value \in Curves
  <2>1. CASE i \in DOMAIN up
    BY <1>1, <2>1 DEF Typed, Payloads
  <2>2. CASE i = Len(up) + 1
    BY <1>1, <2>2
  <2>. QED
    BY <1>1, <2>1, <2>2
<1>6. Payloads'
  BY <1>5 DEF Typed, Payloads, Kept, OpTyped
<1>. QED
  BY <1>4, <1>6

\* A step that sends nothing; or one that closes the socket.
LEMMA UnsentTyped ==
    ASSUME Typed, up' = up \/ up' = <<>>, Kept, OpTyped', writes' = writes
    PROVE  Payloads' /\ Counted' /\ up' \in Seq(Request)
<1>1. CASE up' = up
  BY <1>1 DEF Typed, TypeOK, Payloads, Counted, SetsInFlight, Kept, OpTyped
<1>2. CASE up' = <<>>
  <2>1. SetsInFlight' = {} /\ Cardinality(SetsInFlight') = 0 /\ DOMAIN up' = {}
    BY <1>2, FS_EmptySet DEF SetsInFlight
  <2>2. Counted' /\ up' \in Seq(Request)
    BY <1>2, <2>1 DEF Typed, TypeOK, Counted
  <2>3. Payloads'
    BY <2>1 DEF Typed, Payloads, Kept, OpTyped
  <2>. QED
    BY <2>2, <2>3
<1>. QED
  BY <1>1, <1>2

\* The reply to the present request, and what its receive leaves.
LEMMA ReceivedStep ==
    ASSUME Typed, NEW phase, NEW n \in 1..Len(down), NEW i \in 1..n, Received(phase, n, i)
    PROVE  /\ pc = phase /\ Kept /\ UNCHANGED earbuds
           /\ i \in DOMAIN down /\ down[i] \in Frame /\ Answers(down[i], want)
           /\ down[i].command = want.command /\ down[i].sequence = want.sequence
           /\ overlooking' \subseteq Causes
           /\ down' = Unread(down, n) /\ n \in Nat
           /\ DOMAIN down' = 1..(Len(down) - n)
           /\ \A j \in DOMAIN down' : down'[j] = down[n + j] /\ n + j \in DOMAIN down
<1>1. Len(down) \in Nat /\ n \in 0..Len(down)
  <2>1. down \in Seq(Frame)
    BY DEF Typed, TypeOK
  <2>2. Len(down) \in Nat
    BY <2>1, LenProperties
  <2>. QED
    BY <2>2
<1>2. /\ Chunk(down, n)[i] = down[i] /\ i \in DOMAIN down /\ down[i] \in Frame
      /\ Unread(down, n) \in Seq(Frame)
      /\ DOMAIN Unread(down, n) = 1..(Len(down) - n)
      /\ \A j \in 1..(Len(down) - n) :
            Unread(down, n)[j] = down[n + j] /\ n + j \in DOMAIN down
  BY <1>1, ReceiveStep DEF Typed
<1>3. pc = phase /\ down' = Unread(down, n) /\ UNCHANGED earbuds
      /\ IsReplyAt(Chunk(down, n), want, i)
  BY DEF Received
<1>4. Answers(down[i], want)
  BY <1>2, <1>3 DEF IsReplyAt
<1>5. overlooking' \subseteq Causes
  BY DEF Received, Causes, Typed, TypeOK
<1>6. Kept
  <2>1. \A j \in DOMAIN down' : down'[j] = down[n + j] /\ n + j \in DOMAIN down
    BY <1>2, <1>3
  <2>. QED
    BY <1>2, <1>3, <2>1 DEF Kept
<1>7. down[i].command = want.command /\ down[i].sequence = want.sequence
  BY <1>4 DEF Answers
<1>8. DOMAIN down' = 1..(Len(down) - n) /\ n \in Nat
      /\ \A j \in DOMAIN down' : down'[j] = down[n + j] /\ n + j \in DOMAIN down
  BY <1>1, <1>2, <1>3
<1>. QED
  BY <1>2, <1>3, <1>4, <1>5, <1>6, <1>7, <1>8

\* A receive without the reply, or of whatever there is.
LEMMA UnreadKept ==
    ASSUME Typed, NEW n \in 0..Len(down), down' = Unread(down, n)
    PROVE  Kept
<1>1. /\ Unread(down, n) \in Seq(Frame)
      /\ DOMAIN Unread(down, n) = 1..(Len(down) - n)
      /\ \A j \in 1..(Len(down) - n) :
            Unread(down, n)[j] = down[n + j] /\ n + j \in DOMAIN down
  BY ReceiveStep DEF Typed
<1>. QED
  BY <1>1 DEF Kept

LEMMA SameKept == Typed /\ (down' = down \/ down' = <<>>) => Kept
<1>1. Typed /\ down' = down => Kept
  BY DEF Typed, TypeOK, Kept
<1>2. down' = <<>> => Kept
  <2>1. <<>> \in Seq(Frame)
    BY EmptySeq
  <2>. QED
    BY <2>1 DEF Kept
<1>. QED
  BY <1>1, <1>2

LEMMA OpIsTyped == Typed => OpTyped /\ (UNCHANGED op => OpTyped')
BY DEF Typed, TypeOK, Payloads, OpTyped

LEMMA PhaseNames ==
    /\ \A phase \in {"read_current", "read_entries", "ack", "verify", "confirm_current",
                     "confirm_entries"} : phase \in Phases
    /\ "QUERY_EQ" \in Commands /\ "QUERY_EQ_ALL" \in Commands
    /\ "SET_EQ" \in Commands /\ "SET_EQ_DETAIL" \in Commands
    /\ "QUERY_EQ" \notin SetCommands /\ "QUERY_EQ_ALL" \notin SetCommands
    /\ "SET_EQ" \in SetCommands /\ "SET_EQ_DETAIL" \in SetCommands
    /\ NoEq \in Values /\ VerifyQuery \in {"QUERY_EQ", "QUERY_EQ_ALL"}
BY DEF Phases, Commands, SetCommands, Values, VerifyQuery

LEMMA FlagsKept == Typed /\ UNCHANGED <<subscribed, running, open, subscriptionPending>> => Flags'
BY DEF Typed, TypeOK, Flags

\* What a reply to a query carries.
LEMMA ReplyCarries ==
    ASSUME Typed, NEW n \in 1..Len(down), NEW i \in 1..n, NEW phase, Received(phase, n, i)
    PROVE  /\ phase \in {"read_current", "confirm_current"} => down[i].value \in Ids
           /\ phase \in {"read_entries", "confirm_entries"} => down[i].value \in Curves
           /\ down[i].value \in Values /\ down[i].asOf \in Nat
<1>1. pc = phase /\ i \in DOMAIN down /\ down[i] \in Frame /\ down[i].command = want.command
  BY ReceivedStep
<1>2. down[i].value \in Values /\ down[i].asOf \in Nat
  BY <1>1 DEF Frame
<1>. QED
  BY <1>1, <1>2 DEF Typed, Payloads, Stages

\* A query and the reply that is awaited then.
LEMMA QuerySent ==
    ASSUME Typed, NEW command \in {"QUERY_EQ", "QUERY_EQ_ALL"}, NEW phase \in Phases,
           Send(command, NoEq, phase)
    PROVE  /\ up' \in Seq(Request) /\ sequence' \in SequenceNumbers /\ pc' = phase
           /\ want' \in [command : {ResponseTo[c] : c \in DOMAIN ResponseTo},
                         sequence : SequenceNumbers]
           /\ command = "QUERY_EQ" => want'.command = "RESPONSE_EQ"
           /\ command = "QUERY_EQ_ALL" => want'.command = "RESPONSE_EQ_ALL"
<1>1. command \in Commands /\ NoEq \in Values
  BY DEF Commands, Values
<1>2. /\ up' \in Seq(Request) /\ sequence' \in SequenceNumbers /\ pc' = phase
      /\ want' \in [command : {ResponseTo[c] : c \in DOMAIN ResponseTo},
                    sequence : SequenceNumbers]
      /\ want' = [command |-> ResponseTo[command], sequence |-> sequence]
  BY <1>1, SendStep DEF Typed
<1>. QED
  BY <1>2, Responses

LEMMA BeginTyped ==
    ASSUME Typed, NEW kind \in {"status", "preset", "custom"}, NEW target \in Targets(kind),
           Begin(kind, target)
    PROVE  Typed'
<1>1. Send("QUERY_EQ", NoEq, "read_current") /\ op' = [kind |-> kind, target |-> target]
      /\ UNCHANGED earbuds /\ writes' = writes
  BY DEF Begin
<1>2. OpTyped'
  BY <1>1 DEF Targets, OpTyped, Values
<1>3. Kept
  BY SameKept DEF Begin
<1>4. Payloads' /\ Counted' /\ writes' \in Nat
  BY <1>1, <1>2, <1>3, SentTyped, PhaseNames
<1>5. /\ up' \in Seq(Request) /\ sequence' \in SequenceNumbers /\ pc' = "read_current"
      /\ want' \in [command : {ResponseTo[c] : c \in DOMAIN ResponseTo},
                    sequence : SequenceNumbers]
      /\ want'.command = "RESPONSE_EQ"
  BY <1>1, QuerySent, PhaseNames
<1>6. subscribed' = subscribed /\ running' = running /\ running = TRUE /\ open' = TRUE
      /\ (subscriptionPending' = subscriptionPending \/ subscriptionPending' = TRUE)
  BY Zenon DEF Begin, earbuds
<1>7. Flags'
  BY <1>6 DEF Typed, TypeOK, Flags
<1>8. /\ queries' \in 0..MaxQueries /\ outcome' = "none" /\ overlooking' = {}
      /\ overlooked' \subseteq Causes /\ eqStatus' \in EqRead \cup {NoEq} /\ cacheAsOf' \in Nat
      /\ UNCHANGED <<selected, curve, selections, readId, readAsOf, evidence>>
  BY EqAssumption DEF Begin, KeepEq, ForgetEq, cache, earbuds, Typed, TypeOK
<1>9. TypeOK'
  BY <1>2, <1>3, <1>4, <1>5, <1>7, <1>8 DEF Typed, TypeOK, Flags, OpTyped, Kept, Phases
<1>10. Stages'
  BY <1>5, <1>6, <1>8 DEF Stages, Reading
<1>. QED
  BY <1>4, <1>9, <1>10 DEF Typed

LEMMA CurrentTyped ==
    ASSUME Typed, NEW n \in 1..Len(down), NEW i \in 1..n, ReceiveCurrent(n, i)
    PROVE  Typed'
<1>1. PICK phase \in {"read_current", "confirm_current"},
            next \in {"read_entries", "confirm_entries"} :
        /\ Received(phase, n, i) /\ Send("QUERY_EQ_ALL", NoEq, next)
        /\ next = "confirm_entries" => op.kind = "preset"
        /\ next = "read_entries" => phase = "read_current"
        /\ phase = "read_current" => next = "read_entries"
        /\ evidence' = evidence
           \/ evidence' = [value |-> down[i].value, asOf |-> down[i].asOf]
  BY DEF ReceiveCurrent
<1>2. /\ pc = phase /\ Kept /\ UNCHANGED earbuds /\ overlooking' \subseteq Causes
  BY <1>1, ReceivedStep
<1>3. down[i].value \in Ids /\ down[i].value \in Values /\ down[i].asOf \in Nat
  BY <1>1, ReplyCarries
<1>4. readId' = down[i].value /\ readAsOf' = down[i].asOf
      /\ UNCHANGED <<running, open, subscriptionPending, op, queries, cache, outcome, writes>>
  BY DEF ReceiveCurrent
<1>5. /\ up' \in Seq(Request) /\ sequence' \in SequenceNumbers /\ pc' = next
      /\ want' \in [command : {ResponseTo[c] : c \in DOMAIN ResponseTo},
                    sequence : SequenceNumbers]
      /\ want'.command = "RESPONSE_EQ_ALL"
  BY <1>1, QuerySent, PhaseNames
<1>6. Payloads' /\ Counted' /\ writes' \in Nat
  BY <1>1, <1>2, <1>4, SentTyped, PhaseNames, OpIsTyped
<1>7. Flags'
  BY <1>2, <1>4, FlagsKept DEF earbuds
<1>8. evidence' \in [value : Values, asOf : Nat]
  BY <1>1, <1>3 DEF Typed, TypeOK
<1>9. TypeOK'
  BY <1>1, <1>2, <1>3, <1>4, <1>5, <1>6, <1>7, <1>8
  DEF Typed, TypeOK, Flags, Kept, Phases, earbuds, cache
<1>10. Stages'
  BY <1>1, <1>2, <1>3, <1>4, <1>5 DEF Typed, Stages, Reading
<1>. QED
  BY <1>6, <1>9, <1>10 DEF Typed

LEMMA StatusTyped ==
    ASSUME Typed, NEW n \in 1..Len(down), NEW i \in 1..n, ReceiveStatus(n, i)
    PROVE  Typed'
<1>1. Received("read_entries", n, i)
      /\ UNCHANGED <<up, client, op, want, queries, readId, readAsOf, evidence, writes>>
  BY DEF ReceiveStatus
<1>2. pc = "read_entries" /\ Kept /\ UNCHANGED earbuds /\ overlooking' \subseteq Causes
  BY <1>1, ReceivedStep
<1>3. Payloads' /\ Counted' /\ up' \in Seq(Request)
  BY <1>1, <1>2, UnsentTyped, OpIsTyped
<1>4. Flags'
  BY <1>1, <1>2, FlagsKept DEF earbuds, client
<1>5. eqStatus' \in EqRead
  <2>1. readId \in Ids /\ down[i].value \in Curves
    BY <1>1, <1>2, ReplyCarries DEF Typed, Stages
  <2>. QED
    BY <2>1 DEF ReceiveStatus, EqRead
<1>6. pc' = "idle" /\ cacheAsOf' = readAsOf /\ outcome' = "ok" /\ overlooked' \subseteq Causes
  BY <1>2 DEF ReceiveStatus
<1>7. TypeOK'
  BY <1>1, <1>2, <1>3, <1>4, <1>5, <1>6 DEF Typed, TypeOK, Flags, Kept, earbuds, client
<1>8. Stages'
  BY <1>1, <1>6 DEF Typed, Stages, Reading
<1>. QED
  BY <1>3, <1>7, <1>8 DEF Typed

LEMMA TargetTyped ==
    ASSUME Typed, NEW n \in 1..Len(down), NEW i \in 1..n, ReceiveTarget(n, i)
    PROVE  Typed'
<1>1. /\ Received("read_entries", n, i) /\ writes' = writes + 1 /\ op.target # NoEq
      /\ UNCHANGED <<running, open, subscriptionPending, op, queries, readId, readAsOf, cache,
                     result>>
  BY DEF ReceiveTarget
<1>2. PICK command \in {"SET_EQ", "SET_EQ_DETAIL"} :
        /\ Send(command, op.target, "ack")
        /\ command = "SET_EQ" => op.kind = "preset"
        /\ command = "SET_EQ_DETAIL" => op.kind = "custom"
  BY DEF ReceiveTarget
<1>3. pc = "read_entries" /\ Kept /\ UNCHANGED earbuds /\ overlooking' \subseteq Causes
  BY <1>1, ReceivedStep
<1>4. op.target \in Values /\ (op.kind = "preset" => op.target \in Ids)
      /\ (op.kind = "custom" => op.target \in Curves) /\ op.kind # "status"
  BY <1>1, <1>2 DEF Typed, TypeOK, Payloads
<1>5. /\ up' \in Seq(Request) /\ sequence' \in SequenceNumbers /\ pc' = "ack"
      /\ want' \in [command : {ResponseTo[c] : c \in DOMAIN ResponseTo},
                    sequence : SequenceNumbers]
  <2>1. command \in Commands /\ "ack" \in Phases
    BY PhaseNames DEF Commands
  <2>. QED
    BY <1>2, <1>4, <2>1, SendStep DEF Typed
<1>6. Payloads' /\ Counted' /\ writes' \in Nat
  BY <1>1, <1>2, <1>3, <1>4, SentTyped, PhaseNames, OpIsTyped
<1>7. Flags'
  BY <1>1, <1>3, FlagsKept DEF earbuds
<1>8. TypeOK'
  BY <1>1, <1>3, <1>5, <1>6, <1>7
  DEF Typed, TypeOK, Flags, Kept, Phases, earbuds, cache, result
<1>9. Stages'
  BY <1>1, <1>3, <1>4, <1>5 DEF Typed, Stages, Reading, result
<1>. QED
  BY <1>6, <1>8, <1>9 DEF Typed

LEMMA RejectedTyped ==
    ASSUME Typed, NEW n \in 1..Len(down), NEW i \in 1..n, ReceiveRejected(n, i)
    PROVE  Typed'
<1>1. Received("read_entries", n, i) /\ pc' = "idle" /\ outcome' = "failed"
      /\ overlooked' = overlooked \cup overlooking'
      /\ UNCHANGED <<up, client, op, want, queries, readId, readAsOf, eqStatus, cacheAsOf,
                     evidence, writes>>
  BY DEF ReceiveRejected
<1>2. Kept /\ UNCHANGED earbuds /\ overlooking' \subseteq Causes
  BY <1>1, ReceivedStep
<1>3. Payloads' /\ Counted' /\ up' \in Seq(Request)
  BY <1>1, <1>2, UnsentTyped, OpIsTyped
<1>4. Flags'
  BY <1>1, <1>2, FlagsKept DEF earbuds, client
<1>5. TypeOK'
  BY <1>1, <1>2, <1>3, <1>4 DEF Typed, TypeOK, Flags, Kept, earbuds, client
<1>6. Stages'
  BY <1>1 DEF Typed, Stages, Reading
<1>. QED
  BY <1>3, <1>5, <1>6 DEF Typed

\* The next verification query.
LEMMA VerifyTyped ==
    ASSUME Typed, Verify, Kept, UNCHANGED <<earbuds, evidence>>, overlooking' \subseteq Causes,
           op.kind # "status", pc # "idle"
    PROVE  Typed'
<1>1. PICK command \in {"QUERY_EQ", "QUERY_EQ_ALL"} : Send(command, NoEq, "verify")
  BY DEF Verify, VerifyQuery
<1>2. queries' \in 0..MaxQueries
  BY EqAssumption DEF Verify, Typed, TypeOK
<1>3. UNCHANGED <<running, open, subscriptionPending, op, readId, readAsOf, cache, outcome, writes>>
  BY DEF Verify
<1>4. /\ up' \in Seq(Request) /\ sequence' \in SequenceNumbers /\ pc' = "verify"
      /\ want' \in [command : {ResponseTo[c] : c \in DOMAIN ResponseTo},
                    sequence : SequenceNumbers]
  BY <1>1, QuerySent, PhaseNames
<1>5. Payloads' /\ Counted' /\ writes' \in Nat
  BY <1>1, <1>3, SentTyped, PhaseNames, OpIsTyped
<1>6. Flags'
  BY <1>3, FlagsKept DEF earbuds
<1>7. TypeOK'
  BY <1>2, <1>3, <1>4, <1>5, <1>6 DEF Typed, TypeOK, Flags, Kept, Phases, earbuds, cache
<1>8. Stages'
  BY <1>3, <1>4 DEF Typed, Stages, Reading
<1>. QED
  BY <1>5, <1>7, <1>8 DEF Typed

LEMMA AckTyped ==
    ASSUME Typed, AckTimeout \/ \E n \in 1..Len(down) : \E i \in 1..n : ReceiveAck(n, i)
    PROVE  Typed'
<1>1. CASE AckTimeout
  <2>1. Kept
    BY <1>1, SameKept DEF AckTimeout
  <2>2. op.kind # "status" /\ pc # "idle"
    BY <1>1 DEF AckTimeout, Typed, Stages, Reading
  <2>3. overlooking' \subseteq Causes /\ Verify /\ UNCHANGED <<earbuds, evidence>>
    BY <1>1 DEF AckTimeout, Typed, TypeOK
  <2>. QED
    BY <2>1, <2>2, <2>3, VerifyTyped
<1>2. ASSUME NEW n \in 1..Len(down), NEW i \in 1..n, ReceiveAck(n, i) PROVE Typed'
  <2>1. Received("ack", n, i) /\ Verify /\ evidence' = evidence
    BY <1>2 DEF ReceiveAck
  <2>2. Kept /\ UNCHANGED earbuds /\ overlooking' \subseteq Causes /\ pc = "ack"
    BY <2>1, ReceivedStep
  <2>3. op.kind # "status"
    BY <2>2 DEF Typed, Stages, Reading
  <2>. QED
    BY <2>1, <2>2, <2>3, VerifyTyped
<1>. QED
  BY <1>1, <1>2

LEMMA VerifyReplyTyped ==
    ASSUME Typed, NEW n \in 1..Len(down), NEW i \in 1..n, ReceiveVerify(n, i)
    PROVE  Typed'
<1>1. Received("verify", n, i)
  BY DEF ReceiveVerify
<1>2. Kept /\ UNCHANGED earbuds /\ overlooking' \subseteq Causes /\ pc = "verify"
  BY <1>1, ReceivedStep
<1>3. op.kind # "status"
  BY <1>2 DEF Typed, Stages, Reading
<1>4. CASE Verify /\ UNCHANGED evidence
  BY <1>2, <1>3, <1>4, VerifyTyped
<1>5. CASE /\ Send("QUERY_EQ", NoEq, "confirm_current")
           /\ evidence' = [value |-> down[i].value, asOf |-> down[i].asOf]
           /\ UNCHANGED <<running, open, subscriptionPending, op, queries, readId, readAsOf, cache,
                          outcome, writes>>
  <2>1. /\ up' \in Seq(Request) /\ sequence' \in SequenceNumbers /\ pc' = "confirm_current"
        /\ want' \in [command : {ResponseTo[c] : c \in DOMAIN ResponseTo},
                      sequence : SequenceNumbers]
        /\ want'.command = "RESPONSE_EQ"
    BY <1>5, QuerySent, PhaseNames
  <2>2. Payloads' /\ Counted' /\ writes' \in Nat
    BY <1>2, <1>5, SentTyped, PhaseNames, OpIsTyped
  <2>3. Flags'
    BY <1>2, <1>5, FlagsKept DEF earbuds
  <2>4. evidence' \in [value : Values, asOf : Nat]
    BY <1>1, <1>5, ReplyCarries
  <2>5. TypeOK'
    BY <1>2, <1>5, <2>1, <2>2, <2>3, <2>4 DEF Typed, TypeOK, Flags, Kept, Phases, earbuds, cache
  <2>6. Stages'
    BY <1>2, <1>3, <1>5, <2>1 DEF Typed, Stages, Reading
  <2>. QED
    BY <2>2, <2>5, <2>6 DEF Typed
<1>. QED
  BY <1>4, <1>5 DEF ReceiveVerify

LEMMA SucceedsTyped ==
    ASSUME Typed, NEW n \in 1..Len(down), NEW i \in 1..n, WriteSucceeds(n, i)
    PROVE  Typed'
<1>1. PICK phase : Received(phase, n, i)
  BY DEF WriteSucceeds
<1>2. /\ pc' = "idle" /\ ForgetEq /\ outcome' = "ok"
      /\ UNCHANGED <<up, client, op, want, queries, readId, readAsOf, evidence, writes>>
  BY DEF WriteSucceeds
<1>3. Kept /\ UNCHANGED earbuds /\ overlooking' \subseteq Causes
  BY <1>1, ReceivedStep
<1>4. Payloads' /\ Counted' /\ up' \in Seq(Request)
  BY <1>2, <1>3, UnsentTyped, OpIsTyped
<1>5. Flags'
  BY <1>2, <1>3, FlagsKept DEF earbuds, client
<1>6. TypeOK'
  BY <1>2, <1>3, <1>4, <1>5 DEF Typed, TypeOK, Flags, Kept, ForgetEq, earbuds, client
<1>7. Stages'
  BY <1>2 DEF Typed, Stages, Reading
<1>. QED
  BY <1>4, <1>6, <1>7 DEF Typed

\* A socket closed: what the SETs in flight may have done is a state of the earbuds.
LEMMA SocketTyped ==
    ASSUME Typed, CloseSocket, UNCHANGED <<op, writes>>
    PROVE  /\ Payloads' /\ Counted' /\ Kept /\ up' \in Seq(Request)
           /\ selected' \in Ids /\ curve' \in Curves /\ subscribed' = FALSE
           /\ sequence' \in SequenceNumbers /\ selections' = selections
<1>1. up' = <<>> /\ down' = <<>> /\ subscribed' = FALSE /\ sequence' = 1
      /\ selections' = selections
  BY DEF CloseSocket
<1>2. Kept
  BY <1>1, SameKept
<1>3. Payloads' /\ Counted' /\ up' \in Seq(Request)
  BY <1>1, <1>2, UnsentTyped, OpIsTyped
<1>4. /\ \A j \in SetsInFlight : up[j].command = "SET_EQ" => up[j].value \in Ids
      /\ \A j \in SetsInFlight : up[j].command = "SET_EQ_DETAIL" => up[j].value \in Curves
  BY DEF Typed, Payloads, SetsInFlight
<1>5. selected' \in Ids
  <2>1. \/ selected' = selected
        \/ \E j \in SetsInFlight : up[j].command = "SET_EQ" /\ selected' = up[j].value
        \/ selected' = CustomId
    BY DEF CloseSocket
  <2>. QED
    BY <1>4, <2>1, EqAssumption DEF Typed, TypeOK
<1>6. curve' \in Curves
  <2>1. \/ curve' = curve
        \/ \E j \in SetsInFlight : up[j].command = "SET_EQ_DETAIL" /\ curve' = up[j].value
    BY DEF CloseSocket
  <2>. QED
    BY <1>4, <2>1 DEF Typed, TypeOK
<1>7. sequence' \in SequenceNumbers
  BY <1>1, LastSequenceAssumption DEF SequenceNumbers
<1>. QED
  BY <1>1, <1>2, <1>3, <1>5, <1>6, <1>7

LEMMA FailsTyped ==
    ASSUME Typed, WriteFails
    PROVE  Typed'
<1>1. /\ pc' = "idle" /\ CloseSocket /\ open' = FALSE /\ ForgetEq /\ outcome' = "failed"
      /\ UNCHANGED <<running, subscriptionPending, op, want, queries, readId, readAsOf,
                     evidence, writes, overlooking>>
  BY DEF WriteFails
<1>2. /\ Payloads' /\ Counted' /\ Kept /\ up' \in Seq(Request)
      /\ selected' \in Ids /\ curve' \in Curves /\ subscribed' = FALSE
      /\ sequence' \in SequenceNumbers /\ selections' = selections
  BY <1>1, SocketTyped
<1>3. Flags'
  <2>1. running \in BOOLEAN /\ subscriptionPending \in BOOLEAN
    BY DEF Typed, TypeOK
  <2>. QED
    BY <1>1, <1>2, <2>1 DEF Flags
<1>4. TypeOK'
  BY <1>1, <1>2, <1>3 DEF Typed, TypeOK, Flags, Kept, ForgetEq
<1>5. Stages'
  BY <1>1 DEF Typed, Stages, Reading
<1>. QED
  BY <1>2, <1>4, <1>5 DEF Typed

\* A failed read, an undecodable frame, and a receive without the reply.
LEMMA OtherEndsTyped ==
    ASSUME Typed,
           \/ StatusFails
           \/ \E n \in 0..Len(down) : Undecodable(n)
           \/ \E n \in 1..Len(down) : ReceiveOthers(n)
    PROVE  Typed'
<1>. DEFINE Quits == (pc' = "idle" /\ outcome' = "failed") \/ UNCHANGED <<pc, outcome>>
<1>1. /\ UNCHANGED <<earbuds, up, client, op, want, queries, readId, readAsOf, eqStatus,
                     cacheAsOf, evidence, writes>>
      /\ Quits /\ overlooking' \subseteq Causes /\ overlooked' \subseteq Causes
  BY DEF StatusFails, Undecodable, ReceiveOthers, link, transaction, cache, result, Causes,
         Typed, TypeOK
<1>2. Kept
  <2>1. CASE StatusFails
    BY <2>1, SameKept DEF StatusFails, link
  <2>2. ASSUME NEW n \in 0..Len(down), down' = Unread(down, n) PROVE Kept
    BY <2>2, UnreadKept
  <2>3. \A n \in 1..Len(down) : n \in 0..Len(down)
    <3>1. down \in Seq(Frame)
      BY DEF Typed, TypeOK
    <3>2. Len(down) \in Nat
      BY <3>1, LenProperties
    <3>. QED
      BY <3>2
  <2>. QED
    BY <2>1, <2>2, <2>3 DEF Undecodable, ReceiveOthers
<1>3. Payloads' /\ Counted' /\ up' \in Seq(Request)
  BY <1>1, <1>2, UnsentTyped, OpIsTyped
<1>4. Flags'
  BY <1>1, FlagsKept DEF earbuds, client
<1>5. TypeOK'
  BY <1>1, <1>2, <1>3, <1>4 DEF Typed, TypeOK, Flags, Kept, earbuds, client
<1>6. Stages'
  BY <1>1 DEF Typed, Stages, Reading, client
<1>. QED
  BY <1>3, <1>5, <1>6 DEF Typed

LEMMA CommandTyped == Typed /\ Command => Typed'
BY BeginTyped, CurrentTyped, StatusTyped, TargetTyped, RejectedTyped, AckTyped,
   VerifyReplyTyped, SucceedsTyped, FailsTyped, OtherEndsTyped
DEF Command, Reply

LEMMA PollTyped ==
    ASSUME Typed, NEW n \in 0..Len(down), Poll(n)
    PROVE  Typed'
<1>1. /\ pc = "idle" /\ open = TRUE /\ subscriptionPending' = FALSE /\ down' = Unread(down, n)
      /\ UNCHANGED <<selected, curve, selections, up, running, open, sequence, transaction, result,
                     writes, overlooking>>
      /\ (ForgetEq \/ KeepEq)
  BY DEF Poll
<1>2. Kept
  BY <1>1, UnreadKept
<1>3. Payloads' /\ Counted' /\ up' \in Seq(Request)
  BY <1>1, <1>2, UnsentTyped, OpIsTyped DEF transaction
<1>4. Flags'
  <2>1. subscribed' \in BOOLEAN
    BY Zenon DEF Poll, Typed, TypeOK
  <2>2. running' = running /\ open' = open /\ subscriptionPending' = FALSE
    BY <1>1
  <2>. QED
    BY <2>1, <2>2 DEF Flags, Typed, TypeOK
<1>5. TypeOK'
  BY <1>1, <1>2, <1>3, <1>4
  DEF Typed, TypeOK, Flags, Kept, ForgetEq, KeepEq, cache, transaction, result
<1>6. Stages'
  BY <1>1 DEF Typed, Stages, Reading, transaction, result
<1>. QED
  BY <1>3, <1>5, <1>6 DEF Typed

LEMMA AncReceivesTyped ==
    ASSUME Typed, NEW n \in 0..Len(down), AncReceives(n)
    PROVE  Typed'
<1>1. /\ pc = "idle" /\ down' = Unread(down, n) /\ sequence' = NextSequence(sequence)
      /\ UNCHANGED <<earbuds, up, running, open, subscriptionPending, transaction, result, writes,
                     overlooking>>
  BY DEF AncReceives
<1>2. Kept
  BY <1>1, UnreadKept
<1>3. Payloads' /\ Counted' /\ up' \in Seq(Request)
  BY <1>1, <1>2, UnsentTyped, OpIsTyped DEF transaction
<1>4. Flags'
  BY <1>1, Zenon DEF Flags, Typed, TypeOK, earbuds
<1>5. /\ eqStatus' \in EqRead \cup {NoEq} /\ cacheAsOf' \in Nat /\ overlooked' \subseteq Causes
      /\ sequence' \in SequenceNumbers
  <2>1. \/ ForgetEq
        \/ KeepEq
        \/ overlooked' = overlooked \cup {"overflow"} /\ UNCHANGED <<eqStatus, cacheAsOf>>
    BY DEF AncReceives
  <2>2. sequence' \in SequenceNumbers
    BY <1>1, SequenceCounts DEF Typed, TypeOK
  <2>3. eqStatus \in EqRead \cup {NoEq} /\ cacheAsOf \in Nat /\ overlooked \subseteq Causes
    BY DEF Typed, TypeOK
  <2>4. CASE ForgetEq
    BY <2>2, <2>4 DEF ForgetEq
  <2>5. CASE KeepEq
    BY <2>2, <2>3, <2>5 DEF KeepEq, cache
  <2>6. CASE overlooked' = overlooked \cup {"overflow"} /\ UNCHANGED <<eqStatus, cacheAsOf>>
    BY <2>2, <2>3, <2>6 DEF Causes
  <2>. QED
    BY <2>1, <2>4, <2>5, <2>6
<1>6. TypeOK'
  BY <1>1, <1>2, <1>3, <1>4, <1>5 DEF Typed, TypeOK, Flags, Kept, earbuds, transaction, result
<1>7. Stages'
  BY <1>1 DEF Typed, Stages, Reading, transaction, result
<1>. QED
  BY <1>3, <1>6, <1>7 DEF Typed

\* Between commands: the session is closed, reopened, or both.
LEMMA MonitoringTyped == Typed /\ Monitoring => Typed'
<1>1. ASSUME Typed, NEW connected \in BOOLEAN, Refresh(connected) PROVE Typed'
  <2>1. /\ pc = "idle" /\ CloseSocket /\ ForgetEq
        /\ UNCHANGED <<transaction, result, writes, overlooking>>
    BY <1>1 DEF Refresh
  <2>2. running' = connected /\ open' = connected /\ subscriptionPending' = connected
    BY <1>1 DEF Refresh
  <2>3. /\ Payloads' /\ Counted' /\ Kept /\ up' \in Seq(Request)
        /\ selected' \in Ids /\ curve' \in Curves /\ subscribed' = FALSE
        /\ sequence' \in SequenceNumbers /\ selections' = selections
    BY <1>1, <2>1, SocketTyped DEF transaction
  <2>4. Flags'
    BY <2>2, <2>3 DEF Flags
  <2>5. TypeOK'
    BY <1>1, <2>1, <2>3, <2>4
    DEF Typed, TypeOK, Flags, Kept, ForgetEq, transaction, result
  <2>6. Stages'
    BY <1>1, <2>1 DEF Typed, Stages, Reading, transaction, result
  <2>. QED
    BY <2>3, <2>5, <2>6 DEF Typed
<1>2. ASSUME Typed, AncClosesSession PROVE Typed'
  <2>1. /\ pc = "idle" /\ CloseSocket /\ open' = FALSE
        /\ UNCHANGED <<running, subscriptionPending, transaction, eqStatus, cacheAsOf, result,
                       writes, overlooking>>
        /\ overlooked' \subseteq Causes
    BY <1>2 DEF AncClosesSession, Causes, Typed, TypeOK
  <2>2. /\ Payloads' /\ Counted' /\ Kept /\ up' \in Seq(Request)
        /\ selected' \in Ids /\ curve' \in Curves /\ subscribed' = FALSE
        /\ sequence' \in SequenceNumbers /\ selections' = selections
    BY <1>2, <2>1, SocketTyped DEF transaction
  <2>3. Flags'
    <3>1. running \in BOOLEAN /\ subscriptionPending \in BOOLEAN
      BY <1>2 DEF Typed, TypeOK
    <3>. QED
      BY <2>1, <2>2, <3>1 DEF Flags
  <2>4. TypeOK'
    BY <1>2, <2>1, <2>2, <2>3 DEF Typed, TypeOK, Flags, Kept, transaction, result
  <2>5. Stages'
    BY <1>2, <2>1 DEF Typed, Stages, Reading, transaction, result
  <2>. QED
    BY <2>2, <2>4, <2>5 DEF Typed
<1>3. ASSUME Typed, AncReopensSession PROVE Typed'
  <2>1. /\ pc = "idle" /\ subscribed' \in BOOLEAN
        /\ running' = running /\ running = TRUE /\ open' = TRUE
        /\ subscriptionPending' = FALSE
    BY <1>3, Zenon DEF AncReopensSession
  <2>2. UNCHANGED <<selected, curve, selections, link, running, sequence, transaction, cache,
                    result, writes, overlooking>>
    BY <1>3 DEF AncReopensSession
  <2>3. Kept
    BY <1>3, <2>2, SameKept DEF link
  <2>4. Payloads' /\ Counted' /\ up' \in Seq(Request)
    BY <1>3, <2>2, <2>3, UnsentTyped, OpIsTyped DEF link, transaction
  <2>5. Flags'
    BY <2>1 DEF Flags
  <2>6. TypeOK'
    BY <1>3, <2>2, <2>3, <2>4, <2>5
    DEF Typed, TypeOK, Flags, Kept, transaction, cache, result
  <2>7. Stages'
    BY <1>3, <2>1, <2>2 DEF Typed, Stages, Reading, transaction, result
  <2>. QED
    BY <2>4, <2>6, <2>7 DEF Typed
<1>4. Typed => 1..Len(down) \subseteq 0..Len(down)
  BY DEF Typed, TypeOK
<1>. QED
  BY <1>1, <1>2, <1>3, <1>4, PollTyped, AncReceivesTyped DEF Monitoring

LEMMA NextTyped == Typed /\ [Next]_vars => Typed'
<1>1. Typed /\ UNCHANGED vars => Typed'
  <2>1. UNCHANGED vars => UNCHANGED <<selected, curve, subscribed, selections, up, down, running,
            open, subscriptionPending, sequence, pc, op, want, queries, readId, readAsOf,
            eqStatus, cacheAsOf, overlooked, outcome, evidence, writes, overlooking>>
    BY DEF vars, earbuds, link, client, transaction, cache, result
  <2>. QED
    BY <2>1 DEF Typed, TypeOK, Payloads, Counted, SetsInFlight, Stages, Reading
<1>. QED
  BY <1>1, OutsideTyped, CommandTyped, MonitoringTyped DEF Next

\* Frames, requests, the cached EQ and the evidence of a write are always of the
\* kinds OpoSession and BudsController work with; among them the cached EQ, which
\* is a factory or custom id with the gains of the custom entry.
THEOREM TypeCorrect == Spec => []TypeOK
<1>1. Init => Typed
  BY InitTyped
<1>2. Typed /\ [Next]_vars => Typed'
  BY NextTyped
<1>3. Typed => TypeOK
  BY DEF Typed
<1>. QED
  BY <1>1, <1>2, <1>3, PTL DEF Spec

------------------------------------------------------------------------------
(* The order of the link, and what is concluded from it.                   *)

Ranked == Ordered /\ Evidence /\ Current /\ VerifiedByFreshRead

LEMMA InitRanked == Init => Ranked
BY DEF Init, Ranked, Ordered, Evidence, Current, VerifiedByFreshRead

\* The earbuds answer in the order of the requests, which is what the invariant needs.
LEMMA HandledInOrder ==
    ASSUME Typed, Ordered, up # <<>>, up' = Tail(up), UNCHANGED <<pc, want, writes>>,
           NEW value, AnswerOrNot(value)
    PROVE  Ordered' /\ (SetsInFlight = {} => SetsInFlight' = {})
<1>1. /\ up' \in Seq(Request) /\ Head(up) = up[1] /\ 1 \in DOMAIN up
      /\ DOMAIN up' = 1..(Len(up) - 1) /\ Len(up) \in Nat
      /\ \A i \in DOMAIN up' : up'[i] = up[i + 1] /\ i + 1 \in DOMAIN up
  BY OneFrameLess DEF Typed, TypeOK
<1>2. SetsInFlight = Sets(up) /\ SetsInFlight' = Sets(up')
  BY DEF SetsInFlight, Sets
<1>3. \A j \in SetsInFlight' : j \in Nat /\ j + 1 \in SetsInFlight
  BY <1>1, <1>2 DEF Sets
<1>4. SetsInFlight = {} => SetsInFlight' = {}
  BY <1>3
<1>5. SUFFICES ASSUME pc \notin {"idle", "ack"} PROVE Ordered'
  BY <1>4 DEF Ordered
<1>6. ASSUME NEW i \in DOMAIN up', up'[i].sequence = want.sequence, NEW j \in SetsInFlight'
      PROVE  j < i
  <2>1. i \in Nat /\ i + 1 \in DOMAIN up /\ up[i + 1].sequence = want.sequence
    BY <1>1, <1>6
  <2>2. j \in Nat /\ j + 1 \in SetsInFlight
    BY <1>3, <1>6
  <2>3. j + 1 < i + 1
    BY <1>5, <2>1, <2>2 DEF Ordered
  <2>. QED
    BY <2>1, <2>2, <2>3
<1>. DEFINE answer == Answer(Head(up), value)
<1>7. answer.sequence = want.sequence => answer.asOf = writes /\ SetsInFlight = {}
  <2>1. SUFFICES ASSUME up[1].sequence = want.sequence
                 PROVE  SetsInFlight = {} /\ HandledWrites = writes
    BY <1>1 DEF Answer
  <2>2. \A j \in SetsInFlight : j < 1
    BY <1>1, <1>5, <2>1 DEF Ordered
  <2>3. \A j \in SetsInFlight : j \in 1..Len(up)
    BY LenProperties DEF SetsInFlight, Typed, TypeOK
  <2>4. SetsInFlight = {}
    BY <1>1, <2>2, <2>3
  <2>. QED
    BY <2>4, AllHandled DEF Typed
<1>8. ASSUME NEW i \in DOMAIN down', down'[i].sequence = want.sequence
      PROVE  down'[i].asOf = writes /\ SetsInFlight = {}
  <2>1. down' = down \/ down' = Append(down, answer)
    BY DEF AnswerOrNot
  <2>. HIDE DEF answer
  <2>2. CASE i \in DOMAIN down /\ down'[i] = down[i]
    BY <1>5, <1>8, <2>2 DEF Ordered
  <2>3. CASE down'[i] = answer
    BY <1>7, <1>8, <2>3
  <2>4. (i \in DOMAIN down /\ down'[i] = down[i]) \/ down'[i] = answer
    <3>1. down \in Seq(Frame)
      BY DEF Typed, TypeOK
    <3>2. DOMAIN Append(down, answer) = 1..(Len(down) + 1) /\ DOMAIN down = 1..Len(down)
          /\ Append(down, answer)[Len(down) + 1] = answer /\ Len(down) \in Nat
          /\ \A k \in 1..Len(down) : Append(down, answer)[k] = down[k]
      BY <3>1, AppendProperties
    <3>3. CASE down' = down
      BY <3>3
    <3>4. CASE down' = Append(down, answer)
      BY <3>2, <3>4
    <3>. QED
      BY <2>1, <3>3, <3>4
  <2>. QED
    BY <2>2, <2>3, <2>4
<1>. QED
  BY <1>4, <1>6, <1>8 DEF Ordered

LEMMA OutsideRanked == Typed /\ Ranked /\ Outside => Ranked'
<1>. SUFFICES ASSUME Typed, Ranked, Outside PROVE Ranked'
  OBVIOUS
<1>1. UNCHANGED <<pc, op, want, readId, readAsOf, eqStatus, cacheAsOf, outcome, evidence, writes>>
      /\ overlooked \subseteq overlooked'
  BY DEF Outside, EarbudsHandleQuery, EarbudsHandleSet, HeyMelodySelects, transaction, cache,
         result
<1>2. Ordered' /\ (SetsInFlight = {} => SetsInFlight' = {})
  <2>1. CASE EarbudsHandleQuery \/ EarbudsHandleSet
    <3>1. up # <<>> /\ up' = Tail(up) /\ \E value : AnswerOrNot(value)
      BY <2>1 DEF EarbudsHandleQuery, EarbudsHandleSet
    <3>. QED
      BY <1>1, <3>1, HandledInOrder DEF Ranked
  <2>2. ASSUME NEW id \in Ids, HeyMelodySelects(id)
        PROVE  Ordered' /\ (SetsInFlight = {} => SetsInFlight' = {})
    <3>. DEFINE notice == [command |-> "NOTIFY_EQ", sequence |-> 0, value |-> id,
                           asOf |-> HandledWrites]
    <3>1. down' = down \/ down' = Append(down, notice)
      BY <2>2 DEF HeyMelodySelects
    <3>2. up' = up /\ SetsInFlight' = SetsInFlight
      BY <2>2 DEF HeyMelodySelects, SetsInFlight
    <3>3. notice.sequence # want.sequence
      <4>1. want.sequence \in SequenceNumbers
        BY DEF Typed, TypeOK
      <4>. QED
        BY <4>1, LastSequenceAssumption DEF SequenceNumbers
    <3>4. notice \in Frame
      BY HandledTyped DEF Frame, Values, Typed
    <3>. HIDE DEF notice
    <3>5. \A i \in DOMAIN down' :
             (i \in DOMAIN down /\ down'[i] = down[i]) \/ down'[i] = notice
      <4>1. down' = Append(down, notice) =>
               /\ DOMAIN down' = 1..(Len(down) + 1) /\ DOMAIN down = 1..Len(down)
               /\ Len(down) \in Nat /\ down'[Len(down) + 1] = notice
               /\ \A k \in DOMAIN down : down'[k] = down[k]
        BY <3>4, OneMoreFrame DEF Typed, TypeOK
      <4>. QED
        BY <3>1, <4>1
    <3>. QED
      BY <1>1, <3>2, <3>3, <3>5 DEF Ranked, Ordered
  <2>. QED
    BY <2>1, <2>2 DEF Outside
<1>. QED
  BY <1>1, <1>2 DEF Ranked, Evidence, Current, VerifiedByFreshRead, Reading

\* A query: nothing on the link has its number, and every SET is before it.
LEMMA QueryInOrder ==
    ASSUME Typed, Kept, NEW command \in {"QUERY_EQ", "QUERY_EQ_ALL"}, NEW phase \in Phases,
           Send(command, NoEq, phase)
    PROVE  Ordered' /\ SetsInFlight' = SetsInFlight /\ pc' = phase
<1>1. command \in Commands /\ NoEq \in Values /\ command \notin SetCommands
  BY DEF Commands, Values, SetCommands
<1>2. /\ want' = [command |-> ResponseTo[command], sequence |-> sequence]
      /\ pc' = phase
      /\ DOMAIN up' = 1..(Len(up) + 1) /\ DOMAIN up = 1..Len(up) /\ Len(up) \in Nat
      /\ \A i \in DOMAIN up : up'[i] = up[i] /\ up[i].sequence # sequence
      /\ \A i \in DOMAIN down : down[i].sequence # sequence
      /\ SetsInFlight' = SetsInFlight
  BY <1>1, SendStep DEF Typed
<1>3. \A j \in SetsInFlight' : j \in Nat /\ j < Len(up) + 1
  BY <1>2 DEF SetsInFlight
<1>4. \A i \in DOMAIN up' : up'[i].sequence = want'.sequence => \A j \in SetsInFlight' : j < i
  BY <1>2, <1>3
<1>5. \A i \in DOMAIN down' : down'[i].sequence # want'.sequence
  BY <1>2 DEF Kept
<1>. QED
  BY <1>2, <1>4, <1>5 DEF Ordered

\* The reply to a query was given after every write, none of which is left.
LEMMA ReplyIsFresh ==
    ASSUME Typed, Ordered, NEW phase, phase \notin {"idle", "ack"},
           NEW n \in 1..Len(down), NEW i \in 1..n, Received(phase, n, i)
    PROVE  down[i].asOf = writes /\ SetsInFlight = {} /\ pc = phase
<1>1. pc = phase /\ i \in DOMAIN down /\ down[i].sequence = want.sequence
  BY ReceivedStep
<1>. QED
  BY <1>1 DEF Ordered

LEMMA VerifyRanked ==
    ASSUME Typed, Verify, Kept, pc # "idle"
    PROVE  Ranked'
<1>1. PICK command \in {"QUERY_EQ", "QUERY_EQ_ALL"} : Send(command, NoEq, "verify")
  BY DEF Verify, VerifyQuery
<1>2. Ordered' /\ pc' = "verify" /\ outcome' = outcome
  BY <1>1, QueryInOrder, PhaseNames DEF Verify
<1>3. Evidence' /\ Current'
  BY <1>2 DEF Evidence, Current, Reading
<1>4. VerifiedByFreshRead'
  BY <1>2 DEF Typed, Stages, VerifiedByFreshRead
<1>. QED
  BY <1>2, <1>3, <1>4 DEF Ranked

\* Nothing is sent, the command goes on, or is given up.
LEMMA UnsentRanked ==
    ASSUME Typed, Ranked, Kept, up' = up, UNCHANGED <<op, want, readId, readAsOf, eqStatus,
               cacheAsOf, evidence, writes>>, overlooked \subseteq overlooked',
           \/ UNCHANGED <<pc, outcome>>
           \/ pc' = "idle" /\ outcome' = "failed" /\ (Reading \/ "undecodable" \in overlooked')
    PROVE  Ranked'
<1>1. SetsInFlight' = SetsInFlight
  BY DEF SetsInFlight
<1>2. CASE UNCHANGED <<pc, outcome>>
  BY <1>1, <1>2 DEF Ranked, Kept, Ordered, Evidence, Current, VerifiedByFreshRead, Reading
<1>3. CASE pc' = "idle" /\ outcome' = "failed" /\ (Reading \/ "undecodable" \in overlooked')
  BY <1>1, <1>3 DEF Ranked, Kept, Ordered, Evidence, Current, VerifiedByFreshRead
<1>. QED
  BY <1>2, <1>3

LEMMA ReplyRanked ==
    ASSUME Typed, Ranked, NEW n \in 1..Len(down), NEW i \in 1..n,
           \/ ReceiveCurrent(n, i)
           \/ ReceiveStatus(n, i)
           \/ ReceiveTarget(n, i)
           \/ ReceiveRejected(n, i)
           \/ ReceiveAck(n, i)
           \/ ReceiveVerify(n, i)
           \/ WriteSucceeds(n, i)
    PROVE  Ranked'
<1>1. ASSUME NEW phase, phase \in Phases, Received(phase, n, i)
      PROVE  /\ pc = phase /\ Kept /\ pc # "idle" /\ outcome = "none"
             /\ phase # "ack" => down[i].asOf = writes /\ SetsInFlight = {}
  BY <1>1, ReceivedStep, ReplyIsFresh DEF Typed, Stages, Phases, Ranked
<1>2. CASE ReceiveCurrent(n, i)
  <2>1. UNCHANGED <<op, cache, outcome, writes>> /\ readId' = down[i].value
        /\ readAsOf' = down[i].asOf
    BY <1>2 DEF ReceiveCurrent
  <2>2. CASE Received("read_current", n, i) /\ Send("QUERY_EQ_ALL", NoEq, "read_entries")
    <3>1. pc = "read_current" /\ Kept /\ outcome = "none"
          /\ down[i].asOf = writes /\ SetsInFlight = {}
      BY <1>1, <2>2, PhaseNames
    <3>2. Ordered' /\ SetsInFlight' = SetsInFlight /\ pc' = "read_entries"
      BY <2>2, <3>1, QueryInOrder, PhaseNames
    <3>. QED
      BY <2>1, <3>1, <3>2
      DEF Ranked, Evidence, Current, VerifiedByFreshRead, Reading, cache
  <2>3. CASE /\ Received("confirm_current", n, i)
             /\ Send("QUERY_EQ_ALL", NoEq, "confirm_entries")
             /\ evidence' = [value |-> down[i].value, asOf |-> down[i].asOf]
    <3>1. Kept /\ outcome = "none" /\ down[i].asOf = writes
      BY <1>1, <2>3, PhaseNames
    <3>2. Ordered' /\ pc' = "confirm_entries"
      BY <2>3, <3>1, QueryInOrder, PhaseNames
    <3>. QED
      BY <2>1, <2>3, <3>1, <3>2
      DEF Ranked, Evidence, Current, VerifiedByFreshRead, Reading
  <2>. QED
    BY <1>2, <2>2, <2>3 DEF ReceiveCurrent
<1>3. CASE ReceiveStatus(n, i)
  <2>1. pc = "read_entries"
    BY <1>1, <1>3, PhaseNames DEF ReceiveStatus
  <2>2. readAsOf = writes /\ SetsInFlight = {} /\ SetsInFlight' = {}
    BY <1>3, <2>1 DEF ReceiveStatus, Ranked, Evidence, SetsInFlight
  <2>. QED
    BY <1>3, <2>2
    DEF ReceiveStatus, Ranked, Ordered, Evidence, Current, VerifiedByFreshRead
<1>4. CASE ReceiveTarget(n, i)
  <2>1. outcome = "none"
    BY <1>1, <1>4, PhaseNames DEF ReceiveTarget
  <2>2. pc' = "ack" /\ outcome' = outcome
    BY <1>4 DEF ReceiveTarget, Send, result
  <2>. QED
    BY <2>1, <2>2 DEF Ranked, Ordered, Evidence, Current, VerifiedByFreshRead, Reading
<1>5. CASE ReceiveRejected(n, i)
  <2>1. Kept /\ Reading
    BY <1>1, <1>5, PhaseNames DEF ReceiveRejected, Reading
  <2>. QED
    BY <1>5, <2>1, UnsentRanked DEF ReceiveRejected
<1>6. CASE ReceiveAck(n, i)
  BY <1>1, <1>6, VerifyRanked, PhaseNames DEF ReceiveAck
<1>7. CASE ReceiveVerify(n, i)
  <2>1. Kept /\ outcome = "none" /\ down[i].asOf = writes /\ pc # "idle"
    BY <1>1, <1>7, PhaseNames DEF ReceiveVerify
  <2>2. CASE Verify
    BY <2>1, <2>2, VerifyRanked
  <2>3. CASE /\ Send("QUERY_EQ", NoEq, "confirm_current") /\ down[i].value = op.target
             /\ evidence' = [value |-> down[i].value, asOf |-> down[i].asOf]
             /\ UNCHANGED <<op, cache, outcome, writes>>
    <3>1. Ordered' /\ pc' = "confirm_current"
      BY <2>1, <2>3, QueryInOrder, PhaseNames
    <3>. QED
      BY <2>1, <2>3, <3>1
      DEF Ranked, Evidence, Current, VerifiedByFreshRead, Reading
  <2>. QED
    BY <1>7, <2>2, <2>3 DEF ReceiveVerify
<1>8. CASE WriteSucceeds(n, i)
  <2>1. /\ pc' = "idle" /\ eqStatus' = NoEq
        /\ UNCHANGED <<op, evidence, writes>>
    BY <1>8 DEF WriteSucceeds, ForgetEq
  <2>2. evidence.value = op.target /\ evidence.asOf = writes
    <3>1. \/ pc = "confirm_entries" /\ readId = op.target
          \/ pc = "confirm_current"
      BY <1>1, <1>8, PhaseNames DEF WriteSucceeds
    <3>. QED
      BY <3>1 DEF Ranked, Evidence
  <2>. QED
    BY <2>1, <2>2 DEF Ranked, Ordered, Evidence, Current, VerifiedByFreshRead
<1>. QED
  BY <1>2, <1>3, <1>4, <1>5, <1>6, <1>7, <1>8

LEMMA CommandRanked == Typed /\ Ranked /\ Command => Ranked'
<1>. SUFFICES ASSUME Typed, Ranked, Command PROVE Ranked'
  OBVIOUS
<1>0. down \in Seq(Frame) /\ Len(down) \in Nat
  BY LenProperties DEF Typed, TypeOK
<1>1. ASSUME NEW kind, NEW target, Begin(kind, target) PROVE Ranked'
  <2>1. Send("QUERY_EQ", NoEq, "read_current") /\ Kept
    BY <1>1, SameKept DEF Begin
  <2>2. Ordered' /\ SetsInFlight' = SetsInFlight /\ pc' = "read_current"
    BY <2>1, QueryInOrder, PhaseNames
  <2>3. /\ pc = "idle" /\ writes' = writes /\ outcome' = "none"
        /\ eqStatus' = NoEq \/ UNCHANGED <<eqStatus, cacheAsOf, overlooked>>
    BY <1>1 DEF Begin, KeepEq, ForgetEq, cache
  <2>. QED
    BY <2>2, <2>3 DEF Ranked, Evidence, Current, VerifiedByFreshRead, Reading
<1>2. CASE Reply
  BY <1>2, ReplyRanked DEF Reply
<1>3. ASSUME NEW n \in 1..Len(down), ReceiveOthers(n) PROVE Ranked'
  <2>1. n \in 0..Len(down)
    BY <1>0
  <2>2. Kept
    BY <1>3, <2>1, UnreadKept DEF ReceiveOthers
  <2>. QED
    BY <1>3, <2>2, UnsentRanked DEF ReceiveOthers, transaction, cache, result
<1>4. CASE AckTimeout
  <2>1. Verify /\ Kept /\ pc # "idle"
    BY <1>4, SameKept DEF AckTimeout
  <2>. QED
    BY <2>1, VerifyRanked
<1>5. CASE WriteFails
  BY <1>5 DEF WriteFails, ForgetEq, Ranked, Ordered, Evidence, Current, VerifiedByFreshRead
<1>6. CASE StatusFails
  <2>1. Kept /\ Reading
    BY <1>6, SameKept DEF StatusFails, link, Typed, Stages
  <2>. QED
    BY <1>6, <2>1, UnsentRanked DEF StatusFails, link
<1>7. ASSUME NEW n \in 0..Len(down), Undecodable(n) PROVE Ranked'
  <2>1. Kept
    BY <1>7, UnreadKept DEF Undecodable
  <2>. QED
    BY <1>7, <2>1, UnsentRanked DEF Undecodable
<1>. QED
  BY <1>1, <1>2, <1>3, <1>4, <1>5, <1>6, <1>7 DEF Command

LEMMA MonitoringRanked == Typed /\ Ranked /\ Monitoring => Ranked'
<1>. SUFFICES ASSUME Typed, Ranked, Monitoring PROVE Ranked'
  OBVIOUS
<1>1. pc = "idle" /\ UNCHANGED <<transaction, result, writes>>
  BY DEF Monitoring, Poll, AncReceives, Refresh, AncClosesSession, AncReopensSession
<1>2. Ordered' /\ Evidence' /\ VerifiedByFreshRead'
  BY <1>1 DEF Ranked, Ordered, Evidence, VerifiedByFreshRead, transaction, result
<1>3. Current'
  <2>1. CASE eqStatus' = NoEq
    BY <2>1 DEF Current
  <2>2. CASE /\ UNCHANGED <<eqStatus, cacheAsOf>> /\ overlooked \subseteq overlooked'
             /\ up' = up \/ up' = <<>>
    <3>1. SetsInFlight = {} => SetsInFlight' = {}
      BY <2>2 DEF SetsInFlight
    <3>. QED
      BY <1>1, <2>2, <3>1 DEF Ranked, Current
  <2>3. \A n : Poll(n) \/ AncReceives(n) =>
                          \/ eqStatus' = NoEq
                          \/ /\ UNCHANGED <<eqStatus, cacheAsOf>> /\ overlooked \subseteq overlooked'
                             /\ up' = up
    BY DEF Poll, AncReceives, ForgetEq, KeepEq, cache
  <2>4. \A connected : Refresh(connected) => eqStatus' = NoEq
    BY DEF Refresh, ForgetEq
  <2>5. AncClosesSession \/ AncReopensSession =>
           /\ UNCHANGED <<eqStatus, cacheAsOf>> /\ overlooked \subseteq overlooked'
           /\ up' = up \/ up' = <<>>
    BY DEF AncClosesSession, AncReopensSession, CloseSocket, cache, link
  <2>. QED
    BY <2>1, <2>2, <2>3, <2>4, <2>5 DEF Monitoring
<1>. QED
  BY <1>2, <1>3 DEF Ranked

LEMMA NextRanked == Typed /\ Ranked /\ [Next]_vars => Ranked'
<1>1. Ranked /\ UNCHANGED vars => Ranked'
  <2>1. UNCHANGED vars => UNCHANGED <<up, down, pc, op, want, readId, readAsOf, eqStatus, cacheAsOf,
            overlooked, outcome, evidence, writes>>
    BY DEF vars, link, transaction, cache, result
  <2>. QED
    BY <2>1 DEF Ranked, Ordered, Evidence, Current, SetsInFlight, Reading, VerifiedByFreshRead
<1>. QED
  BY <1>1, OutsideRanked, CommandRanked, MonitoringRanked DEF Next

LEMMA AlwaysRanked == Spec => [](Typed /\ Ranked)
<1>1. Init => Typed /\ Ranked
  BY InitTyped, InitRanked
<1>2. Typed /\ Ranked /\ [Next]_vars => Typed' /\ Ranked'
  BY NextTyped, NextRanked
<1>. QED
  BY <1>1, <1>2, PTL DEF Spec

\* An EQ write is reported as verified only by a reply that shows its target and was
\* given after the earbuds handled its SET, although failed reads leave the session
\* open with their late replies still to come (set_eq and set_custom_eq).
THEOREM AlwaysVerifiedByFreshRead == Spec => []VerifiedByFreshRead
<1>1. Ranked => VerifiedByFreshRead
  BY DEF Ranked
<1>. QED
  BY <1>1, AlwaysRanked, PTL

\* The cached EQ another thread can see was read after the last SET that may have
\* reached the earbuds, unless a frame could not be decoded since.
THEOREM ShownEqIsCurrent == Spec => []ShownEqNotOlderThanWrite
<1>1. Ranked => ShownEqNotOlderThanWrite
  BY DEF Ranked, Current, ShownEqNotOlderThanWrite
<1>. QED
  BY <1>1, AlwaysRanked, PTL

------------------------------------------------------------------------------
(* The register that other threads meet.                                   *)

\* Only a command that ends with an undecodable frame lapses; its own read does not.
NoLapseWithin == "undecodable" \notin overlooking

LEMMA NextNoLapse == NoLapseWithin /\ [Next]_vars => NoLapseWithin'
<1>1. ASSUME NEW n, NEW i, NEW phase, NoLapseWithin, Received(phase, n, i) PROVE NoLapseWithin'
  BY <1>1 DEF Received, NoLapseWithin
<1>2. NoLapseWithin /\ Reply => NoLapseWithin'
  BY <1>1 DEF Reply, ReceiveCurrent, ReceiveStatus, ReceiveTarget, ReceiveRejected, ReceiveAck,
     ReceiveVerify, WriteSucceeds
<1>3. NoLapseWithin /\ Command => NoLapseWithin'
  <2>1. \A kind, target : Begin(kind, target) => NoLapseWithin'
    BY DEF Begin, NoLapseWithin
  <2>2. \A n : NoLapseWithin /\ ReceiveOthers(n) => NoLapseWithin'
    BY DEF ReceiveOthers, NoLapseWithin
  <2>3. \A n : NoLapseWithin /\ Undecodable(n) => NoLapseWithin'
    BY DEF Undecodable, NoLapseWithin
  <2>4. NoLapseWithin /\ (AckTimeout \/ WriteFails \/ StatusFails) => NoLapseWithin'
    BY DEF AckTimeout, WriteFails, StatusFails, NoLapseWithin
  <2>. QED
    BY <1>2, <2>1, <2>2, <2>3, <2>4 DEF Command
<1>4. NoLapseWithin /\ Outside => NoLapseWithin'
  <2>1. EarbudsHandleQuery \/ EarbudsHandleSet => overlooking' = overlooking
    BY DEF EarbudsHandleQuery, EarbudsHandleSet
  <2>2. \A id : HeyMelodySelects(id) => \/ overlooking' = overlooking
                                        \/ overlooking' = overlooking \cup {"unsubscribed"}
    BY DEF HeyMelodySelects
  <2>. QED
    BY <2>1, <2>2 DEF Outside, NoLapseWithin
<1>5. NoLapseWithin /\ Monitoring => NoLapseWithin'
  BY DEF Monitoring, Poll, AncReceives, Refresh, AncClosesSession, AncReopensSession, NoLapseWithin
<1>. QED
  BY <1>3, <1>4, <1>5 DEF Next, vars, NoLapseWithin

LEMMA InitRegister == Init => Register!Init
BY DEF Init, Register!Init

\* A step that other threads do not see: the command goes on, the cache is kept.
Unseen ==
    /\ \/ pc' = pc
       \/ Reading /\ Reading'
       \/ pc \notin {"idle", "read_current", "read_entries"}
          /\ pc' \notin {"idle", "read_current", "read_entries"}
    /\ UNCHANGED <<writes, eqStatus, cacheAsOf, outcome>>
    /\ "undecodable" \in overlooked' <=> "undecodable" \in overlooked

LEMMA UnseenStutters == Unseen => UNCHANGED Register!vars
<1>. SUFFICES ASSUME Unseen PROVE UNCHANGED Register!vars
  OBVIOUS
<1>1. UNCHANGED <<writes, eqStatus, cacheAsOf, outcome>>
  BY DEF Unseen
<1>2. ("undecodable" \in overlooked') = ("undecodable" \in overlooked)
  <2>1. "undecodable" \in overlooked' <=> "undecodable" \in overlooked
    BY DEF Unseen
  <2>. QED
    BY <2>1
<1>3. \/ pc' = pc
      \/ pc \in {"read_current", "read_entries"} /\ pc' \in {"read_current", "read_entries"}
      \/ pc \notin {"idle", "read_current", "read_entries"}
         /\ pc' \notin {"idle", "read_current", "read_entries"}
  BY DEF Unseen, Reading
<1>. QED
  BY <1>1, <1>2, <1>3 DEF Register!vars

LEMMA ReplyImplements ==
    ASSUME Typed, Ranked, NoLapseWithin, NEW n \in 1..Len(down), NEW i \in 1..n,
           \/ ReceiveCurrent(n, i)
           \/ ReceiveStatus(n, i)
           \/ ReceiveTarget(n, i)
           \/ ReceiveRejected(n, i)
           \/ ReceiveAck(n, i)
           \/ ReceiveVerify(n, i)
           \/ WriteSucceeds(n, i)
    PROVE  Register!Next \/ Unseen
<1>. USE DEF Register!EndsWith, Register!Settles, Register!Hears
<1>1. ASSUME NEW phase, Received(phase, n, i)
      PROVE  /\ pc = phase /\ NoLapseWithin'
             /\ phase \in Phases => outcome = "none"
  BY <1>1, ReceivedStep DEF Typed, Stages, Phases, NoLapseWithin, Received
<1>2. CASE ReceiveCurrent(n, i)
  <2>1. UNCHANGED <<cache, outcome, writes>>
        /\ \/ pc = "read_current" /\ pc' = "read_entries"
           \/ pc = "confirm_current" /\ pc' = "confirm_entries"
    BY <1>1, <1>2 DEF ReceiveCurrent, Send
  <2>. QED
    BY <2>1 DEF Unseen, Reading, cache
<1>3. CASE ReceiveStatus(n, i)
  <2>1. pc = "read_entries" /\ pc' = "idle" /\ outcome' = "ok" /\ writes' = writes
        /\ cacheAsOf' = readAsOf /\ "undecodable" \notin overlooked'
        /\ eqStatus' = [id |-> readId, curve |-> down[i].value]
    BY <1>1, <1>3 DEF ReceiveStatus, NoLapseWithin
  <2>2. readAsOf = writes /\ readId \in Ids
    BY <2>1 DEF Ranked, Evidence, Typed, Stages
  <2>3. down[i].value \in Curves
    BY <1>3, ReplyCarries DEF ReceiveStatus
  <2>4. eqStatus' # NoEq
    BY <2>1, <2>2, <2>3, EqAssumption
  <2>5. Register!ReadSucceeds
    BY <2>1, <2>2, <2>4 DEF Register!ReadSucceeds
  <2>. QED
    BY <2>5 DEF Register!Next
<1>4. CASE ReceiveTarget(n, i)
  <2>1. pc = "read_entries" /\ pc' = "ack" /\ outcome = "none" /\ outcome' = outcome
        /\ writes' = writes + 1 /\ UNCHANGED <<eqStatus, cacheAsOf, overlooked>>
    BY <1>1, <1>4, PhaseNames DEF ReceiveTarget, Send, cache, result
  <2>2. Register!Write
    BY <2>1 DEF Register!Write
  <2>. QED
    BY <2>2 DEF Register!Next
<1>5. CASE ReceiveRejected(n, i)
  <2>1. pc = "read_entries" /\ pc' = "idle" /\ outcome' = "failed" /\ writes' = writes
        /\ UNCHANGED <<eqStatus, cacheAsOf>> /\ NoLapseWithin'
        /\ overlooked' = overlooked \cup overlooking'
    BY <1>1, <1>5 DEF ReceiveRejected
  <2>2. ("undecodable" \in overlooked') = ("undecodable" \in overlooked)
    <3>1. "undecodable" \in overlooked' <=> "undecodable" \in overlooked
      BY <2>1 DEF NoLapseWithin
    <3>. QED
      BY <3>1
  <2>3. Register!Rejected
    BY <2>1, <2>2 DEF Register!Rejected
  <2>. QED
    BY <2>3 DEF Register!Next
<1>6. CASE ReceiveAck(n, i)
  BY <1>1, <1>6 DEF ReceiveAck, Verify, Send, cache, Unseen
<1>7. CASE ReceiveVerify(n, i)
  BY <1>1, <1>7 DEF ReceiveVerify, Verify, Send, cache, Unseen
<1>8. CASE WriteSucceeds(n, i)
  <2>1. pc \in {"confirm_current", "confirm_entries"}
    BY <1>1, <1>8 DEF WriteSucceeds
  <2>2. Register!WriteSucceeds
    BY <1>8, <2>1 DEF WriteSucceeds, ForgetEq, Register!WriteSucceeds
  <2>. QED
    BY <2>2 DEF Register!Next
<1>. QED
  BY <1>2, <1>3, <1>4, <1>5, <1>6, <1>7, <1>8

LEMMA CommandImplements ==
    ASSUME Typed, Ranked, NoLapseWithin, Command
    PROVE  Register!Next \/ Unseen
<1>. USE DEF Register!EndsWith, Register!Settles, Register!Hears
<1>1. ASSUME NEW kind, NEW target, Begin(kind, target) PROVE Register!Begin
  <2>1. pc = "idle" /\ pc' = "read_current" /\ outcome' = "none" /\ writes' = writes
    BY <1>1 DEF Begin, Send
  <2>2. KeepEq \/ ForgetEq
    BY <1>1 DEF Begin
  <2>3. CASE KeepEq
    BY <2>1, <2>3 DEF KeepEq, cache, Register!Begin
  <2>4. CASE ForgetEq
    BY <2>1, <2>4 DEF ForgetEq, Register!Begin
  <2>. QED
    BY <2>2, <2>3, <2>4
<1>2. CASE Reply
  BY <1>2, ReplyImplements DEF Reply
<1>3. ASSUME NEW n, ReceiveOthers(n) PROVE Unseen
  BY <1>3 DEF ReceiveOthers, transaction, cache, result, Unseen
<1>4. CASE AckTimeout
  BY <1>4 DEF AckTimeout, Verify, Send, cache, Unseen
<1>5. CASE WriteFails
  <2>1. Register!Fails
    BY <1>5 DEF WriteFails, ForgetEq, Register!Fails
  <2>. QED
    BY <2>1 DEF Register!Next
<1>6. CASE StatusFails
  <2>1. pc \in {"read_current", "read_entries"} /\ pc' = "idle" /\ outcome' = "failed"
        /\ UNCHANGED <<writes, eqStatus, cacheAsOf>>
    BY <1>6 DEF StatusFails, Typed, Stages, Reading
  <2>2. ("undecodable" \in overlooked') = ("undecodable" \in overlooked)
    <3>1. "undecodable" \in overlooked' <=> "undecodable" \in overlooked
      BY <1>6 DEF StatusFails, NoLapseWithin
    <3>. QED
      BY <3>1
  <2>3. Register!Rejected
    BY <2>1, <2>2 DEF Register!Rejected
  <2>. QED
    BY <2>3 DEF Register!Next
<1>7. ASSUME NEW n, Undecodable(n) PROVE Register!Lapses
  BY <1>7 DEF Undecodable, Register!Lapses
<1>. QED
  BY <1>1, <1>2, <1>3, <1>4, <1>5, <1>6, <1>7 DEF Command, Register!Next

LEMMA MonitoringImplements ==
    ASSUME Monitoring
    PROVE  Register!Refreshes \/ Unseen
<1>. USE DEF Register!Settles
<1>1. pc = "idle" /\ pc' = "idle" /\ UNCHANGED <<writes, outcome>>
  BY DEF Monitoring, Poll, AncReceives, Refresh, AncClosesSession, AncReopensSession,
     transaction, result
<1>2. \/ eqStatus' = NoEq /\ "undecodable" \notin overlooked'
      \/ /\ UNCHANGED <<eqStatus, cacheAsOf>>
         /\ "undecodable" \in overlooked' <=> "undecodable" \in overlooked
  BY DEF Monitoring, Poll, AncReceives, Refresh, AncClosesSession, AncReopensSession, ForgetEq,
     KeepEq, cache
<1>3. CASE eqStatus' = NoEq /\ "undecodable" \notin overlooked'
  BY <1>1, <1>3 DEF Register!Refreshes
<1>4. CASE /\ UNCHANGED <<eqStatus, cacheAsOf>>
           /\ "undecodable" \in overlooked' <=> "undecodable" \in overlooked
  BY <1>1, <1>4 DEF Unseen
<1>. QED
  BY <1>2, <1>3, <1>4

\* Each step of the frames is one of the register, or is not seen.
LEMMA NextImplements ==
    ASSUME Typed, Ranked, NoLapseWithin, [Next]_vars
    PROVE  [Register!Next]_Register!vars
<1>1. CASE Outside \/ UNCHANGED vars
  <2>1. UNCHANGED <<pc, writes, eqStatus, cacheAsOf, outcome>>
    BY <1>1 DEF Outside, EarbudsHandleQuery, EarbudsHandleSet, HeyMelodySelects, transaction,
       cache, result, vars
  <2>2. overlooked' = overlooked \/ overlooked' = overlooked \cup {"unsubscribed"}
    BY <1>1 DEF Outside, EarbudsHandleQuery, EarbudsHandleSet, HeyMelodySelects, cache, vars
  <2>3. Unseen
    BY <2>1, <2>2 DEF Unseen
  <2>. QED
    BY <2>3, UnseenStutters
<1>2. CASE Command
  BY <1>2, CommandImplements, UnseenStutters
<1>3. CASE Monitoring
  BY <1>3, MonitoringImplements, UnseenStutters DEF Register!Next
<1>. QED
  BY <1>1, <1>2, <1>3 DEF Next

\* The preserving read, the write, its acknowledgement, its verification and both
\* confirmations are, to other threads, the register of VerifiedWrite, for any number
\* of frames, queries, failed reads and sockets.
THEOREM ImplementsRegister == Spec => ImplementsVerifiedWrite
<1>1. Init => NoLapseWithin
  BY DEF Init, NoLapseWithin
<1>2. Typed /\ Ranked /\ NoLapseWithin /\ [Next]_vars => [Register!Next]_Register!vars
  BY NextImplements
<1>. QED
  BY <1>1, <1>2, NextNoLapse, InitRegister, AlwaysRanked, PTL
     DEF Spec, ImplementsVerifiedWrite, Register!Spec

------------------------------------------------------------------------------
(* Changes made elsewhere.                                                 *)

LEMMA InitFollows == Init => Follows
BY DEF Init, Follows, Reading

LEMMA WantIsResponse ==
    Typed => want.command \in {"RESPONSE_EQ", "RESPONSE_EQ_ALL", "RESPONSE_SET_EQ",
                               "RESPONSE_SET_EQ_DETAIL"}
<1>. SUFFICES ASSUME Typed
              PROVE  want.command \in {"RESPONSE_EQ", "RESPONSE_EQ_ALL", "RESPONSE_SET_EQ",
                                       "RESPONSE_SET_EQ_DETAIL"}
  OBVIOUS
<1>1. want.command \in {ResponseTo[c] : c \in DOMAIN ResponseTo}
  BY DEF Typed, TypeOK
<1>. QED
  BY <1>1, Responses DEF Commands

\* Frames only come behind those that have arrived: what was unheard still is.
LEMMA UnheardGrows ==
    ASSUME UNCHANGED <<pc, want>>, DOMAIN down \subseteq DOMAIN down',
           \A i \in DOMAIN down : down'[i] = down[i]
    PROVE  Unheard => Unheard'
BY DEF Unheard, Announcement

\* A frame behind the others.
LEMMA AnsweredBehind ==
    ASSUME Typed, NEW value \in Values, AnswerOrNot(value), up # <<>>
    PROVE  /\ DOMAIN down \subseteq DOMAIN down' /\ \A i \in DOMAIN down : down'[i] = down[i]
           /\ \A i \in DOMAIN down' :
                 (i \in DOMAIN down /\ down'[i] = down[i])
                 \/ (down'[i].command = ResponseTo[Head(up).command] /\ down'[i].value = value)
<1>. DEFINE answer == Answer(Head(up), value)
<1>1. answer.command = ResponseTo[Head(up).command] /\ answer.value = value
  BY DEF Answer
<1>2. down' = down \/ down' = Append(down, answer)
  BY DEF AnswerOrNot
<1>. HIDE DEF answer
<1>3. down \in Seq(Frame)
  BY DEF Typed, TypeOK
<1>4. DOMAIN Append(down, answer) = 1..(Len(down) + 1) /\ DOMAIN down = 1..Len(down)
      /\ Append(down, answer)[Len(down) + 1] = answer /\ Len(down) \in Nat
      /\ \A k \in 1..Len(down) : Append(down, answer)[k] = down[k]
  BY <1>3, AppendProperties
<1>5. CASE down' = down
  BY <1>5
<1>6. CASE down' = Append(down, answer)
  BY <1>1, <1>4, <1>6
<1>. QED
  BY <1>2, <1>5, <1>6

LEMMA OutsideFollows == Typed /\ Ranked /\ Follows /\ Outside => Follows'
<1>. SUFFICES ASSUME Typed, Ranked, Follows, Outside PROVE Follows'
  OBVIOUS
<1>1. CASE EarbudsHandleQuery
  <2>1. /\ up # <<>>
        /\ UNCHANGED <<selected, pc, want, readId, eqStatus, overlooked, overlooking>>
        /\ \/ Head(up).command = "QUERY_EQ" /\ AnswerOrNot(selected)
           \/ Head(up).command = "QUERY_EQ_ALL" /\ AnswerOrNot(curve)
    BY <1>1 DEF EarbudsHandleQuery, earbuds, transaction, cache
  <2>2. selected \in Values /\ curve \in Values
    BY DEF Typed, TypeOK, Values
  <2>3. DOMAIN down \subseteq DOMAIN down' /\ \A i \in DOMAIN down : down'[i] = down[i]
    BY <2>1, <2>2, AnsweredBehind
  <2>4. Noticed => Noticed'
    BY <2>1, <2>3, UnheardGrows DEF Noticed
  <2>5. \A i \in DOMAIN down' :
           (i \in DOMAIN down /\ down'[i] = down[i])
           \/ down'[i].command = "RESPONSE_EQ_ALL"
           \/ down'[i].value = selected
    BY <2>1, <2>2, AnsweredBehind, Responses
  <2>6. ASSUME pc = "read_current", NEW i \in DOMAIN down', Answers(down'[i], want)
        PROVE  down'[i].value = selected \/ Noticed
    <3>1. down'[i].command = "RESPONSE_EQ"
      BY <2>6 DEF Answers, Typed, Stages
    <3>. QED
      BY <2>5, <2>6, <3>1 DEF Follows
  <2>. QED
    BY <2>1, <2>4, <2>6 DEF Follows, Reading
<1>2. CASE EarbudsHandleSet
  <2>1. up # <<>> /\ Head(up).command \in SetCommands /\ AnswerOrNot(NoEq)
        /\ UNCHANGED <<pc, want, eqStatus, overlooked>>
    BY <1>2 DEF EarbudsHandleSet, SetCommands, transaction, cache
  <2>2. SetsInFlight # {}
    <3>1. Head(up) = up[1] /\ 1 \in DOMAIN up
      BY <2>1, OneFrameLess DEF Typed, TypeOK
    <3>. QED
      BY <2>1, <3>1 DEF SetsInFlight
  <2>3. /\ pc = "idle" \/ Reading => eqStatus = NoEq \/ "undecodable" \in overlooked
        /\ pc # "read_entries"
    BY <2>2 DEF Ranked, Current, Evidence
  <2>4. ASSUME pc = "read_current", NEW i \in DOMAIN down', Answers(down'[i], want)
        PROVE  FALSE
    <3>1. NoEq \in Values /\ Head(up).command \in {"SET_EQ", "SET_EQ_DETAIL"}
      BY <2>1 DEF Values, SetCommands
    <3>2. \/ i \in DOMAIN down /\ down'[i] = down[i]
          \/ down'[i].command \in {"RESPONSE_SET_EQ", "RESPONSE_SET_EQ_DETAIL"}
      BY <2>1, <3>1, AnsweredBehind, Responses
    <3>3. down'[i].command = "RESPONSE_EQ" /\ down'[i].sequence = want.sequence
      BY <2>4 DEF Answers, Typed, Stages
    <3>4. i \in DOMAIN down /\ down[i].sequence = want.sequence
      BY <3>2, <3>3
    <3>. QED
      BY <2>2, <2>4, <3>4 DEF Ranked, Ordered
  <2>. QED
    BY <2>1, <2>3, <2>4 DEF Follows, Reading
<1>3. ASSUME NEW id \in Ids, HeyMelodySelects(id) PROVE Follows'
  <2>1. UNCHANGED <<pc, want, readId, eqStatus>>
    BY <1>3 DEF HeyMelodySelects, transaction
  <2>2. CASE ~(open /\ subscribed)
    <3>1. overlooking' # {} /\ overlooked' # {}
      BY <1>3, <2>2 DEF HeyMelodySelects
    <3>. QED
      BY <3>1, <2>1 DEF Follows, Noticed, Reading
  <2>3. CASE open /\ subscribed
    <3>. DEFINE notice == [command |-> "NOTIFY_EQ", sequence |-> 0, value |-> id,
                           asOf |-> HandledWrites]
    <3>1. notice.command = "NOTIFY_EQ" /\ down' = Append(down, notice)
      BY <1>3, <2>3 DEF HeyMelodySelects
    <3>2. notice \in Frame
      BY HandledTyped DEF Frame, Values, Typed
    <3>. HIDE DEF notice
    <3>3. /\ Len(down) + 1 \in DOMAIN down' /\ down'[Len(down) + 1] = notice
      BY <3>1, <3>2, OneMoreFrame DEF Typed, TypeOK
    <3>4. ~Answers(notice, want) /\ Announcement(notice)
      BY <3>1, WantIsResponse DEF Answers, Announcement
    <3>5. Noticed'
      <4>1. Answers(notice, want') = Answers(notice, want)
        BY <2>1
      <4>. QED
        BY <3>3, <3>4, <4>1 DEF Noticed, Unheard, Announcement
    <3>. QED
      BY <3>5 DEF Follows
  <2>. QED
    BY <2>2, <2>3
<1>. QED
  BY <1>1, <1>2, <1>3 DEF Outside

\* A receive hands every announcement it takes to the command, the reply excepted.
LEMMA HeardOrLeft ==
    ASSUME Typed, Unheard, pc # "idle", NEW n \in 0..Len(down), down' = Unread(down, n)
    PROVE  \/ AnnouncesEq(Others(Chunk(down, n), want))
           \/ \E j \in DOMAIN down' : Announcement(down'[j]) /\ ~Answers(down'[j], want)
<1>1. PICK k \in DOMAIN down : Announcement(down[k]) /\ ~Answers(down[k], want)
  BY DEF Unheard
<1>2. /\ Chunk(down, n) \in Seq(Frame) /\ DOMAIN Chunk(down, n) = 1..n
      /\ \A i \in 1..n : Chunk(down, n)[i] = down[i]
      /\ DOMAIN Unread(down, n) = 1..(Len(down) - n)
      /\ \A i \in 1..(Len(down) - n) : Unread(down, n)[i] = down[n + i]
      /\ k \in 1..Len(down) /\ Len(down) \in Nat
  BY ReceiveStep DEF Typed
<1>. DEFINE chunk == Chunk(down, n)
<1>3. CASE k <= n
  <2>1. k \in DOMAIN chunk /\ chunk[k] = down[k] /\ chunk \in Seq(Frame)
    BY <1>2, <1>3
  <2>. HIDE DEF chunk
  <2>2. PICK j \in DOMAIN Others(chunk, want) : Others(chunk, want)[j] = down[k]
    BY <1>1, <2>1, OtherFrames
  <2>3. AnnouncesEq(Others(chunk, want))
    BY <1>1, <2>2 DEF AnnouncesEq, Announcement
  <2>. QED
    BY <2>3 DEF chunk
<1>4. CASE ~(k <= n)
  <2>1. k - n \in 1..(Len(down) - n) /\ n + (k - n) = k
    BY <1>2, <1>4
  <2>2. k - n \in DOMAIN down' /\ down'[k - n] = down[k]
    BY <1>2, <2>1
  <2>. QED
    BY <1>1, <2>2
<1>. QED
  BY <1>3, <1>4

\* What was noticed before the reply is noticed behind it.
Left == overlooking' # {} \/ \E j \in DOMAIN down' : Announcement(down'[j])

LEMMA ReplyLeaves ==
    ASSUME Typed, NEW phase, phase # "idle", NEW n \in 1..Len(down), NEW i \in 1..n,
           Received(phase, n, i)
    PROVE  Noticed => Left
<1>1. /\ pc = phase /\ down' = Unread(down, n) /\ overlooking \subseteq overlooking'
      /\ AnnouncesEq(Others(Chunk(down, n), want)) => "during_command" \in overlooking'
  BY DEF Received
<1>2. n \in 0..Len(down)
  <2>1. Len(down) \in Nat
    BY LenProperties DEF Typed, TypeOK
  <2>. QED
    BY <2>1
<1>3. Unheard => Left
  <2>. SUFFICES ASSUME Unheard PROVE Left
    OBVIOUS
  <2>1. \/ AnnouncesEq(Others(Chunk(down, n), want))
        \/ \E j \in DOMAIN down' : Announcement(down'[j]) /\ ~Answers(down'[j], want)
    BY <1>1, <1>2, HeardOrLeft
  <2>. QED
    BY <1>1, <2>1 DEF Left, Announcement
<1>4. overlooking # {} => Left
  BY <1>1 DEF Left
<1>. QED
  BY <1>3, <1>4 DEF Noticed

\* The next request is not answered by what has arrived.
LEMMA SentUnanswered ==
    ASSUME Typed, Kept, NEW command \in {"QUERY_EQ", "QUERY_EQ_ALL"}, NEW phase \in Phases,
           Send(command, NoEq, phase)
    PROVE  /\ \A j \in DOMAIN down' : ~Answers(down'[j], want')
           /\ Left => Noticed'
<1>1. command \in Commands /\ NoEq \in Values /\ phase # "idle"
  BY DEF Commands, Values, Phases
<1>2. /\ want' = [command |-> ResponseTo[command], sequence |-> sequence] /\ pc' = phase
      /\ \A i \in DOMAIN down : down[i].sequence # sequence
  BY <1>1, SendStep DEF Typed
<1>3. \A j \in DOMAIN down' : ~Answers(down'[j], want')
  BY <1>2 DEF Kept, Answers
<1>. QED
  BY <1>1, <1>2, <1>3 DEF Left, Noticed, Unheard, Announcement

\* Nothing is sent and nothing cached is replaced.
LEMMA EndsFollowing ==
    ASSUME Follows, pc' = "idle", selected' = selected, eqStatus' = eqStatus,
           overlooked \subseteq overlooked', pc = "idle" \/ Reading,
           Noticed => overlooked' # {} \/ \E j \in DOMAIN down' : Announcement(down'[j])
    PROVE  Follows'
BY DEF Follows, Noticed, Unheard, Announcement, Reading

LEMMA ReplyFollows ==
    ASSUME Typed, Ranked, Follows, NEW n \in 1..Len(down), NEW i \in 1..n,
           \/ ReceiveCurrent(n, i)
           \/ ReceiveStatus(n, i)
           \/ ReceiveTarget(n, i)
           \/ ReceiveRejected(n, i)
           \/ ReceiveAck(n, i)
           \/ ReceiveVerify(n, i)
           \/ WriteSucceeds(n, i)
    PROVE  Follows'
<1>1. ASSUME NEW phase, phase # "idle", Received(phase, n, i)
      PROVE  /\ pc = phase /\ Kept /\ selected' = selected
             /\ i \in DOMAIN down /\ Answers(down[i], want)
             /\ Noticed => Left
  <2>1. pc = phase /\ Kept /\ UNCHANGED earbuds /\ i \in DOMAIN down /\ Answers(down[i], want)
    BY <1>1, ReceivedStep
  <2>2. Noticed => Left
    BY <1>1, ReplyLeaves
  <2>. QED
    BY <2>1, <2>2 DEF earbuds
<1>2. CASE pc' \notin {"idle", "read_current", "read_entries"}
  BY <1>2 DEF Follows, Reading
<1>3. CASE eqStatus' = NoEq /\ pc' = "idle"
  BY <1>3 DEF Follows, Reading
<1>4. CASE ReceiveCurrent(n, i) /\ pc' = "read_entries"
  <2>1. /\ Received("read_current", n, i) /\ Send("QUERY_EQ_ALL", NoEq, "read_entries")
        /\ readId' = down[i].value /\ UNCHANGED cache
    BY <1>4 DEF ReceiveCurrent, Send
  <2>2. pc = "read_current" /\ Kept /\ selected' = selected
        /\ i \in DOMAIN down /\ Answers(down[i], want) /\ (Noticed => Left)
    BY <1>1, <2>1
  <2>3. Noticed => Noticed'
    BY <2>1, <2>2, SentUnanswered, PhaseNames
  <2>4. down[i].value = selected \/ Noticed
    BY <2>2 DEF Follows
  <2>. QED
    BY <1>4, <2>1, <2>2, <2>3, <2>4 DEF Follows, Reading, cache
<1>5. CASE ReceiveStatus(n, i)
  <2>1. /\ Received("read_entries", n, i) /\ pc' = "idle" /\ eqStatus'.id = readId
        /\ overlooked' = overlooking'
    BY <1>5 DEF ReceiveStatus
  <2>2. pc = "read_entries" /\ selected' = selected /\ (Noticed => Left)
    BY <1>1, <2>1
  <2>3. readId = selected \/ Noticed
    BY <2>2 DEF Follows
  <2>. QED
    BY <2>1, <2>2, <2>3 DEF Follows, Noticed, Unheard, Announcement, Left
<1>6. CASE ReceiveRejected(n, i)
  <2>1. /\ Received("read_entries", n, i) /\ pc' = "idle" /\ eqStatus' = eqStatus
        /\ overlooked' = overlooked \cup overlooking'
    BY <1>6 DEF ReceiveRejected
  <2>2. pc = "read_entries" /\ selected' = selected /\ (Noticed => Left)
    BY <1>1, <2>1
  <2>. QED
    BY <2>1, <2>2, EndsFollowing DEF Left, Reading
<1>7. \/ ReceiveTarget(n, i) \/ ReceiveAck(n, i) \/ ReceiveVerify(n, i)
         => pc' \notin {"idle", "read_current", "read_entries"}
  BY DEF ReceiveTarget, ReceiveAck, ReceiveVerify, Verify, Send
<1>8. ReceiveCurrent(n, i) => pc' \in {"read_entries", "confirm_entries"}
  BY DEF ReceiveCurrent, Send
<1>9. WriteSucceeds(n, i) => eqStatus' = NoEq /\ pc' = "idle"
  BY DEF WriteSucceeds, ForgetEq
<1>. QED
  BY <1>2, <1>3, <1>4, <1>5, <1>6, <1>7, <1>8, <1>9

LEMMA CommandFollows == Typed /\ Ranked /\ Follows /\ Command => Follows'
<1>. SUFFICES ASSUME Typed, Ranked, Follows, Command PROVE Follows'
  OBVIOUS
<1>1. ASSUME NEW kind, NEW target, Begin(kind, target) PROVE Follows'
  <2>1. /\ pc = "idle" /\ Send("QUERY_EQ", NoEq, "read_current") /\ Kept
        /\ selected' = selected
    BY <1>1, SameKept DEF Begin, earbuds
  <2>2. pc' = "read_current" /\ (\A j \in DOMAIN down' : ~Answers(down'[j], want'))
        /\ (Left => Noticed')
    BY <2>1, SentUnanswered, PhaseNames DEF Send
  <2>3. \/ eqStatus' = NoEq
        \/ UNCHANGED <<eqStatus, overlooked, down>>
    BY <1>1 DEF Begin, KeepEq, ForgetEq, cache
  <2>4. down' = down => (Noticed => Noticed')
    BY <2>1, <2>2 DEF Noticed, Unheard, Left
  <2>. QED
    BY <2>1, <2>2, <2>3, <2>4 DEF Follows, Reading
<1>2. CASE Reply
  BY <1>2, ReplyFollows DEF Reply
<1>3. ASSUME NEW n \in 1..Len(down), ReceiveOthers(n) PROVE Follows'
  <2>1. n \in 0..Len(down)
    <3>1. Len(down) \in Nat
      BY LenProperties DEF Typed, TypeOK
    <3>. QED
      BY <3>1
  <2>2. /\ pc # "idle" /\ down' = Unread(down, n) /\ overlooking \subseteq overlooking'
        /\ Others(Chunk(down, n), want) = Chunk(down, n)
        /\ AnnouncesEq(Chunk(down, n)) => "during_command" \in overlooking'
        /\ UNCHANGED <<selected, pc, want, readId, eqStatus, overlooked>>
    BY <1>3 DEF ReceiveOthers, Others, earbuds, transaction, cache
  <2>3. Kept
    BY <2>1, <2>2, UnreadKept
  <2>4. Noticed => Noticed'
    <3>1. ASSUME NEW j \in DOMAIN down', Announcement(down'[j]) /\ ~Answers(down'[j], want)
          PROVE  Unheard'
      BY <2>2, <3>1 DEF Unheard, Announcement
    <3>. QED
      BY <2>1, <2>2, <3>1, HeardOrLeft DEF Noticed
  <2>5. \A j \in DOMAIN down' : Answers(down'[j], want') =>
           \E k \in DOMAIN down : Answers(down[k], want) /\ down'[j] = down[k]
    BY <2>2, <2>3 DEF Kept
  <2>. QED
    BY <2>2, <2>4, <2>5 DEF Follows, Reading
<1>4. CASE AckTimeout
  BY <1>4 DEF AckTimeout, Verify, Send, Follows, Reading
<1>5. CASE WriteFails
  BY <1>5 DEF WriteFails, ForgetEq, Follows, Reading
<1>6. CASE StatusFails
  <2>1. Reading /\ pc' = "idle" /\ UNCHANGED <<selected, eqStatus, down>>
        /\ overlooked' = overlooked \cup overlooking
    BY <1>6 DEF StatusFails, Typed, Stages, earbuds, link
  <2>. QED
    BY <2>1, EndsFollowing DEF Noticed, Unheard
<1>7. ASSUME NEW n, Undecodable(n) PROVE Follows'
  BY <1>7 DEF Undecodable, Follows, Reading
<1>. QED
  BY <1>1, <1>2, <1>3, <1>4, <1>5, <1>6, <1>7 DEF Command

LEMMA MonitoringFollows == Typed /\ Ranked /\ Follows /\ Monitoring => Follows'
<1>. SUFFICES ASSUME Typed, Ranked, Follows, Monitoring PROVE Follows'
  OBVIOUS
<1>1. pc = "idle" /\ pc' = "idle"
  BY DEF Monitoring, Poll, AncReceives, Refresh, AncClosesSession, AncReopensSession, transaction
<1>2. CASE eqStatus' = NoEq
  BY <1>1, <1>2 DEF Follows, Reading
<1>3. ASSUME NEW n \in 0..Len(down), Poll(n) \/ AncReceives(n), ~AnnouncesEq(Chunk(down, n))
      PROVE  Follows'
  <2>1. UNCHANGED <<selected, eqStatus, overlooked>> /\ down' = Unread(down, n)
    BY <1>3 DEF Poll, AncReceives, KeepEq, cache, earbuds
  <2>2. Noticed => \E j \in DOMAIN down' : Announcement(down'[j])
    <3>1. SUFFICES ASSUME NEW k \in DOMAIN down, Announcement(down[k])
                   PROVE  \E j \in DOMAIN down' : Announcement(down'[j])
      BY <1>1 DEF Noticed, Unheard
    <3>2. /\ DOMAIN Chunk(down, n) = 1..n /\ \A i \in 1..n : Chunk(down, n)[i] = down[i]
          /\ DOMAIN Unread(down, n) = 1..(Len(down) - n)
          /\ \A i \in 1..(Len(down) - n) : Unread(down, n)[i] = down[n + i]
          /\ k \in 1..Len(down) /\ Len(down) \in Nat
      BY ReceiveStep DEF Typed
    <3>3. ~(k <= n)
      BY <1>3, <3>1, <3>2 DEF AnnouncesEq, Announcement
    <3>4. k - n \in 1..(Len(down) - n) /\ n + (k - n) = k
      BY <3>2, <3>3
    <3>5. k - n \in DOMAIN down' /\ down'[k - n] = down[k]
      BY <2>1, <3>2, <3>4
    <3>. QED
      BY <3>1, <3>5
  <2>. QED
    BY <1>1, <2>1, <2>2, EndsFollowing
<1>4. CASE AncClosesSession
  <2>1. /\ eqStatus' = eqStatus /\ overlooked \subseteq overlooked' /\ CloseSocket
        /\ AnnouncesEq(down) => overlooked' # {}
    BY <1>4 DEF AncClosesSession
  <2>2. Noticed => AnnouncesEq(down)
    BY <1>1 DEF Noticed, Unheard, AnnouncesEq, Announcement
  <2>3. SetsInFlight = {} => selected' = selected
    <3>1. \/ selected' = selected
          \/ \E j \in SetsInFlight : up[j].command = "SET_EQ" /\ selected' = up[j].value
          \/ \E j \in SetsInFlight : up[j].command = "SET_EQ_DETAIL"
      BY <2>1 DEF CloseSocket
    <3>. QED
      BY <3>1
  <2>4. SUFFICES ASSUME eqStatus # NoEq, overlooked' = {} PROVE eqStatus'.id = selected'
    BY <1>1, <2>1 DEF Follows, Reading
  <2>5. overlooked = {} /\ ~Noticed
    BY <2>1, <2>2, <2>4
  <2>6. SetsInFlight = {}
    BY <1>1, <2>4, <2>5 DEF Ranked, Current
  <2>7. eqStatus.id = selected
    BY <1>1, <2>4, <2>5 DEF Follows
  <2>. QED
    BY <2>1, <2>3, <2>6, <2>7
<1>5. CASE AncReopensSession
  <2>1. UNCHANGED <<selected, eqStatus, overlooked, down>>
    BY <1>5 DEF AncReopensSession, link, cache
  <2>. QED
    BY <1>1, <2>1, EndsFollowing DEF Noticed, Unheard
<1>6. \A n : Poll(n) /\ AnnouncesEq(Chunk(down, n)) => eqStatus' = NoEq
  BY DEF Poll, ForgetEq
<1>7. \A n : AncReceives(n) /\ AnnouncesEq(Chunk(down, n)) =>
                eqStatus' = NoEq \/ overlooked' # {}
  BY DEF AncReceives, ForgetEq
<1>8. CASE overlooked' # {}
  BY <1>1, <1>8 DEF Follows, Reading
<1>9. \A connected : Refresh(connected) => eqStatus' = NoEq
  BY DEF Refresh, ForgetEq
<1>. QED
  <2>1. 1..Len(down) \subseteq 0..Len(down)
    BY DEF Typed, TypeOK
  <2>. QED
    BY <1>2, <1>3, <1>4, <1>5, <1>6, <1>7, <1>8, <1>9, <2>1 DEF Monitoring

LEMMA NextFollows == Typed /\ Ranked /\ Follows /\ [Next]_vars => Follows'
<1>1. Follows /\ UNCHANGED vars => Follows'
  <2>1. UNCHANGED vars => UNCHANGED <<selected, down, pc, want, readId, eqStatus, overlooked,
                                      overlooking>>
    BY DEF vars, earbuds, link, transaction, cache
  <2>. QED
    BY <2>1 DEF Follows, Reading, Noticed, Unheard, Announcement
<1>. QED
  BY <1>1, OutsideFollows, CommandFollows, MonitoringFollows DEF Next

\* Once nothing is in flight the cached selection is the earbuds' own, unless a change
\* was made while they did not announce it, or its announcement was received by a
\* command, lost with a socket or to an undecodable frame, or dropped by a noise-control
\* command that received too many events: no interleaving of queries, late replies, failed
\* reads, abandoned SETs and selections on the phone adds a cause.
THEOREM StaleEqAlwaysHasCause == Spec => []StaleEqHasCause
<1>1. Init => Follows
  BY InitFollows
<1>2. Typed /\ Ranked /\ Follows /\ [Next]_vars => Follows'
  BY NextFollows
<1>3. Follows => StaleEqHasCause
  BY DEF Follows, StaleEqHasCause, Quiet, Noticed, Unheard, AnnouncesEq, Announcement
<1>. QED
  BY <1>1, <1>2, <1>3, AlwaysRanked, PTL DEF Spec
==============================================================================
