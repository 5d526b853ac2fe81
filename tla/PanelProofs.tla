------------------------------ MODULE PanelProofs ------------------------------
(***************************************************************************)
(* Panel for any widgets, pipe, requests and generations.                  *)
(*                                                                         *)
(* PendingIsUnderWay speaks of places, of which there are any number.      *)
(* What makes them distinct is the order in which ids pass through the     *)
(* helper: answers in the pipe, then the command the reader executes, then *)
(* the lines it has not taken, each with a larger id than the one before.  *)
(***************************************************************************)
EXTENDS Panel, SequenceTheorems, TLAPS

Link == INSTANCE OpoWireProofs WITH LastSequence <- 1

------------------------------------------------------------------------------
(* The inductive invariant.                                                *)

Busy == reader.at \in {"execute", "second_read", "snapshot", "write"}

\* A response, wherever it is.
IsResponse(message) == message.type = "response"

\* Requests and answers pass through the helper in the order of their ids.
InOrder ==
    /\ \A i, j \in DOMAIN stdin : i < j => stdin[i].id < stdin[j].id
    /\ \A i \in DOMAIN stdin : stdin[i].id < nextRequestId
    /\ Busy => /\ reader.line.id < nextRequestId
               /\ \A i \in DOMAIN stdin : reader.line.id < stdin[i].id
    /\ \A i, j \in DOMAIN stdout :
          i < j /\ IsResponse(stdout[i]) /\ IsResponse(stdout[j]) => stdout[i].id < stdout[j].id
    /\ \A i \in DOMAIN stdout : IsResponse(stdout[i]) =>
          /\ stdout[i].id < nextRequestId
          /\ Busy => stdout[i].id < reader.line.id
          /\ \A j \in DOMAIN stdin : stdout[i].id < stdin[j].id

\* A command ends with one response, to the request it was taken from.
Answers ==
    /\ reader.at # "write" => reader.messages = <<>>
    /\ reader.at = "write" =>
          /\ reader.messages # <<>>
          /\ \A i \in DOMAIN reader.messages :
                IsResponse(reader.messages[i]) <=> i = Len(reader.messages)
          /\ reader.messages[Len(reader.messages)].id = reader.line.id
    /\ \A i \in DOMAIN runner : ~IsResponse(runner[i])

\* A request or an answer that is on its way.
UnderWay(id) ==
    \/ \E i \in DOMAIN stdin : stdin[i].id = id
    \/ Busy /\ reader.line.id = id
    \/ \E i \in DOMAIN stdout : IsResponse(stdout[i]) /\ stdout[i].id = id

AwaitedBy(id) == {w \in Widgets : widget[w].pending = id}

\* It is what one widget waits for; and what is waited for is under way while the
\* helper is not told to end.
Awaited ==
    /\ \A id \in Ids : UnderWay(id) => AwaitedBy(id) # {}
    /\ \A v, w \in Widgets : widget[v].pending = widget[w].pending /\ widget[v].pending # 0 => v = w
    /\ \A w \in Widgets, id \in Ids : widget[w].pending = id =>
          /\ id < nextRequestId
          /\ id = last[w]
          /\ ~cancelled => UnderWay(id)
    /\ helper # "running" => cancelled

IsVerified(id) == verifiedAt[id] # 0

\* What says so was verified.
Verified ==
    /\ reader.at = "second_read" => IsVerified(reader.line.id)
    /\ reader.at = "snapshot" /\ reader.line.kind \in Writes => IsVerified(reader.line.id)
    /\ \A i \in DOMAIN reader.messages :
          IsResponse(reader.messages[i]) /\ reader.messages[i].verified
             => IsVerified(reader.messages[i].id)
    /\ \A i \in DOMAIN stdout :
          IsResponse(stdout[i]) /\ stdout[i].verified => IsVerified(stdout[i].id)
    /\ OutcomeIsOwn

Ordered == TypeOK /\ InOrder /\ Answers /\ Awaited /\ Verified

------------------------------------------------------------------------------
(* Lines and messages.                                                     *)

LEMMA MessageFields ==
    ASSUME NEW message \in Message
    PROVE  /\ message.type \in {"connection", "snapshot", "response"}
           /\ message.type = "connection" => message.connection \in Connections
           /\ message.type = "snapshot" => message.generation \in Nat
           /\ message.type = "response" =>
                 message.id \in Ids /\ message.ok \in BOOLEAN /\ message.verified \in BOOLEAN
BY DEF Message

LEMMA MessagesSent ==
    ASSUME reader.line.id \in Ids
    PROVE  /\ \A c \in Connections : Connection(c) \in Message /\ ~IsResponse(Connection(c))
           /\ \A g \in Nat : Snapshot(g) \in Message /\ ~IsResponse(Snapshot(g))
           /\ \A ok, verified \in BOOLEAN :
                 /\ Response(ok, verified) \in Message
                 /\ IsResponse(Response(ok, verified))
                 /\ Response(ok, verified).id = reader.line.id
                 /\ Response(ok, verified).verified = verified
<1>1. \A c \in Connections : Connection(c) \in Message /\ ~IsResponse(Connection(c))
  BY DEF Connection, Message, IsResponse
<1>2. \A g \in Nat : Snapshot(g) \in Message /\ ~IsResponse(Snapshot(g))
  BY DEF Snapshot, Message, IsResponse
<1>3. \A ok, verified \in BOOLEAN : Response(ok, verified) \in Message
  BY DEF Response, Message
<1>4. \A ok, verified \in BOOLEAN :
         /\ IsResponse(Response(ok, verified))
         /\ Response(ok, verified).id = reader.line.id
         /\ Response(ok, verified).verified = verified
  BY DEF Response, IsResponse
<1>. QED
  BY <1>1, <1>2, <1>3, <1>4

\* One more at the end of a queue, one less at its head.
LEMMA OneMore ==
    ASSUME NEW S, NEW queue \in Seq(S), NEW element \in S
    PROVE  /\ Append(queue, element) \in Seq(S)
           /\ DOMAIN Append(queue, element) = 1..(Len(queue) + 1)
           /\ \A i \in DOMAIN queue : Append(queue, element)[i] = queue[i]
           /\ Append(queue, element)[Len(queue) + 1] = element
           /\ DOMAIN queue = 1..Len(queue) /\ Len(queue) \in Nat
           /\ Len(Append(queue, element)) = Len(queue) + 1
BY Link!OneMoreFrame, 1 \in Nat \ {0}

LEMMA OneLess ==
    ASSUME NEW S, NEW queue \in Seq(S), queue # <<>>
    PROVE  /\ Head(queue) \in S /\ Head(queue) = queue[1] /\ 1 \in DOMAIN queue
           /\ Tail(queue) \in Seq(S)
           /\ Len(queue) \in Nat \ {0} /\ Len(Tail(queue)) = Len(queue) - 1
           /\ DOMAIN Tail(queue) = 1..(Len(queue) - 1)
           /\ \A i \in DOMAIN Tail(queue) :
                 Tail(queue)[i] = queue[i + 1] /\ i + 1 \in DOMAIN queue
BY Link!OneFrameLess, 1 \in Nat \ {0}

LEMMA QueueTypes ==
    ASSUME TypeOK
    PROVE  /\ stdin \in Seq(Line) /\ stdout \in Seq(Message) /\ runner \in Seq(Message)
           /\ reader.messages \in Seq(Message) /\ reader.line \in Line
           /\ reader.line.id \in Ids /\ reader.line.kind \in Kinds
           /\ \A i \in DOMAIN stdin : stdin[i] \in Line /\ stdin[i].id \in Ids
           /\ \A i \in DOMAIN stdout : stdout[i] \in Message
           /\ \A i \in DOMAIN reader.messages : reader.messages[i] \in Message
           /\ DOMAIN stdin = 1..Len(stdin) /\ Len(stdin) \in Nat
           /\ DOMAIN stdout = 1..Len(stdout) /\ Len(stdout) \in Nat
           /\ DOMAIN runner = 1..Len(runner) /\ Len(runner) \in Nat
           /\ DOMAIN reader.messages = 1..Len(reader.messages) /\ Len(reader.messages) \in Nat
<1>1. /\ stdin \in Seq(Line) /\ stdout \in Seq(Message) /\ runner \in Seq(Message)
      /\ reader.messages \in Seq(Message) /\ reader.line \in Line
  BY DEF TypeOK
<1>2. /\ DOMAIN stdin = 1..Len(stdin) /\ Len(stdin) \in Nat
      /\ DOMAIN stdout = 1..Len(stdout) /\ Len(stdout) \in Nat
      /\ DOMAIN runner = 1..Len(runner) /\ Len(runner) \in Nat
      /\ DOMAIN reader.messages = 1..Len(reader.messages) /\ Len(reader.messages) \in Nat
  BY <1>1, LenProperties
<1>3. /\ \A i \in 1..Len(stdin) : stdin[i] \in Line
      /\ \A i \in 1..Len(stdout) : stdout[i] \in Message
      /\ \A i \in 1..Len(reader.messages) : reader.messages[i] \in Message
  BY <1>1, ElementOfSeq
<1>4. \A line \in Line : line.id \in Ids /\ line.kind \in Kinds
  BY DEF Line
<1>. QED
  BY <1>1, <1>2, <1>3, <1>4

------------------------------------------------------------------------------
(* Types.                                                                  *)

Widget == [pending : {0} \cup Ids, kind : {""} \cup Kinds, outcome : {"", "verified", "error"}]

Stages == {"wait", "execute", "second_read", "snapshot", "write", "end"}
Reader == [at : Stages, line : Line, messages : Seq(Message)]

LEMMA Types ==
    TypeOK <=> /\ helper \in {"running", "closing", "gone", "exited"}
               /\ stdin \in Seq(Line)
               /\ stdout \in Seq(Message)
               /\ Len(stdout) <= PipeSize
               /\ state \in [connection : Connections, generation : Nat]
               /\ nextRequestId \in 1..(MaxRequests + 1)
               /\ widget \in [Widgets -> Widget]
               /\ cancelled \in BOOLEAN
               /\ generation \in 0..MaxGeneration
               /\ reader \in Reader
               /\ runner \in Seq(Message)
               /\ last \in [Widgets -> {0} \cup Ids]
               /\ verifiedAt \in [Ids -> Nat]
BY DEF TypeOK, Widget, Reader, Stages

\* What a step changes of the reader.
LEMMA ReaderMoves ==
    ASSUME NEW A, NEW L, NEW M, NEW r \in [at : A, line : L, messages : M],
           NEW a \in A, NEW l \in L, NEW m \in M
    PROVE  /\ [r EXCEPT !.at = a] \in [at : A, line : L, messages : M]
           /\ [r EXCEPT !.at = a, !.line = l] \in [at : A, line : L, messages : M]
           /\ [r EXCEPT !.at = a, !.messages = m] \in [at : A, line : L, messages : M]
           /\ [r EXCEPT !.messages = m, !.at = a] \in [at : A, line : L, messages : M]
OBVIOUS

LEMMA InitTyped == Init => TypeOK
<1>. SUFFICES ASSUME Init PROVE TypeOK
  OBVIOUS
<1>1. 1 \in Ids /\ 1 \in 1..(MaxRequests + 1) /\ 0 \in 0..MaxGeneration
  BY PanelAssumption DEF Ids
<1>2. [id |-> 1, kind |-> "anc"] \in Line
  BY <1>1 DEF Line, Kinds
<1>3. reader \in Reader
  <2>1. "wait" \in Stages /\ <<>> \in Seq(Message)
    BY EmptySeq DEF Stages
  <2>2. reader = [at |-> "wait", line |-> [id |-> 1, kind |-> "anc"], messages |-> <<>>]
    BY DEF Init
  <2>. QED
    BY <1>2, <2>1, <2>2 DEF Reader
<1>4. widget \in [Widgets -> Widget]
  BY DEF Init, Widget
<1>5. stdin \in Seq(Line) /\ stdout \in Seq(Message) /\ runner \in Seq(Message)
  <2>1. stdin = <<>> /\ stdout = <<>> /\ runner = <<>>
    BY DEF Init
  <2>. QED
    BY <2>1, EmptySeq
<1>7. Len(stdout) <= PipeSize
  <2>1. Len(stdout) = 0
    BY EmptySeq DEF Init
  <2>. QED
    BY <2>1, PanelAssumption
<1>6. last \in [Widgets -> {0} \cup Ids] /\ verifiedAt \in [Ids -> Nat]
  BY DEF Init
<1>. QED
  BY <1>1, <1>3, <1>4, <1>5, <1>6, <1>7, Types DEF Init, Connections

LEMMA AsksTyped ==
    ASSUME TypeOK, Asks
    PROVE  TypeOK'
<1>. USE DEF frontend, backend
<1>1. ASSUME NEW w \in Widgets, ClearOutcome(w) PROVE TypeOK'
  <2>1. widget' \in [Widgets -> Widget]
    BY <1>1, Types DEF ClearOutcome, Widget
  <2>. QED
    BY <1>1, <2>1 DEF ClearOutcome, TypeOK, Widget
<1>2. ASSUME NEW w \in Widgets, NEW kind \in Kinds, Ask(w, kind) PROVE TypeOK'
  <2>1. UNCHANGED <<helper, stdout, state, cancelled, generation, reader, runner, verifiedAt>>
    BY <1>2 DEF Ask
  <2>2. CASE helper = "exited"
    <3>1. widget' = [widget EXCEPT ![w].outcome = IF kind = "eq_status" THEN @ ELSE "error"]
          /\ UNCHANGED <<stdin, nextRequestId, last>>
      BY <1>2, <2>2 DEF Ask, Request
    <3>2. widget \in [Widgets -> Widget]
      BY DEF TypeOK, Widget
    <3>3. widget' \in [Widgets -> Widget]
      <4>1. widget[w].outcome \in {"", "verified", "error"}
        BY <3>2 DEF Widget
      <4>. QED
        BY <3>1, <3>2, <4>1 DEF Widget
    <3>. QED
      BY <2>1, <3>1, <3>3 DEF TypeOK, Widget
  <2>3. CASE helper # "exited"
    <3>1. /\ nextRequestId <= MaxRequests /\ nextRequestId' = nextRequestId + 1
          /\ stdin' = IF Up THEN Append(stdin, [id |-> nextRequestId, kind |-> kind]) ELSE stdin
          /\ widget' = [widget EXCEPT ![w] = [pending |-> nextRequestId, kind |-> kind,
                              outcome |-> IF kind = "eq_status" THEN @.outcome ELSE ""]]
          /\ last' = [last EXCEPT ![w] = nextRequestId]
      BY <1>2, <2>3 DEF Ask, Request
    <3>2. nextRequestId \in Ids /\ nextRequestId' \in 1..(MaxRequests + 1)
      <4>1. nextRequestId \in 1..(MaxRequests + 1) /\ MaxRequests \in Nat
        BY PanelAssumption, Types
      <4>2. nextRequestId <= MaxRequests /\ nextRequestId' = nextRequestId + 1
        BY <3>1
      <4>. QED
        BY <4>1, <4>2 DEF Ids
    <3>3. [id |-> nextRequestId, kind |-> kind] \in Line
      BY <3>2 DEF Line
    <3>4. stdin' \in Seq(Line)
      <4>1. stdin \in Seq(Line)
        BY DEF TypeOK
      <4>. QED
        BY <3>1, <3>3, <4>1, OneMore
    <3>5. widget' \in [Widgets -> Widget]
      <4>1. widget \in [Widgets -> Widget] /\ widget[w].outcome \in {"", "verified", "error"}
        BY DEF TypeOK, Widget
      <4>. DEFINE value == [pending |-> nextRequestId, kind |-> kind,
                            outcome |-> IF kind = "eq_status" THEN widget[w].outcome ELSE ""]
      <4>2. value \in Widget
        BY <3>2, <4>1 DEF Widget
      <4>3. widget' = [widget EXCEPT ![w] = value]
        BY <3>1
      <4>. HIDE DEF value
      <4>. QED
        BY <4>1, <4>2, <4>3
    <3>6. last' \in [Widgets -> {0} \cup Ids]
      BY <3>1, <3>2 DEF TypeOK
    <3>. QED
      BY <2>1, <3>2, <3>4, <3>5, <3>6 DEF TypeOK, Widget
  <2>. QED
    BY <2>2, <2>3
<1>. QED
  BY <1>1, <1>2 DEF Asks

LEMMA AnsweredWidget ==
    ASSUME NEW v \in Widget, NEW response, IsResponse(response), response \in Message
    PROVE  /\ Answered(v, response) \in Widget
           /\ response.id # v.pending => Answered(v, response) = v
           /\ response.id = v.pending => Answered(v, response).pending = 0
           /\ Answered(v, response).outcome = "verified" /\ response.id = v.pending
                => response.verified
<1>1. CASE response.id # v.pending
  BY <1>1 DEF Answered
<1>2. CASE response.id = v.pending
  <2>. DEFINE said == IF response.verified THEN "verified"
                      ELSE IF response.ok /\ v.kind \in {"eq_status", "diagnostic_report"}
                      THEN "" ELSE "error"
  <2>1. Answered(v, response) = [pending |-> 0, kind |-> "", outcome |-> said]
    BY <1>2 DEF Answered
  <2>2. said \in {"", "verified", "error"}
    OBVIOUS
  <2>3. said = "verified" => response.verified
    OBVIOUS
  <2>. HIDE DEF said
  <2>4. \A o \in {"", "verified", "error"} : [pending |-> 0, kind |-> "", outcome |-> o] \in Widget
    BY DEF Widget
  <2>5. Answered(v, response).pending = 0 /\ Answered(v, response).outcome = said
    <3>1. \A o : [pending |-> 0, kind |-> "", outcome |-> o].pending = 0
                 /\ [pending |-> 0, kind |-> "", outcome |-> o].outcome = o
      OBVIOUS
    <3>. QED
      BY <2>1, <3>1, Zenon
  <2>6. Answered(v, response) \in Widget
    BY <2>1, <2>2, <2>4
  <2>. QED
    BY <1>2, <2>3, <2>5, <2>6
<1>. QED
  BY <1>1, <1>2

\* What reaches the widgets.
LEMMA HearsTyped ==
    ASSUME TypeOK, HandleLine \/ HelperExited
    PROVE  TypeOK'
<1>. USE DEF frontend, backend
<1>1. /\ stdout \in Seq(Message) /\ Len(stdout) <= PipeSize /\ PipeSize \in Nat
      /\ state \in [connection : Connections, generation : Nat]
      /\ widget \in [Widgets -> Widget]
  BY PanelAssumption DEF TypeOK, Widget
<1>2. CASE HandleLine
  <2>. DEFINE message == Head(stdout)
  <2>1. stdout # <<>> /\ stdout' = Tail(stdout)
        /\ UNCHANGED <<helper, stdin, nextRequestId, last, cancelled, generation, reader,
                       runner, verifiedAt>>
    BY <1>2 DEF HandleLine
  <2>2. message \in Message /\ stdout' \in Seq(Message) /\ Len(stdout') <= PipeSize
    BY <1>1, <2>1, OneLess
  <2>3. \/ /\ message.type = "connection"
           /\ state' = [state EXCEPT !.connection = message.connection]
           /\ UNCHANGED widget
        \/ /\ message.type = "snapshot"
           /\ state' = [state EXCEPT !.generation = message.generation]
           /\ UNCHANGED widget
        \/ /\ message.type = "response"
           /\ widget' = [w \in Widgets |-> Answered(widget[w], message)]
           /\ UNCHANGED state
    BY <1>2 DEF HandleLine
  <2>. HIDE DEF message
  <2>4. state' \in [connection : Connections, generation : Nat]
    BY <1>1, <2>2, <2>3, MessageFields
  <2>5. widget' \in [Widgets -> Widget]
    BY <1>1, <2>2, <2>3, AnsweredWidget DEF IsResponse
  <2>. QED
    BY <2>1, <2>2, <2>4, <2>5 DEF TypeOK, Widget
<1>3. CASE HelperExited
  <2>1. state' \in [connection : Connections, generation : Nat]
    BY <1>1, <1>3 DEF HelperExited, Connections
  <2>2. stdout' \in Seq(Message) /\ Len(stdout') <= PipeSize
    BY <1>1, <1>3 DEF HelperExited
  <2>. QED
    BY <1>3, <2>1, <2>2 DEF HelperExited, TypeOK
<1>. QED
  BY <1>2, <1>3

\* The messages a command or the runner publishes.
LEMMA Published ==
    ASSUME NEW a \in Message, NEW b \in Message
    PROVE  /\ <<a>> \in Seq(Message) /\ <<a, b>> \in Seq(Message)
           /\ Len(<<a>>) = 1 /\ Len(<<a, b>>) = 2
           /\ DOMAIN <<a>> = {1} /\ DOMAIN <<a, b>> = {1, 2}
           /\ <<a>>[1] = a /\ <<a, b>>[1] = a /\ <<a, b>>[2] = b
OBVIOUS

\* What the actions of the helper write.
LEMMA Wordings ==
    ASSUME TypeOK
    PROVE  /\ \A g \in Nat : Snapshot(g) \in Message
           /\ \A c \in Connections : Connection(c) \in Message
           /\ \A ok, verified \in BOOLEAN : Response(ok, verified) \in Message
BY QueueTypes, MessagesSent

LEMMA GenerationTyped ==
    ASSUME TypeOK, (UNCHANGED generation) \/ Changes
    PROVE  generation' \in 0..MaxGeneration /\ generation' \in Nat /\ generation \in Nat
           /\ (Changes => generation' # 0)
<1>1. generation \in 0..MaxGeneration /\ MaxGeneration \in Nat
  BY PanelAssumption, Types
<1>. QED
  BY <1>1 DEF Changes

LEMMA ReaderTyped ==
    ASSUME TypeOK, Answers, TakeLine \/ Execute \/ ReaderWrites
    PROVE  TypeOK'
<1>. USE DEF frontend, Reads
<1>1. reader \in Reader /\ stdin \in Seq(Line) /\ stdout \in Seq(Message)
      /\ reader.messages \in Seq(Message) /\ reader.line \in Line
      /\ reader.line.id \in Ids
  BY Types, QueueTypes
<1>2. CASE TakeLine
  <2>1. stdin' \in Seq(Line) /\ Head(stdin) \in Line
    BY <1>1, <1>2, OneLess DEF TakeLine
  <2>2. reader' \in Reader
    <3>1. (IF cancelled THEN "end" ELSE "execute") \in Stages
      BY DEF Stages
    <3>2. reader' = [reader EXCEPT !.at = IF cancelled THEN "end" ELSE "execute",
                                   !.line = Head(stdin)]
      BY <1>2 DEF TakeLine
    <3>. QED
      BY <1>1, <2>1, <3>1, <3>2, ReaderMoves DEF Reader
  <2>. QED
    BY <1>2, <2>1, <2>2 DEF TakeLine, TypeOK, Reader, Stages
<1>3. CASE Execute
  <2>1. ASSUME NEW messages \in Seq(Message), Answer(messages) PROVE reader' \in Reader
    <3>1. "write" \in Stages
      BY DEF Stages
    <3>. QED
      BY <1>1, <2>1, <3>1, ReaderMoves DEF Answer, Reader
  <2>2. ASSUME NEW at \in Stages, reader' = [reader EXCEPT !.at = at] PROVE reader' \in Reader
    BY <1>1, <2>2, ReaderMoves DEF Reader
  <2>3. /\ UNCHANGED <<helper, stdin, stdout, state, nextRequestId, widget, last, cancelled, runner>>
        /\ UNCHANGED generation \/ Changes
        /\ verifiedAt' = verifiedAt \/ (Changes /\ Verify)
        /\ reader' \in Reader
    <3>1. CASE CommandFails
      <4>1. <<Response(FALSE, FALSE)>> \in Seq(Message)
        BY Wordings, Published
      <4>. QED
        BY <2>1, <3>1, <4>1 DEF CommandFails
    <3>2. CASE SetAnc
      <4>1. generation' \in Nat
        BY <3>2, GenerationTyped DEF SetAnc
      <4>2. <<Snapshot(generation'), Response(TRUE, TRUE)>> \in Seq(Message)
        BY <4>1, Wordings, Published
      <4>. QED
        BY <2>1, <3>2, <4>2 DEF SetAnc
    <3>3. CASE SetEq
      <4>1. "second_read" \in Stages
        BY DEF Stages
      <4>. QED
        BY <2>2, <3>3, <4>1 DEF SetEq
    <3>4. CASE EqStatus
      <4>1. "snapshot" \in Stages
        BY DEF Stages
      <4>. QED
        BY <2>2, <3>4, <4>1 DEF EqStatus
    <3>5. CASE SecondReadFails
      <4>1. <<Response(FALSE, FALSE)>> \in Seq(Message)
        BY Wordings, Published
      <4>. QED
        BY <2>1, <3>5, <4>1 DEF SecondReadFails
    <3>6. CASE TakeSnapshot
      <4>1. generation \in Nat /\ (reader.line.kind \in Writes) \in BOOLEAN
        BY GenerationTyped, <3>6 DEF TakeSnapshot
      <4>2. <<Snapshot(generation), Response(TRUE, reader.line.kind \in Writes)>> \in Seq(Message)
        BY <4>1, Wordings, Published
      <4>. QED
        BY <2>1, <3>6, <4>2 DEF TakeSnapshot
    <3>7. CASE SaveReport
      <4>1. <<Response(TRUE, FALSE)>> \in Seq(Message)
        BY Wordings, Published
      <4>. QED
        BY <2>1, <3>7, <4>1 DEF SaveReport
    <3>. QED
      BY <1>3, <3>1, <3>2, <3>3, <3>4, <3>5, <3>6, <3>7 DEF Execute
  <2>4. generation' \in 0..MaxGeneration /\ generation' \in Nat
    BY <2>3, GenerationTyped
  <2>5. verifiedAt' \in [Ids -> Nat]
    BY <1>1, <2>3, <2>4, Types DEF Verify
  <2>. QED
    BY <2>3, <2>4, <2>5 DEF TypeOK, Reader, Stages
<1>4. CASE ReaderWrites
  <2>1. /\ reader.at = "write" /\ Len(stdout) < PipeSize
        /\ stdout' = Append(stdout, Head(reader.messages))
        /\ reader' = [reader EXCEPT !.messages = Tail(@),
                                    !.at = IF Len(reader.messages) = 1 THEN "wait" ELSE @]
        /\ UNCHANGED <<helper, stdin, state, nextRequestId, widget, last, cancelled, generation,
                       runner, verifiedAt>>
    BY <1>4 DEF ReaderWrites
  <2>2. /\ Head(reader.messages) \in Message /\ Tail(reader.messages) \in Seq(Message)
    BY <1>1, <2>1, OneLess DEF Answers
  <2>3. stdout' \in Seq(Message) /\ Len(stdout') <= PipeSize
    <3>1. Len(stdout') = Len(stdout) + 1 /\ stdout' \in Seq(Message) /\ Len(stdout) \in Nat
      BY <1>1, <2>1, <2>2, OneMore
    <3>. QED
      BY <2>1, <3>1, PanelAssumption
  <2>4. reader' \in Reader
    <3>. DEFINE at == IF Len(reader.messages) = 1 THEN "wait" ELSE reader.at
    <3>1. at \in Stages
      BY <1>1 DEF Reader, Stages
    <3>2. reader' = [reader EXCEPT !.messages = Tail(reader.messages), !.at = at]
      BY <1>1, <2>1 DEF Reader
    <3>. HIDE DEF at
    <3>. QED
      BY <1>1, <2>2, <3>1, <3>2, ReaderMoves DEF Reader
  <2>. QED
    BY <2>1, <2>3, <2>4 DEF TypeOK, Reader, Stages
<1>. QED
  BY <1>2, <1>3, <1>4

LEMMA RunnerTyped ==
    ASSUME TypeOK, Poll \/ Reconnect \/ RunnerWrites \/ Cancel \/ Shutdown \/ HelperEnds
    PROVE  TypeOK'
<1>. USE DEF frontend, backend
<1>1. /\ stdout \in Seq(Message) /\ runner \in Seq(Message)
      /\ Connection("connected") \in Message /\ Connection("disconnected") \in Message
      /\ Connection("stopped") \in Message
  BY Types, Wordings DEF Connections
<1>2. CASE Poll \/ Reconnect \/ Shutdown
  <2>1. /\ UNCHANGED <<stdin, stdout, state, nextRequestId, widget, last, cancelled, reader,
                       verifiedAt>>
        /\ UNCHANGED generation \/ Changes
        /\ helper' \in {helper, "closing"}
        /\ \/ runner' = <<Snapshot(generation')>>
           \/ runner' = <<Snapshot(generation'), Connection("disconnected")>>
           \/ runner' = <<Connection("connected"), Snapshot(generation')>>
           \/ runner' = <<Connection("stopped"), Snapshot(generation')>>
    BY <1>2 DEF Poll, Reconnect, Shutdown
  <2>2. generation' \in 0..MaxGeneration /\ generation' \in Nat
    BY <2>1, GenerationTyped
  <2>3. Snapshot(generation') \in Message
    BY <2>2, Wordings
  <2>4. runner' \in Seq(Message)
    <3>1. <<Snapshot(generation')>> \in Seq(Message)
      BY <2>3, Published
    <3>2. /\ <<Snapshot(generation'), Connection("disconnected")>> \in Seq(Message)
          /\ <<Connection("connected"), Snapshot(generation')>> \in Seq(Message)
          /\ <<Connection("stopped"), Snapshot(generation')>> \in Seq(Message)
      BY <1>1, <2>3, Published
    <3>. QED
      BY <2>1, <3>1, <3>2
  <2>. QED
    BY <2>1, <2>2, <2>4 DEF TypeOK
<1>3. CASE RunnerWrites
  <2>1. /\ runner # <<>> /\ Len(stdout) < PipeSize
        /\ stdout' = Append(stdout, Head(runner)) /\ runner' = Tail(runner)
        /\ UNCHANGED <<helper, stdin, state, nextRequestId, widget, last, cancelled, generation,
                       reader, verifiedAt>>
    BY <1>3 DEF RunnerWrites
  <2>2. Head(runner) \in Message /\ Tail(runner) \in Seq(Message)
    BY <1>1, <2>1, OneLess
  <2>3. Len(stdout') = Len(stdout) + 1 /\ stdout' \in Seq(Message) /\ Len(stdout) \in Nat
    BY <1>1, <2>1, <2>2, OneMore
  <2>4. Len(stdout') <= PipeSize
    BY <2>1, <2>3, PanelAssumption
  <2>. QED
    BY <2>1, <2>2, <2>3, <2>4 DEF TypeOK
<1>4. CASE Cancel
  BY <1>4 DEF Cancel, TypeOK
<1>5. CASE HelperEnds
  BY <1>5 DEF HelperEnds, TypeOK
<1>. QED
  BY <1>2, <1>3, <1>4, <1>5

------------------------------------------------------------------------------
(* What leaves the parts of the invariant alone.                           *)

LEMMA InOrderKept ==
    ASSUME InOrder, UNCHANGED <<stdin, stdout, nextRequestId>>, reader'.line = reader.line,
           Busy' => Busy
    PROVE  InOrder'
BY DEF InOrder, IsResponse

LEMMA AwaitedKept ==
    ASSUME Awaited, UNCHANGED <<stdin, stdout, nextRequestId, widget, last>>,
           reader'.line = reader.line, Busy' = Busy, cancelled => cancelled',
           helper' # "running" => cancelled'
    PROVE  Awaited'
<1>1. \A id : UnderWay(id)' = UnderWay(id)
  BY DEF UnderWay, IsResponse
<1>2. \A id : AwaitedBy(id)' = AwaitedBy(id)
  BY DEF AwaitedBy
<1>. QED
  BY <1>1, <1>2 DEF Awaited

LEMMA VerifiedStays ==
    ASSUME TypeOK,
           verifiedAt' = verifiedAt \/ (Changes /\ Verify)
    PROVE  \A id \in Ids : IsVerified(id) => IsVerified(id)'
<1>1. CASE verifiedAt' = verifiedAt
  BY <1>1 DEF IsVerified
<1>2. CASE Changes /\ Verify
  <2>1. generation' # 0
    BY <1>2, GenerationTyped
  <2>2. verifiedAt' = [verifiedAt EXCEPT ![reader.line.id] = generation']
    BY <1>2 DEF Verify
  <2>3. verifiedAt \in [Ids -> Nat] /\ reader.line.id \in Ids
    BY Types, QueueTypes
  <2>. QED
    BY <2>1, <2>2, <2>3 DEF IsVerified
<1>. QED
  BY <1>1, <1>2

\* The verification of the command the reader executes.
LEMMA WriteIsVerified ==
    ASSUME TypeOK, Changes, Verify
    PROVE  verifiedAt'[reader.line.id] # 0
<1>1. generation' # 0
  BY GenerationTyped
<1>2. verifiedAt' = [verifiedAt EXCEPT ![reader.line.id] = generation']
  BY DEF Verify
<1>3. verifiedAt \in [Ids -> Nat] /\ reader.line.id \in Ids
  BY Types, QueueTypes
<1>. QED
  BY <1>1, <1>2, <1>3

------------------------------------------------------------------------------
(* A command the reader executes.                                          *)

\* What a command ends with: one response to its line, which says "verified" only of
\* what was; perhaps a snapshot before it.
LEMMA AnswerWritten ==
    ASSUME TypeOK, NEW response, NEW messages, NEW ok \in BOOLEAN, NEW verified \in BOOLEAN,
           response = Response(ok, verified),
           \/ messages = <<response>>
           \/ \E g \in Nat : messages = <<Snapshot(g), response>>,
           verified => verifiedAt'[reader.line.id] # 0
    PROVE  /\ messages # <<>> /\ Len(messages) \in Nat
           /\ \A i \in DOMAIN messages : IsResponse(messages[i]) <=> i = Len(messages)
           /\ messages[Len(messages)].id = reader.line.id
           /\ \A i \in DOMAIN messages :
                 IsResponse(messages[i]) /\ messages[i].verified => verifiedAt'[messages[i].id] # 0
<1>1. /\ response \in Message /\ IsResponse(response)
      /\ response.id = reader.line.id /\ response.verified = verified
  BY QueueTypes, MessagesSent
<1>2. CASE messages = <<response>>
  <2>1. Len(messages) = 1 /\ DOMAIN messages = {1} /\ messages[1] = response
    BY <1>1, <1>2, Published
  <2>2. messages # <<>>
    BY <1>2
  <2>. QED
    BY <1>1, <2>1, <2>2
<1>3. ASSUME NEW g \in Nat, messages = <<Snapshot(g), response>>
      PROVE  /\ messages # <<>> /\ Len(messages) = 2 /\ DOMAIN messages = {1, 2}
             /\ messages[2] = response /\ ~IsResponse(messages[1])
  <2>1. Snapshot(g) \in Message /\ ~IsResponse(Snapshot(g))
    BY QueueTypes, MessagesSent
  <2>2. /\ Len(messages) = 2 /\ DOMAIN messages = {1, 2}
        /\ messages[1] = Snapshot(g) /\ messages[2] = response
    BY <1>1, <1>3, <2>1, Published
  <2>3. messages # <<>>
    BY <1>3
  <2>. QED
    BY <2>1, <2>2, <2>3
<1>. QED
  BY <1>1, <1>2, <1>3

LEMMA ExecuteEffect ==
    ASSUME TypeOK, Answers, Verified, Execute
    PROVE  /\ UNCHANGED <<helper, stdin, stdout, state, nextRequestId, widget, last, cancelled,
                          runner>>
           /\ Busy /\ Busy' /\ reader'.line = reader.line
           /\ verifiedAt' = verifiedAt \/ (Changes /\ Verify)
           /\ \/ /\ reader'.at \in {"second_read", "snapshot"}
                 /\ reader'.messages = <<>>
                 /\ reader'.at = "second_read" \/ reader.line.kind \in Writes
                       => verifiedAt'[reader.line.id] # 0
              \/ /\ reader'.at = "write"
                 /\ \E ok, verified \in BOOLEAN :
                       /\ \/ reader'.messages = <<Response(ok, verified)>>
                          \/ \E g \in Nat : reader'.messages = <<Snapshot(g), Response(ok, verified)>>
                       /\ verified => verifiedAt'[reader.line.id] # 0
<1>. USE DEF frontend, Reads
<1>1. reader \in Reader
  BY Types
<1>2. ASSUME NEW at, reader' = [reader EXCEPT !.at = at]
      PROVE  reader'.at = at /\ reader'.line = reader.line /\ reader'.messages = reader.messages
  BY <1>1, <1>2 DEF Reader
<1>3. ASSUME NEW messages, Answer(messages)
      PROVE  reader'.at = "write" /\ reader'.line = reader.line /\ reader'.messages = messages
  BY <1>1, <1>3 DEF Reader, Answer
<1>4. CASE CommandFails
  <2>1. Answer(<<Response(FALSE, FALSE)>>) /\ reader.at = "execute"
    BY <1>4 DEF CommandFails
  <2>. QED
    BY <1>3, <1>4, <2>1 DEF CommandFails, Busy
<1>5. CASE SetAnc
  <2>1. Answer(<<Snapshot(generation'), Response(TRUE, TRUE)>>) /\ reader.at = "execute"
        /\ Changes /\ Verify
    BY <1>5 DEF SetAnc
  <2>2. generation' \in Nat /\ verifiedAt'[reader.line.id] # 0
    BY <2>1, GenerationTyped, WriteIsVerified
  <2>. QED
    BY <1>3, <1>5, <2>1, <2>2 DEF SetAnc, Busy
<1>6. CASE SetEq
  <2>1. reader' = [reader EXCEPT !.at = "second_read"] /\ reader.at = "execute"
        /\ Changes /\ Verify
    BY <1>6 DEF SetEq
  <2>2. verifiedAt'[reader.line.id] # 0
    BY <2>1, WriteIsVerified
  <2>. QED
    BY <1>2, <1>6, <2>1, <2>2 DEF SetEq, Busy, Answers
<1>7. CASE EqStatus
  <2>1. /\ reader' = [reader EXCEPT !.at = "snapshot"]
        /\ \/ reader.at = "execute" /\ reader.line.kind = "eq_status"
           \/ reader.at = "second_read"
        /\ verifiedAt' = verifiedAt
    BY <1>7 DEF EqStatus
  <2>2. reader.line.kind \in Writes => verifiedAt'[reader.line.id] # 0
    BY <2>1 DEF Verified, IsVerified, Writes
  <2>. QED
    BY <1>2, <1>7, <2>1, <2>2 DEF EqStatus, Busy, Answers
<1>8. CASE SecondReadFails
  <2>1. Answer(<<Response(FALSE, FALSE)>>) /\ reader.at = "second_read"
    BY <1>8 DEF SecondReadFails
  <2>. QED
    BY <1>3, <1>8, <2>1 DEF SecondReadFails, Busy
<1>9. CASE TakeSnapshot
  <2>1. Answer(<<Snapshot(generation), Response(TRUE, reader.line.kind \in Writes)>>)
        /\ reader.at = "snapshot" /\ verifiedAt' = verifiedAt /\ generation' = generation
    BY <1>9 DEF TakeSnapshot
  <2>2. generation \in Nat
    BY <2>1, GenerationTyped
  <2>3. reader.line.kind \in Writes => verifiedAt'[reader.line.id] # 0
    BY <2>1 DEF Verified, IsVerified
  <2>4. (reader.line.kind \in Writes) \in BOOLEAN
    OBVIOUS
  <2>. QED
    BY <1>3, <1>9, <2>1, <2>2, <2>3, <2>4 DEF TakeSnapshot, Busy
<1>10. CASE SaveReport
  <2>1. Answer(<<Response(TRUE, FALSE)>>) /\ reader.at = "execute"
    BY <1>10 DEF SaveReport
  <2>. QED
    BY <1>3, <1>10, <2>1 DEF SaveReport, Busy
<1>. QED
  BY <1>4, <1>5, <1>6, <1>7, <1>8, <1>9, <1>10 DEF Execute

LEMMA ExecuteOrdered ==
    ASSUME Ordered, Execute
    PROVE  Ordered'
<1>1. /\ TypeOK /\ InOrder /\ Answers /\ Awaited /\ Verified /\ TypeOK'
  BY ReaderTyped DEF Ordered
<1>2. /\ UNCHANGED <<helper, stdin, stdout, state, nextRequestId, widget, last, cancelled, runner>>
      /\ Busy /\ Busy' /\ reader'.line = reader.line
      /\ verifiedAt' = verifiedAt \/ (Changes /\ Verify)
  BY <1>1, ExecuteEffect
<1>3. InOrder' /\ Awaited'
  <2>1. helper' # "running" => cancelled'
    BY <1>1, <1>2 DEF Awaited
  <2>. QED
    BY <1>1, <1>2, <2>1, InOrderKept, AwaitedKept
<1>4. \A id \in Ids : IsVerified(id) => IsVerified(id)'
  BY <1>1, <1>2, VerifiedStays
<1>5. /\ \A i \in DOMAIN stdout :
            IsResponse(stdout[i]) /\ stdout[i].verified => IsVerified(stdout[i].id)'
      /\ OutcomeIsOwn'
  <2>1. \A i \in DOMAIN stdout : IsResponse(stdout[i]) => stdout[i].id \in Ids
    BY <1>1, QueueTypes, MessageFields DEF IsResponse
  <2>2. \A w \in Widgets : last[w] # 0 => last[w] \in Ids
    BY <1>1, Types
  <2>. QED
    BY <1>1, <1>2, <1>4, <2>1, <2>2 DEF Verified, OutcomeIsOwn, IsVerified
<1>6. CASE /\ reader'.at \in {"second_read", "snapshot"}
           /\ reader'.messages = <<>>
           /\ reader'.at = "second_read" \/ reader.line.kind \in Writes
                 => verifiedAt'[reader.line.id] # 0
  <2>1. Answers'
    BY <1>1, <1>2, <1>6 DEF Answers, IsResponse
  <2>2. Verified'
    BY <1>2, <1>5, <1>6 DEF Verified, IsVerified
  <2>. QED
    BY <1>1, <1>3, <2>1, <2>2 DEF Ordered
<1>7. ASSUME reader'.at = "write",
             NEW ok \in BOOLEAN, NEW verified \in BOOLEAN,
             \/ reader'.messages = <<Response(ok, verified)>>
             \/ \E g \in Nat : reader'.messages = <<Snapshot(g), Response(ok, verified)>>,
             verified => verifiedAt'[reader.line.id] # 0
      PROVE  Ordered'
  <2>1. /\ reader'.messages # <<>>
        /\ \A i \in DOMAIN reader'.messages :
              IsResponse(reader'.messages[i]) <=> i = Len(reader'.messages)
        /\ reader'.messages[Len(reader'.messages)].id = reader.line.id
        /\ \A i \in DOMAIN reader'.messages :
              IsResponse(reader'.messages[i]) /\ reader'.messages[i].verified
                 => verifiedAt'[reader'.messages[i].id] # 0
    <3>. DEFINE messages == reader'.messages
    <3>. HIDE DEF messages
    <3>1. \/ messages = <<Response(ok, verified)>>
          \/ \E g \in Nat : messages = <<Snapshot(g), Response(ok, verified)>>
      BY <1>7 DEF messages
    <3>2. /\ messages # <<>>
          /\ \A i \in DOMAIN messages : IsResponse(messages[i]) <=> i = Len(messages)
          /\ messages[Len(messages)].id = reader.line.id
          /\ \A i \in DOMAIN messages :
                 IsResponse(messages[i]) /\ messages[i].verified => verifiedAt'[messages[i].id] # 0
      BY <1>1, <1>7, <3>1, AnswerWritten
    <3>. QED
      BY <3>2 DEF messages
  <2>2. Answers'
    BY <1>1, <1>2, <1>7, <2>1 DEF Answers, IsResponse
  <2>3. Verified'
    BY <1>2, <1>5, <1>7, <2>1 DEF Verified, IsVerified, IsResponse
  <2>. QED
    BY <1>1, <1>3, <2>2, <2>3 DEF Ordered
<1>. QED
  BY <1>1, <1>6, <1>7, ExecuteEffect

------------------------------------------------------------------------------
(* The reader takes a line, and writes one.                                *)

LEMMA TakeLineOrdered ==
    ASSUME Ordered, TakeLine
    PROVE  Ordered'
<1>. USE DEF frontend, Reads
<1>1. /\ TypeOK /\ InOrder /\ Answers /\ Awaited /\ Verified /\ TypeOK'
  BY ReaderTyped DEF Ordered
<1>2. /\ reader.at = "wait" /\ stdin # <<>> /\ stdin' = Tail(stdin)
      /\ UNCHANGED <<helper, stdout, state, nextRequestId, widget, last, cancelled, generation,
                     runner, verifiedAt>>
      /\ reader' = [reader EXCEPT !.at = IF cancelled THEN "end" ELSE "execute",
                                  !.line = Head(stdin)]
  BY DEF TakeLine
<1>3. /\ reader'.at = IF cancelled THEN "end" ELSE "execute"
      /\ reader'.line = Head(stdin) /\ reader'.messages = reader.messages
  BY <1>1, <1>2, Types DEF Reader
<1>4. /\ Head(stdin) = stdin[1] /\ 1 \in DOMAIN stdin
      /\ DOMAIN stdin' = 1..(Len(stdin) - 1) /\ Len(stdin) \in Nat \ {0}
      /\ \A i \in DOMAIN stdin' : stdin'[i] = stdin[i + 1] /\ i + 1 \in DOMAIN stdin
      /\ DOMAIN stdin = 1..Len(stdin)
  BY <1>1, <1>2, OneLess, QueueTypes
<1>5. ~Busy /\ (Busy' <=> ~cancelled)
  BY <1>2, <1>3 DEF Busy
<1>6. \A i \in DOMAIN stdin : stdin[i].id \in Nat
  BY <1>1, QueueTypes DEF Ids
<1>7. InOrder'
  <2>1. \A i, j \in DOMAIN stdin' : i < j => stdin'[i].id < stdin'[j].id
    BY <1>1, <1>4 DEF InOrder
  <2>2. \A i \in DOMAIN stdin' : stdin'[i].id < nextRequestId'
    BY <1>1, <1>2, <1>4 DEF InOrder
  <2>3. /\ reader'.line.id < nextRequestId'
        /\ \A i \in DOMAIN stdin' : reader'.line.id < stdin'[i].id
    <3>1. \A i \in DOMAIN stdin' : 1 < i + 1
      BY <1>4
    <3>. QED
      BY <1>1, <1>2, <1>3, <1>4, <3>1 DEF InOrder
  <2>4. \A i, j \in DOMAIN stdout' :
          i < j /\ IsResponse(stdout[i])' /\ IsResponse(stdout[j])' => stdout'[i].id < stdout'[j].id
    BY <1>1, <1>2 DEF InOrder, IsResponse
  <2>5. \A i \in DOMAIN stdout' : IsResponse(stdout[i])' =>
          /\ stdout'[i].id < nextRequestId'
          /\ stdout'[i].id < reader'.line.id
          /\ \A j \in DOMAIN stdin' : stdout'[i].id < stdin'[j].id
    BY <1>1, <1>2, <1>3, <1>4 DEF InOrder, IsResponse
  <2>. QED
    BY <2>1, <2>2, <2>3, <2>4, <2>5 DEF InOrder
<1>8. Answers'
  BY <1>1, <1>2, <1>3 DEF Answers, IsResponse
<1>9. Awaited'
  <2>1. \A id : UnderWay(id)' => UnderWay(id)
    BY <1>2, <1>3, <1>4 DEF UnderWay, IsResponse
  <2>2. ~cancelled => \A id : UnderWay(id) => UnderWay(id)'
    <3>. SUFFICES ASSUME ~cancelled, NEW id, UnderWay(id) PROVE UnderWay(id)'
      OBVIOUS
    <3>1. Busy' /\ reader'.line.id = stdin[1].id
      BY <1>3, <1>4, <1>5
    <3>2. ASSUME NEW i \in DOMAIN stdin, stdin[i].id = id PROVE UnderWay(id)'
      <4>1. CASE i = 1
        BY <3>1, <3>2, <4>1 DEF UnderWay
      <4>2. CASE i # 1
        <5>1. i - 1 \in DOMAIN stdin' /\ stdin'[i - 1] = stdin[i]
          BY <1>4, <4>2
        <5>. QED
          BY <3>2, <5>1 DEF UnderWay
      <4>. QED
        BY <4>1, <4>2
    <3>3. ASSUME NEW i \in DOMAIN stdout, IsResponse(stdout[i]), stdout[i].id = id
          PROVE  UnderWay(id)'
      BY <1>2, <3>3 DEF UnderWay, IsResponse
    <3>. QED
      BY <1>5, <3>2, <3>3 DEF UnderWay
  <2>3. \A id : AwaitedBy(id)' = AwaitedBy(id)
    BY <1>2 DEF AwaitedBy
  <2>. QED
    BY <1>1, <1>2, <2>1, <2>2, <2>3 DEF Awaited
<1>10. Verified'
  <2>1. reader'.at # "second_read" /\ reader'.at # "snapshot"
    BY <1>3
  <2>2. OutcomeIsOwn'
    BY <1>1, <1>2 DEF Verified, OutcomeIsOwn
  <2>. QED
    BY <1>1, <1>2, <1>3, <2>1, <2>2 DEF Verified, IsResponse, IsVerified
<1>. QED
  BY <1>1, <1>7, <1>8, <1>9, <1>10 DEF Ordered

LEMMA ReaderWritesOrdered ==
    ASSUME Ordered, ReaderWrites
    PROVE  Ordered'
<1>. USE DEF frontend, Reads
<1>. DEFINE message == Head(reader.messages)
<1>1. /\ TypeOK /\ InOrder /\ Answers /\ Awaited /\ Verified /\ TypeOK'
  BY ReaderTyped DEF Ordered
<1>2. /\ reader.at = "write"
      /\ stdout' = Append(stdout, message)
      /\ reader' = [reader EXCEPT !.messages = Tail(@),
                                  !.at = IF Len(reader.messages) = 1 THEN "wait" ELSE @]
      /\ UNCHANGED <<helper, stdin, state, nextRequestId, widget, last, cancelled, generation,
                     runner, verifiedAt>>
  BY DEF ReaderWrites
<1>3. /\ reader'.at = IF Len(reader.messages) = 1 THEN "wait" ELSE "write"
      /\ reader'.line = reader.line /\ reader'.messages = Tail(reader.messages)
  BY <1>1, <1>2, Types DEF Reader
<1>4. /\ reader.messages # <<>>
      /\ \A i \in DOMAIN reader.messages :
            IsResponse(reader.messages[i]) <=> i = Len(reader.messages)
      /\ reader.messages[Len(reader.messages)].id = reader.line.id
  BY <1>1, <1>2 DEF Answers
<1>5. /\ message \in Message /\ message = reader.messages[1] /\ 1 \in DOMAIN reader.messages
      /\ Len(reader.messages) \in Nat \ {0}
      /\ Len(reader'.messages) = Len(reader.messages) - 1
      /\ DOMAIN reader'.messages = 1..(Len(reader.messages) - 1)
      /\ \A i \in DOMAIN reader'.messages :
            /\ reader'.messages[i] = reader.messages[i + 1]
            /\ i + 1 \in DOMAIN reader.messages
  <2>1. reader.messages \in Seq(Message)
    BY <1>1, QueueTypes
  <2>. QED
    BY <1>3, <1>4, <2>1, OneLess
<1>6. /\ DOMAIN stdout' = 1..(Len(stdout) + 1) /\ DOMAIN stdout = 1..Len(stdout)
      /\ Len(stdout) \in Nat
      /\ \A i \in DOMAIN stdout : stdout'[i] = stdout[i]
      /\ stdout'[Len(stdout) + 1] = message
  BY <1>1, <1>2, <1>5, OneMore, QueueTypes
<1>. HIDE DEF message
<1>7. Busy /\ (Busy' <=> Len(reader.messages) # 1)
  BY <1>2, <1>3 DEF Busy
<1>8. /\ IsResponse(message) <=> Len(reader.messages) = 1
      /\ Len(reader.messages) = 1 => message.id = reader.line.id
  BY <1>4, <1>5
<1>9. InOrder'
  <2>1. \A i, j \in DOMAIN stdout' :
          i < j /\ IsResponse(stdout'[i]) /\ IsResponse(stdout'[j]) => stdout'[i].id < stdout'[j].id
    <3>. SUFFICES ASSUME NEW i \in DOMAIN stdout', NEW j \in DOMAIN stdout', i < j,
                         IsResponse(stdout'[i]), IsResponse(stdout'[j])
                  PROVE  stdout'[i].id < stdout'[j].id
      OBVIOUS
    <3>1. i \in DOMAIN stdout
      BY <1>6
    <3>2. CASE j \in DOMAIN stdout
      BY <1>1, <1>6, <3>1, <3>2 DEF InOrder
    <3>3. CASE j \notin DOMAIN stdout
      <4>1. stdout'[j] = message
        BY <1>6, <3>3
      <4>. QED
        BY <1>1, <1>6, <1>7, <1>8, <3>1, <4>1 DEF InOrder
    <3>. QED
      BY <3>2, <3>3
  <2>2. \A i \in DOMAIN stdout' : IsResponse(stdout'[i]) =>
          /\ stdout'[i].id < nextRequestId'
          /\ Busy' => stdout'[i].id < reader'.line.id
          /\ \A j \in DOMAIN stdin' : stdout'[i].id < stdin'[j].id
    <3>. SUFFICES ASSUME NEW i \in DOMAIN stdout', IsResponse(stdout'[i])
                  PROVE  /\ stdout'[i].id < nextRequestId'
                         /\ Busy' => stdout'[i].id < reader'.line.id
                         /\ \A j \in DOMAIN stdin' : stdout'[i].id < stdin'[j].id
      OBVIOUS
    <3>1. CASE i \in DOMAIN stdout
      <4>1. IsResponse(stdout[i]) /\ stdout'[i] = stdout[i]
        BY <1>6, <3>1
      <4>. QED
        BY <1>1, <1>2, <1>3, <1>7, <3>1, <4>1 DEF InOrder
    <3>2. CASE i \notin DOMAIN stdout
      <4>1. stdout'[i] = message
        BY <1>6, <3>2
      <4>2. ~Busy' /\ message.id = reader.line.id
        BY <1>7, <1>8, <4>1
      <4>. QED
        BY <1>1, <1>2, <1>7, <4>1, <4>2 DEF InOrder
    <3>. QED
      BY <3>1, <3>2
  <2>3. /\ \A i, j \in DOMAIN stdin' : i < j => stdin'[i].id < stdin'[j].id
        /\ \A i \in DOMAIN stdin' : stdin'[i].id < nextRequestId'
        /\ reader'.line.id < nextRequestId'
        /\ \A i \in DOMAIN stdin' : reader'.line.id < stdin'[i].id
    BY <1>1, <1>2, <1>3, <1>7 DEF InOrder
  <2>. QED
    BY <2>1, <2>2, <2>3 DEF InOrder, IsResponse
<1>10. Answers'
  <2>1. CASE Len(reader.messages) = 1
    <3>1. reader'.messages = <<>> /\ reader'.at = "wait"
      <4>1. reader.messages \in Seq(Message) /\ Tail(reader.messages) \in Seq(Message)
        BY <1>1, <1>4, QueueTypes, OneLess
      <4>2. Len(Tail(reader.messages)) = 0
        BY <1>3, <1>5, <2>1
      <4>. QED
        BY <1>3, <2>1, <4>1, <4>2, EmptySeq
    <3>. QED
      BY <1>1, <1>2, <3>1 DEF Answers, IsResponse
  <2>2. CASE Len(reader.messages) # 1
    <3>1. reader'.messages # <<>>
      <4>1. Len(reader'.messages) # 0
        BY <1>5, <2>2
      <4>. QED
        BY <4>1, EmptySeq
    <3>2. \A i \in DOMAIN reader'.messages :
             IsResponse(reader'.messages[i]) <=> i = Len(reader'.messages)
      BY <1>4, <1>5
    <3>3. reader'.messages[Len(reader'.messages)].id = reader'.line.id
      <4>1. Len(reader'.messages) \in DOMAIN reader'.messages
        <5>1. Len(reader.messages) - 1 \in 1..(Len(reader.messages) - 1)
          <6>1. Len(reader.messages) \in Nat \ {0} /\ Len(reader.messages) # 1
            BY <1>5, <2>2
          <6>2. \A n \in Nat \ {0} : n # 1 => n - 1 \in 1..(n - 1)
            OBVIOUS
          <6>. QED
            BY <6>1, <6>2, Zenon
        <5>2. /\ DOMAIN reader'.messages = 1..(Len(reader.messages) - 1)
              /\ Len(reader'.messages) = Len(reader.messages) - 1
          BY <1>5
        <5>. QED
          BY <5>1, <5>2, Zenon
      <4>2. Len(reader'.messages) + 1 = Len(reader.messages)
        BY <1>5
      <4>. QED
        BY <1>3, <1>4, <1>5, <4>1, <4>2
    <3>. QED
      BY <1>1, <1>2, <1>3, <2>2, <3>1, <3>2, <3>3 DEF Answers, IsResponse
  <2>. QED
    BY <2>1, <2>2
<1>11. Awaited'
  <2>1. \A id : UnderWay(id)' = UnderWay(id)
    <3>. TAKE id
    <3>1. (\E i \in DOMAIN stdout' : IsResponse(stdout'[i]) /\ stdout'[i].id = id)
            <=> \/ \E i \in DOMAIN stdout : IsResponse(stdout[i]) /\ stdout[i].id = id
                \/ IsResponse(message) /\ message.id = id
      BY <1>6
    <3>2. (Busy' /\ reader'.line.id = id) \/ (IsResponse(message) /\ message.id = id)
            <=> Busy /\ reader.line.id = id
      BY <1>3, <1>7, <1>8
    <3>3. UnderWay(id)' <=> \/ \E i \in DOMAIN stdin : stdin[i].id = id
                            \/ Busy' /\ reader'.line.id = id
                            \/ \E i \in DOMAIN stdout' : IsResponse(stdout'[i]) /\ stdout'[i].id = id
      BY <1>2 DEF UnderWay, IsResponse
    <3>4. UnderWay(id)' <=> UnderWay(id)
      BY <3>1, <3>2, <3>3 DEF UnderWay
    <3>5. UnderWay(id)' \in BOOLEAN /\ UnderWay(id) \in BOOLEAN
      BY DEF UnderWay
    <3>. QED
      BY <3>4, <3>5
  <2>2. \A id : AwaitedBy(id)' = AwaitedBy(id)
    BY <1>2 DEF AwaitedBy
  <2>. QED
    BY <1>1, <1>2, <2>1, <2>2 DEF Awaited
<1>12. Verified'
  <2>1. reader'.at # "second_read" /\ reader'.at # "snapshot" /\ verifiedAt' = verifiedAt
    BY <1>2, <1>3
  <2>2. OutcomeIsOwn'
    BY <1>1, <1>2 DEF Verified, OutcomeIsOwn
  <2>3. \A i \in DOMAIN reader'.messages :
          IsResponse(reader'.messages[i]) /\ reader'.messages[i].verified
             => verifiedAt'[reader'.messages[i].id] # 0
    BY <1>1, <1>5, <2>1 DEF Verified, IsVerified
  <2>4. \A i \in DOMAIN stdout' :
          IsResponse(stdout'[i]) /\ stdout'[i].verified => verifiedAt'[stdout'[i].id] # 0
    <3>1. IsResponse(message) /\ message.verified => verifiedAt[message.id] # 0
      BY <1>1, <1>5 DEF Verified, IsVerified
    <3>2. \A i \in DOMAIN stdout : IsResponse(stdout[i]) /\ stdout[i].verified
                => verifiedAt[stdout[i].id] # 0
      BY <1>1 DEF Verified, IsVerified
    <3>3. \A i \in DOMAIN stdout' : i \in DOMAIN stdout \/ i = Len(stdout) + 1
      BY <1>6
    <3>. QED
      BY <1>6, <2>1, <3>1, <3>2, <3>3
  <2>. QED
    BY <2>1, <2>2, <2>3, <2>4 DEF Verified, IsVerified, IsResponse
<1>. QED
  BY <1>1, <1>9, <1>10, <1>11, <1>12 DEF Ordered

------------------------------------------------------------------------------
(* The runner, and the end of the helper.                                  *)

LEMMA RunnerOrdered ==
    ASSUME Ordered, Poll \/ Reconnect \/ Cancel \/ Shutdown \/ HelperEnds
    PROVE  Ordered'
<1>. USE DEF frontend, backend
<1>1. /\ TypeOK /\ InOrder /\ Answers /\ Awaited /\ Verified /\ TypeOK'
  BY RunnerTyped DEF Ordered
<1>2. /\ UNCHANGED <<stdin, stdout, state, nextRequestId, widget, last, reader, verifiedAt>>
      /\ cancelled => cancelled'
      /\ helper' # "running" => cancelled'
  <2>1. helper # "running" => cancelled
    BY <1>1 DEF Awaited
  <2>. QED
    BY <2>1 DEF Poll, Reconnect, Cancel, Shutdown, HelperEnds, Runs, Up
<1>3. Busy' = Busy
  BY <1>2 DEF Busy
<1>4. InOrder' /\ Awaited'
  BY <1>1, <1>2, <1>3, InOrderKept, AwaitedKept
<1>5. \A i \in DOMAIN runner' : ~IsResponse(runner'[i])
  <2>1. CASE runner' = runner
    BY <1>1, <2>1 DEF Answers
  <2>2. CASE runner' # runner
    <3>1. /\ \/ runner' = <<Snapshot(generation')>>
             \/ runner' = <<Snapshot(generation'), Connection("disconnected")>>
             \/ runner' = <<Connection("connected"), Snapshot(generation')>>
             \/ runner' = <<Connection("stopped"), Snapshot(generation')>>
          /\ UNCHANGED generation \/ Changes
      BY <2>2 DEF Poll, Reconnect, Cancel, Shutdown, HelperEnds
    <3>2. generation' \in Nat
      BY <1>1, <3>1, GenerationTyped
    <3>3. Snapshot(generation') \in Message /\ ~IsResponse(Snapshot(generation'))
      BY <1>1, <3>2, QueueTypes, MessagesSent
    <3>4. \A c \in Connections : Connection(c) \in Message /\ ~IsResponse(Connection(c))
      BY <1>1, QueueTypes, MessagesSent
    <3>5. \A c \in Connections :
            /\ DOMAIN <<Snapshot(generation'), Connection(c)>> = {1, 2}
            /\ <<Snapshot(generation'), Connection(c)>>[1] = Snapshot(generation')
            /\ <<Snapshot(generation'), Connection(c)>>[2] = Connection(c)
            /\ DOMAIN <<Connection(c), Snapshot(generation')>> = {1, 2}
            /\ <<Connection(c), Snapshot(generation')>>[1] = Connection(c)
            /\ <<Connection(c), Snapshot(generation')>>[2] = Snapshot(generation')
      BY <3>3, <3>4, Published
    <3>6. "disconnected" \in Connections /\ "connected" \in Connections /\ "stopped" \in Connections
      BY DEF Connections
    <3>7. DOMAIN <<Snapshot(generation')>> = {1} /\ <<Snapshot(generation')>>[1] = Snapshot(generation')
      BY <3>3, Published
    <3>8. CASE runner' = <<Snapshot(generation')>>
      BY <3>3, <3>7, <3>8
    <3>9. ASSUME NEW c \in Connections,
                 \/ runner' = <<Snapshot(generation'), Connection(c)>>
                 \/ runner' = <<Connection(c), Snapshot(generation')>>
          PROVE  \A i \in DOMAIN runner' : ~IsResponse(runner'[i])
      BY <3>3, <3>4, <3>5, <3>9
    <3>. QED
      BY <3>1, <3>6, <3>8, <3>9
  <2>. QED
    BY <2>1, <2>2
<1>6. Answers' /\ Verified'
  <2>1. Answers'
    BY <1>1, <1>2, <1>5 DEF Answers, IsResponse
  <2>2. OutcomeIsOwn'
    BY <1>1, <1>2 DEF Verified, OutcomeIsOwn
  <2>. QED
    BY <1>1, <1>2, <2>1, <2>2 DEF Verified, IsResponse, IsVerified
<1>. QED
  BY <1>1, <1>4, <1>6 DEF Ordered

LEMMA RunnerWritesOrdered ==
    ASSUME Ordered, RunnerWrites
    PROVE  Ordered'
<1>. USE DEF frontend
<1>. DEFINE message == Head(runner)
<1>1. /\ TypeOK /\ InOrder /\ Answers /\ Awaited /\ Verified /\ TypeOK'
  BY RunnerTyped DEF Ordered
<1>2. /\ runner # <<>> /\ stdout' = Append(stdout, message) /\ runner' = Tail(runner)
      /\ UNCHANGED <<helper, stdin, state, nextRequestId, widget, last, cancelled, generation,
                     reader, verifiedAt>>
  BY DEF RunnerWrites
<1>3. /\ message \in Message /\ message = runner[1] /\ 1 \in DOMAIN runner
      /\ \A i \in DOMAIN runner' : runner'[i] = runner[i + 1] /\ i + 1 \in DOMAIN runner
  BY <1>1, <1>2, OneLess, QueueTypes
<1>4. /\ DOMAIN stdout' = 1..(Len(stdout) + 1) /\ DOMAIN stdout = 1..Len(stdout)
      /\ Len(stdout) \in Nat
      /\ \A i \in DOMAIN stdout : stdout'[i] = stdout[i]
      /\ stdout'[Len(stdout) + 1] = message
  BY <1>1, <1>2, <1>3, OneMore, QueueTypes
<1>. HIDE DEF message
<1>5. ~IsResponse(message)
  BY <1>1, <1>3 DEF Answers
<1>6. \A i \in DOMAIN stdout' : IsResponse(stdout'[i]) =>
          i \in DOMAIN stdout /\ stdout'[i] = stdout[i]
  BY <1>4, <1>5
<1>7. \A i \in DOMAIN stdout : i \in DOMAIN stdout' /\ stdout'[i] = stdout[i]
  BY <1>4
<1>8. Busy' = Busy
  BY <1>2 DEF Busy
<1>9. InOrder'
  <2>1. \A i, j \in DOMAIN stdout' :
          i < j /\ IsResponse(stdout'[i]) /\ IsResponse(stdout'[j]) => stdout'[i].id < stdout'[j].id
    BY <1>1, <1>6 DEF InOrder
  <2>2. \A i \in DOMAIN stdout' : IsResponse(stdout'[i]) =>
          /\ stdout'[i].id < nextRequestId
          /\ Busy => stdout'[i].id < reader.line.id
          /\ \A j \in DOMAIN stdin : stdout'[i].id < stdin[j].id
    BY <1>1, <1>6 DEF InOrder
  <2>. QED
    BY <1>1, <1>2, <1>8, <2>1, <2>2 DEF InOrder, IsResponse
<1>10. Answers'
  <2>1. \A i \in DOMAIN runner' : ~IsResponse(runner'[i])
    BY <1>1, <1>3 DEF Answers
  <2>. QED
    BY <1>1, <1>2, <2>1 DEF Answers, IsResponse
<1>11. Awaited'
  <2>1. \A id : UnderWay(id)' = UnderWay(id)
    <3>. TAKE id
    <3>1. (\E i \in DOMAIN stdout' : IsResponse(stdout'[i]) /\ stdout'[i].id = id)
            <=> \E i \in DOMAIN stdout : IsResponse(stdout[i]) /\ stdout[i].id = id
      BY <1>6, <1>7
    <3>2. UnderWay(id)' <=> \/ \E i \in DOMAIN stdin : stdin[i].id = id
                            \/ Busy /\ reader.line.id = id
                            \/ \E i \in DOMAIN stdout' : IsResponse(stdout'[i]) /\ stdout'[i].id = id
      BY <1>2, <1>8 DEF UnderWay, IsResponse
    <3>3. UnderWay(id)' <=> UnderWay(id)
      BY <3>1, <3>2 DEF UnderWay
    <3>4. UnderWay(id)' \in BOOLEAN /\ UnderWay(id) \in BOOLEAN
      BY DEF UnderWay
    <3>. QED
      BY <3>3, <3>4
  <2>2. \A id : AwaitedBy(id)' = AwaitedBy(id)
    BY <1>2 DEF AwaitedBy
  <2>. QED
    BY <1>1, <1>2, <2>1, <2>2 DEF Awaited
<1>12. Verified'
  <2>1. OutcomeIsOwn'
    BY <1>1, <1>2 DEF Verified, OutcomeIsOwn
  <2>2. \A i \in DOMAIN stdout' :
          IsResponse(stdout'[i]) /\ stdout'[i].verified => verifiedAt[stdout'[i].id] # 0
    BY <1>1, <1>6 DEF Verified, IsVerified
  <2>. QED
    BY <1>1, <1>2, <2>1, <2>2 DEF Verified, IsVerified, IsResponse
<1>. QED
  BY <1>1, <1>9, <1>10, <1>11, <1>12 DEF Ordered

------------------------------------------------------------------------------
(* The widgets and Service.                                                *)

LEMMA ClearOutcomeOrdered ==
    ASSUME Ordered, NEW w \in Widgets, ClearOutcome(w)
    PROVE  Ordered'
<1>. USE DEF frontend, backend
<1>1. /\ TypeOK /\ InOrder /\ Answers /\ Awaited /\ Verified
      /\ widget \in [Widgets -> Widget]
  BY Types DEF Ordered
<1>2. /\ UNCHANGED <<helper, stdin, stdout, nextRequestId, last, cancelled, reader, runner,
                     verifiedAt>>
      /\ widget' = [widget EXCEPT ![w].outcome = ""]
  BY DEF ClearOutcome
<1>3. TypeOK'
  BY <1>1, AsksTyped DEF Asks
<1>4. /\ \A v \in Widgets : widget'[v].pending = widget[v].pending
      /\ \A v \in Widgets : widget'[v].outcome = "verified" => widget[v].outcome = "verified"
  BY <1>1, <1>2 DEF Widget
<1>5. InOrder' /\ Answers'
  BY <1>1, <1>2 DEF InOrder, Answers, Busy, IsResponse
<1>6. Awaited'
  <2>1. \A id : UnderWay(id)' = UnderWay(id)
    BY <1>2 DEF UnderWay, IsResponse, Busy
  <2>2. \A id : AwaitedBy(id)' = AwaitedBy(id)
    BY <1>4 DEF AwaitedBy
  <2>3. \A id \in Ids : UnderWay(id)' => AwaitedBy(id)' # {}
    BY <1>1, <2>1, <2>2 DEF Awaited
  <2>4. \A u, v \in Widgets :
          widget'[u].pending = widget'[v].pending /\ widget'[u].pending # 0 => u = v
    BY <1>1, <1>4 DEF Awaited
  <2>5. \A v \in Widgets, id \in Ids : widget'[v].pending = id =>
          /\ id < nextRequestId'
          /\ id = last'[v]
          /\ ~cancelled' => UnderWay(id)'
    BY <1>1, <1>2, <1>4, <2>1 DEF Awaited
  <2>6. helper' # "running" => cancelled'
    BY <1>1, <1>2 DEF Awaited
  <2>. QED
    BY <2>3, <2>4, <2>5, <2>6 DEF Awaited
<1>7. Verified'
  <2>1. OutcomeIsOwn'
    BY <1>1, <1>2, <1>4 DEF Verified, OutcomeIsOwn
  <2>. QED
    BY <1>1, <1>2, <2>1 DEF Verified, IsVerified, IsResponse
<1>. QED
  BY <1>3, <1>5, <1>6, <1>7 DEF Ordered

\* A request with a new id, of a widget that waits for none.
LEMMA AskOrdered ==
    ASSUME Ordered, NEW w \in Widgets, NEW kind \in Kinds, Ask(w, kind)
    PROVE  Ordered'
<1>. USE DEF frontend, backend
<1>1. /\ TypeOK /\ InOrder /\ Answers /\ Awaited /\ Verified
      /\ widget \in [Widgets -> Widget]
  BY Types DEF Ordered
<1>2. TypeOK'
  BY <1>1, AsksTyped DEF Asks
<1>3. /\ UNCHANGED <<helper, stdout, cancelled, reader, runner, verifiedAt>>
      /\ widget[w].pending = 0
      /\ Request(w, kind)
  BY DEF Ask
<1>4. Busy' = Busy /\ Answers'
  BY <1>1, <1>3 DEF Answers, Busy, IsResponse
<1>5. CASE helper = "exited"
  <2>1. /\ widget' = [widget EXCEPT ![w].outcome = IF kind = "eq_status" THEN @ ELSE "error"]
        /\ UNCHANGED <<stdin, nextRequestId, last>>
    BY <1>3, <1>5 DEF Request
  <2>2. /\ \A v \in Widgets : widget'[v].pending = widget[v].pending
        /\ \A v \in Widgets : widget'[v].outcome = "verified" => widget[v].outcome = "verified"
    BY <1>1, <2>1 DEF Widget
  <2>3. InOrder'
    BY <1>1, <1>3, <2>1 DEF InOrder, Busy, IsResponse
  <2>4. Awaited'
    <3>1. \A id : UnderWay(id)' = UnderWay(id)
      BY <1>3, <2>1 DEF UnderWay, IsResponse, Busy
    <3>2. \A id : AwaitedBy(id)' = AwaitedBy(id)
      BY <2>2 DEF AwaitedBy
    <3>. QED
      BY <1>1, <1>3, <2>1, <2>2, <3>1, <3>2 DEF Awaited
  <2>5. Verified'
    <3>1. OutcomeIsOwn'
      BY <1>1, <1>3, <2>1, <2>2 DEF Verified, OutcomeIsOwn
    <3>. QED
      BY <1>1, <1>3, <3>1 DEF Verified, IsVerified, IsResponse
  <2>. QED
    BY <1>2, <1>4, <2>3, <2>4, <2>5 DEF Ordered
<1>6. CASE helper # "exited"
  <2>. DEFINE line == [id |-> nextRequestId, kind |-> kind]
  <2>1. nextRequestId <= MaxRequests /\ nextRequestId' = nextRequestId + 1
    BY <1>3, <1>6 DEF Request
  <2>0. stdin' = IF Up THEN Append(stdin, line) ELSE stdin
    BY <1>3, <1>6 DEF Request
  <2>2. nextRequestId \in Ids /\ nextRequestId \in Nat \ {0}
    <3>1. nextRequestId \in 1..(MaxRequests + 1) /\ MaxRequests \in Nat
      BY <1>1, PanelAssumption, Types
    <3>2. nextRequestId <= MaxRequests
      BY <2>1
    <3>. QED
      BY <3>1, <3>2 DEF Ids
  <2>3. line \in Line /\ line.id = nextRequestId
    BY <2>2 DEF Line
  <2>4. /\ widget'[w].pending = nextRequestId /\ last'[w] = nextRequestId
        /\ \A v \in Widgets : v # w => widget'[v] = widget[v] /\ last'[v] = last[v]
    <3>1. /\ widget' = [widget EXCEPT ![w] = [pending |-> nextRequestId, kind |-> kind,
                               outcome |-> IF kind = "eq_status" THEN @.outcome ELSE ""]]
          /\ last' = [last EXCEPT ![w] = nextRequestId]
      BY <1>3, <1>6 DEF Request
    <3>. QED
      BY <1>1, <3>1, Types DEF Widget
  <2>5. /\ \A i \in DOMAIN stdin : i \in DOMAIN stdin' /\ stdin'[i] = stdin[i]
        /\ \A i \in DOMAIN stdin' :
              \/ i \in DOMAIN stdin /\ stdin'[i] = stdin[i]
              \/ Up /\ i = Len(stdin) + 1 /\ stdin'[i] = line
        /\ Up => Len(stdin) + 1 \in DOMAIN stdin' /\ stdin'[Len(stdin) + 1] = line
        /\ DOMAIN stdin = 1..Len(stdin) /\ Len(stdin) \in Nat
    <3>1. stdin \in Seq(Line) /\ DOMAIN stdin = 1..Len(stdin) /\ Len(stdin) \in Nat
      BY <1>1, QueueTypes
    <3>. HIDE DEF line
    <3>2. CASE Up
      <4>1. /\ DOMAIN stdin' = 1..(Len(stdin) + 1)
            /\ \A i \in DOMAIN stdin : stdin'[i] = stdin[i]
            /\ stdin'[Len(stdin) + 1] = line
        BY <2>0, <2>3, <3>1, <3>2, OneMore
      <4>. QED
        BY <3>1, <3>2, <4>1
    <3>3. CASE ~Up
      BY <2>0, <3>1, <3>3
    <3>. QED
      BY <3>2, <3>3
  <2>6. /\ \A i \in DOMAIN stdin : stdin[i].id \in Ids
        /\ \A i \in DOMAIN stdout : IsResponse(stdout[i]) => stdout[i].id \in Ids
        /\ reader.line.id \in Ids
    BY <1>1, QueueTypes, MessageFields DEF IsResponse
  <2>7. \A id : UnderWay(id) /\ id \in Ids => id < nextRequestId
    BY <1>1 DEF UnderWay, InOrder
  <2>. HIDE DEF line
  <2>11. \A id \in Ids : id < nextRequestId => id < nextRequestId'
    BY <2>1, <2>2 DEF Ids
  <2>12. nextRequestId < nextRequestId'
    BY <2>1, <2>2
  <2>8. InOrder'
    <3>1. \A i, j \in DOMAIN stdin' : i < j => stdin'[i].id < stdin'[j].id
      BY <1>1, <2>3, <2>5 DEF InOrder
    <3>2. \A i \in DOMAIN stdin' : stdin'[i].id < nextRequestId'
      BY <1>1, <2>3, <2>5, <2>6, <2>11, <2>12 DEF InOrder
    <3>3. Busy => /\ reader.line.id < nextRequestId'
                  /\ \A i \in DOMAIN stdin' : reader.line.id < stdin'[i].id
      BY <1>1, <2>3, <2>5, <2>6, <2>11 DEF InOrder
    <3>4. \A i \in DOMAIN stdout : IsResponse(stdout[i]) =>
            /\ stdout[i].id < nextRequestId'
            /\ Busy => stdout[i].id < reader.line.id
            /\ \A j \in DOMAIN stdin' : stdout[i].id < stdin'[j].id
      BY <1>1, <2>3, <2>5, <2>6, <2>11 DEF InOrder
    <3>5. \A i, j \in DOMAIN stdout :
            i < j /\ IsResponse(stdout[i]) /\ IsResponse(stdout[j]) => stdout[i].id < stdout[j].id
      BY <1>1 DEF InOrder
    <3>. QED
      BY <1>3, <1>4, <3>1, <3>2, <3>3, <3>4, <3>5 DEF InOrder, IsResponse
  <2>9. Awaited'
    <3>1. \A id \in Ids : UnderWay(id)' <=> UnderWay(id) \/ (Up /\ id = nextRequestId)
      <4>. TAKE id \in Ids
      <4>1. (\E i \in DOMAIN stdin' : stdin'[i].id = id)
              <=> (\E i \in DOMAIN stdin : stdin[i].id = id) \/ (Up /\ id = nextRequestId)
        BY <2>3, <2>5
      <4>2. UnderWay(id)' <=> \/ \E i \in DOMAIN stdin' : stdin'[i].id = id
                              \/ Busy /\ reader.line.id = id
                              \/ \E i \in DOMAIN stdout : IsResponse(stdout[i]) /\ stdout[i].id = id
        BY <1>3, <1>4 DEF UnderWay, IsResponse
      <4>. QED
        BY <4>1, <4>2 DEF UnderWay
    <3>2. \A v \in Widgets : widget[v].pending # 0 =>
            widget[v].pending \in Ids /\ widget[v].pending < nextRequestId
      BY <1>1 DEF Awaited, Widget
    <3>3. \A id \in Ids : UnderWay(id)' => AwaitedBy(id)' # {}
      <4>. SUFFICES ASSUME NEW id \in Ids, UnderWay(id)' PROVE AwaitedBy(id)' # {}
        OBVIOUS
      <4>1. CASE id = nextRequestId
        BY <2>4, <4>1 DEF AwaitedBy
      <4>2. CASE UnderWay(id)
        <5>1. PICK v \in Widgets : widget[v].pending = id
          BY <1>1, <4>2 DEF Awaited, AwaitedBy
        <5>2. v # w /\ id # 0
          BY <1>3, <5>1 DEF Ids
        <5>3. widget'[v].pending = id
          BY <2>4, <5>1, <5>2
        <5>. QED
          BY <5>3 DEF AwaitedBy
      <4>. QED
        BY <3>1, <4>1, <4>2
    <3>4. \A u, v \in Widgets :
            widget'[u].pending = widget'[v].pending /\ widget'[u].pending # 0 => u = v
      <4>. SUFFICES ASSUME NEW u \in Widgets, NEW v \in Widgets,
                           widget'[u].pending = widget'[v].pending, widget'[u].pending # 0, u # v
                    PROVE  FALSE
        OBVIOUS
      <4>1. \A x \in Widgets : x # w /\ widget'[x].pending # 0 => widget'[x].pending # nextRequestId
        BY <2>2, <2>4, <3>2
      <4>2. u # w /\ v # w
        BY <2>4, <4>1
      <4>. QED
        BY <1>1, <2>4, <4>2 DEF Awaited
    <3>5. \A v \in Widgets, id \in Ids : widget'[v].pending = id =>
            /\ id < nextRequestId'
            /\ id = last'[v]
            /\ ~cancelled' => UnderWay(id)'
      <4>. SUFFICES ASSUME NEW v \in Widgets, NEW id \in Ids, widget'[v].pending = id
                    PROVE  /\ id < nextRequestId'
                           /\ id = last'[v]
                           /\ ~cancelled' => UnderWay(id)'
        OBVIOUS
      <4>1. CASE v = w
        <5>1. id = nextRequestId /\ id = last'[v]
          BY <2>4, <4>1
        <5>2. ~cancelled => Up
          BY <1>1 DEF Awaited, Up
        <5>. QED
          BY <1>3, <2>12, <3>1, <5>1, <5>2
      <4>2. CASE v # w
        <5>1. widget[v].pending = id /\ last'[v] = last[v]
          BY <2>4, <4>2
        <5>2. /\ id < nextRequestId /\ id = last[v]
              /\ ~cancelled => UnderWay(id)
          BY <1>1, <5>1 DEF Awaited
        <5>. QED
          BY <1>3, <2>11, <3>1, <5>1, <5>2
      <4>. QED
        BY <4>1, <4>2
    <3>6. helper' # "running" => cancelled'
      BY <1>1, <1>3 DEF Awaited
    <3>. QED
      BY <3>3, <3>4, <3>5, <3>6 DEF Awaited
  <2>10. Verified'
    <3>1. OutcomeIsOwn'
      BY <1>1, <1>3, <2>2, <2>4 DEF Verified, OutcomeIsOwn
    <3>. QED
      BY <1>1, <1>3, <3>1 DEF Verified, IsVerified, IsResponse
  <2>. QED
    BY <1>2, <1>4, <2>8, <2>9, <2>10 DEF Ordered
<1>. QED
  BY <1>5, <1>6

\* A response is the answer to the widget that waits for it, and to no other.
LEMMA HandleLineOrdered ==
    ASSUME Ordered, HandleLine
    PROVE  Ordered'
<1>. USE DEF backend
<1>. DEFINE message == Head(stdout)
<1>1. /\ TypeOK /\ InOrder /\ Answers /\ Awaited /\ Verified /\ TypeOK'
      /\ widget \in [Widgets -> Widget]
  BY HearsTyped, Types DEF Ordered
<1>2. /\ stdout # <<>> /\ stdout' = Tail(stdout)
      /\ UNCHANGED <<helper, stdin, nextRequestId, last, cancelled, reader, runner, verifiedAt>>
      /\ \/ ~IsResponse(message) /\ UNCHANGED widget
         \/ IsResponse(message) /\ widget' = [w \in Widgets |-> Answered(widget[w], message)]
  BY DEF HandleLine, IsResponse
<1>3. /\ message \in Message /\ message = stdout[1] /\ 1 \in DOMAIN stdout
      /\ DOMAIN stdout = 1..Len(stdout) /\ Len(stdout) \in Nat \ {0}
      /\ DOMAIN stdout' = 1..(Len(stdout) - 1)
      /\ \A i \in DOMAIN stdout' : stdout'[i] = stdout[i + 1] /\ i + 1 \in DOMAIN stdout
  BY <1>1, <1>2, OneLess, QueueTypes
<1>. HIDE DEF message
<1>4. Busy' = Busy /\ Answers'
  BY <1>1, <1>2 DEF Answers, Busy, IsResponse
<1>5. InOrder'
  <2>1. \A i, j \in DOMAIN stdout' :
          i < j /\ IsResponse(stdout'[i]) /\ IsResponse(stdout'[j]) => stdout'[i].id < stdout'[j].id
    BY <1>1, <1>3 DEF InOrder
  <2>2. \A i \in DOMAIN stdout' : IsResponse(stdout'[i]) =>
          /\ stdout'[i].id < nextRequestId
          /\ Busy => stdout'[i].id < reader.line.id
          /\ \A j \in DOMAIN stdin : stdout'[i].id < stdin[j].id
    BY <1>1, <1>3 DEF InOrder
  <2>. QED
    BY <1>1, <1>2, <1>4, <2>1, <2>2 DEF InOrder, IsResponse
\* What is under way after it is what was under way and is not answered by it.
<1>6. \A id \in Ids : UnderWay(id)' <=> UnderWay(id) /\ ~(IsResponse(message) /\ message.id = id)
  <2>. TAKE id \in Ids
  <2>1. /\ message.type = "response" => message.id \in Nat
        /\ \A i \in DOMAIN stdin : stdin[i].id \in Nat
        /\ \A i \in DOMAIN stdout : IsResponse(stdout[i]) => stdout[i].id \in Nat
        /\ reader.line.id \in Nat
    BY <1>1, <1>3, QueueTypes, MessageFields DEF Ids, IsResponse
  <2>2. UnderWay(id)' <=> \/ \E i \in DOMAIN stdin : stdin[i].id = id
                          \/ Busy /\ reader.line.id = id
                          \/ \E i \in DOMAIN stdout' : IsResponse(stdout'[i]) /\ stdout'[i].id = id
    BY <1>2, <1>4 DEF UnderWay, IsResponse
  <2>3. IsResponse(message) /\ message.id = id =>
          /\ \A i \in DOMAIN stdin : stdin[i].id # id
          /\ ~(Busy /\ reader.line.id = id)
          /\ \A i \in DOMAIN stdout' : IsResponse(stdout'[i]) => stdout'[i].id # id
    <3>. SUFFICES ASSUME IsResponse(message), message.id = id
                  PROVE  /\ \A i \in DOMAIN stdin : stdin[i].id # id
                         /\ ~(Busy /\ reader.line.id = id)
                         /\ \A i \in DOMAIN stdout' : IsResponse(stdout'[i]) => stdout'[i].id # id
      OBVIOUS
    <3>1. /\ \A j \in DOMAIN stdin : id < stdin[j].id
          /\ Busy => id < reader.line.id
      BY <1>1, <1>3 DEF InOrder
    <3>2. \A j \in DOMAIN stdout : 1 < j /\ IsResponse(stdout[j]) => id < stdout[j].id
      BY <1>1, <1>3 DEF InOrder
    <3>3. \A i \in DOMAIN stdout' : 1 < i + 1
      BY <1>3
    <3>. QED
      BY <1>3, <2>1, <3>1, <3>2, <3>3 DEF Ids
  <2>4. (\E i \in DOMAIN stdout : IsResponse(stdout[i]) /\ stdout[i].id = id)
          <=> \/ IsResponse(message) /\ message.id = id
              \/ \E i \in DOMAIN stdout' : IsResponse(stdout'[i]) /\ stdout'[i].id = id
    <3>1. \A i \in DOMAIN stdout : i = 1 \/ (i - 1 \in DOMAIN stdout' /\ stdout'[i - 1] = stdout[i])
      BY <1>3
    <3>. QED
      BY <1>3, <3>1
  <2>. QED
    BY <2>2, <2>3, <2>4 DEF UnderWay
<1>7. CASE ~IsResponse(message) /\ UNCHANGED widget
  <2>1. \A id \in Ids : UnderWay(id)' <=> UnderWay(id)
    BY <1>6, <1>7
  <2>2. \A id : AwaitedBy(id)' = AwaitedBy(id)
    BY <1>7 DEF AwaitedBy
  <2>3. Awaited'
    BY <1>1, <1>2, <1>7, <2>1, <2>2 DEF Awaited
  <2>4. OutcomeIsOwn'
    BY <1>1, <1>2, <1>7 DEF Verified, OutcomeIsOwn
  <2>5. \A i \in DOMAIN stdout' :
          IsResponse(stdout'[i]) /\ stdout'[i].verified => verifiedAt[stdout'[i].id] # 0
    BY <1>1, <1>3 DEF Verified, IsVerified
  <2>6. Verified'
    BY <1>1, <1>2, <2>4, <2>5 DEF Verified, IsVerified, IsResponse
  <2>. QED
    BY <1>1, <1>4, <1>5, <2>3, <2>6 DEF Ordered
<1>8. CASE IsResponse(message) /\ widget' = [w \in Widgets |-> Answered(widget[w], message)]
  <2>1. message.id \in Ids /\ message.verified \in BOOLEAN
    BY <1>3, <1>8, MessageFields DEF IsResponse
  <2>2. \A w \in Widgets :
          /\ widget[w].pending # message.id => widget'[w] = widget[w]
          /\ widget[w].pending = message.id => widget'[w].pending = 0
          /\ widget[w].pending = message.id /\ widget'[w].outcome = "verified" => message.verified
    <3>. TAKE w \in Widgets
    <3>1. widget'[w] = Answered(widget[w], message) /\ widget[w] \in Widget
      BY <1>1, <1>8
    <3>2. /\ message.id # widget[w].pending => Answered(widget[w], message) = widget[w]
          /\ message.id = widget[w].pending => Answered(widget[w], message).pending = 0
          /\ Answered(widget[w], message).outcome = "verified" /\ message.id = widget[w].pending
                => message.verified
      BY <1>3, <1>8, <3>1, AnsweredWidget
    <3>. QED
      BY <3>1, <3>2
  <2>3. \A w \in Widgets, id \in Ids :
          widget'[w].pending = id <=> widget[w].pending = id /\ id # message.id
    <3>1. 0 \notin Ids
      BY DEF Ids
    <3>. QED
      BY <2>2, <3>1
  <2>4. Awaited'
    <3>1. \A id \in Ids : UnderWay(id)' => AwaitedBy(id)' # {}
      <4>. SUFFICES ASSUME NEW id \in Ids, UnderWay(id)' PROVE AwaitedBy(id)' # {}
        OBVIOUS
      <4>1. UnderWay(id) /\ id # message.id
        BY <1>6, <1>8
      <4>2. PICK w \in Widgets : widget[w].pending = id
        BY <1>1, <4>1 DEF Awaited, AwaitedBy
      <4>3. widget'[w].pending = id
        BY <2>3, <4>1, <4>2
      <4>. QED
        BY <4>3 DEF AwaitedBy
    <3>2. \A v, w \in Widgets :
            widget'[v].pending = widget'[w].pending /\ widget'[v].pending # 0 => v = w
      BY <1>1, <2>2 DEF Awaited
    <3>3. \A w \in Widgets, id \in Ids : widget'[w].pending = id =>
            /\ id < nextRequestId'
            /\ id = last'[w]
            /\ ~cancelled' => UnderWay(id)'
      BY <1>1, <1>2, <1>6, <2>3 DEF Awaited
    <3>4. helper' # "running" => cancelled'
      BY <1>1, <1>2 DEF Awaited
    <3>. QED
      BY <3>1, <3>2, <3>3, <3>4 DEF Awaited
  <2>5. OutcomeIsOwn'
    <3>. SUFFICES ASSUME NEW w \in Widgets, widget'[w].outcome = "verified", widget'[w].pending = 0
                  PROVE  last[w] # 0 /\ verifiedAt[last[w]] # 0
      BY <1>2 DEF OutcomeIsOwn
    <3>1. CASE widget[w].pending = message.id
      <4>1. message.verified
        BY <2>2, <3>1
      <4>2. verifiedAt[message.id] # 0
        BY <1>1, <1>3, <1>8, <4>1 DEF Verified, IsVerified
      <4>3. last[w] = message.id /\ message.id # 0
        BY <1>1, <2>1, <3>1 DEF Awaited, Ids
      <4>. QED
        BY <4>2, <4>3
    <3>2. CASE widget[w].pending # message.id
      BY <1>1, <2>2, <3>2 DEF Verified, OutcomeIsOwn
    <3>. QED
      BY <3>1, <3>2
  <2>6. \A i \in DOMAIN stdout' :
          IsResponse(stdout'[i]) /\ stdout'[i].verified => verifiedAt[stdout'[i].id] # 0
    BY <1>1, <1>3 DEF Verified, IsVerified
  <2>7. Verified'
    BY <1>1, <1>2, <2>5, <2>6 DEF Verified, IsVerified, IsResponse
  <2>. QED
    BY <1>1, <1>4, <1>5, <2>4, <2>7 DEF Ordered
<1>. QED
  BY <1>2, <1>7, <1>8

\* Answers that are lost with the pipe: the helper was told to end.
LEMMA HelperExitedOrdered ==
    ASSUME Ordered, HelperExited
    PROVE  Ordered'
<1>. USE DEF backend
<1>1. /\ TypeOK /\ InOrder /\ Answers /\ Awaited /\ Verified /\ TypeOK'
  BY HearsTyped DEF Ordered
<1>2. /\ helper = "gone" /\ stdout' = <<>>
      /\ UNCHANGED <<stdin, nextRequestId, widget, last, cancelled, reader, runner, verifiedAt>>
  BY DEF HelperExited
<1>3. cancelled /\ DOMAIN stdout' = {} /\ Busy' = Busy
  <2>1. cancelled
    BY <1>1, <1>2 DEF Awaited
  <2>. QED
    BY <1>2, <2>1 DEF Busy
<1>4. InOrder' /\ Answers'
  BY <1>1, <1>2, <1>3 DEF InOrder, Answers, IsResponse
<1>5. Awaited'
  <2>1. \A id \in Ids : UnderWay(id)' => UnderWay(id)
    BY <1>2, <1>3 DEF UnderWay, IsResponse
  <2>2. \A id : AwaitedBy(id)' = AwaitedBy(id)
    BY <1>2 DEF AwaitedBy
  <2>. QED
    BY <1>1, <1>2, <1>3, <2>1, <2>2 DEF Awaited
<1>6. Verified'
  <2>1. OutcomeIsOwn'
    BY <1>1, <1>2 DEF Verified, OutcomeIsOwn
  <2>. QED
    BY <1>1, <1>2, <1>3, <2>1 DEF Verified, IsVerified, IsResponse
<1>. QED
  BY <1>1, <1>4, <1>5, <1>6 DEF Ordered

------------------------------------------------------------------------------
(* The invariant.                                                          *)

LEMMA InitOrdered == Init => Ordered
<1>. SUFFICES ASSUME Init PROVE Ordered
  OBVIOUS
<1>1. TypeOK
  BY InitTyped
<1>2. /\ stdin = <<>> /\ stdout = <<>> /\ runner = <<>> /\ nextRequestId = 1
      /\ helper = "running"
      /\ reader = [at |-> "wait", line |-> [id |-> 1, kind |-> "anc"], messages |-> <<>>]
      /\ widget = [w \in Widgets |-> [pending |-> 0, kind |-> "", outcome |-> ""]]
  BY DEF Init
<1>4. reader.at = "wait" /\ reader.messages = <<>> /\ ~Busy
  BY <1>2 DEF Busy
<1>3. DOMAIN stdin = {} /\ DOMAIN stdout = {} /\ DOMAIN runner = {} /\ DOMAIN reader.messages = {}
  <2>1. DOMAIN <<>> = {}
    OBVIOUS
  <2>. QED
    BY <1>2, <1>4, <2>1
<1>5. \A w \in Widgets : widget[w].pending = 0 /\ widget[w].outcome = ""
  BY <1>2
<1>6. InOrder /\ Answers
  BY <1>3, <1>4 DEF InOrder, Answers
<1>7. Awaited
  <2>1. \A id : ~UnderWay(id)
    BY <1>3, <1>4 DEF UnderWay
  <2>2. \A id \in Ids : id # 0
    BY DEF Ids
  <2>. QED
    BY <1>2, <1>5, <2>1, <2>2 DEF Awaited
<1>8. Verified
  BY <1>3, <1>4, <1>5 DEF Verified, OutcomeIsOwn
<1>. QED
  BY <1>1, <1>6, <1>7, <1>8 DEF Ordered

LEMMA StepOrdered ==
    ASSUME Ordered, [Next]_vars
    PROVE  Ordered'
<1>1. CASE Asks
  <2>1. ASSUME NEW w \in Widgets, ClearOutcome(w) PROVE Ordered'
    BY <2>1, ClearOutcomeOrdered
  <2>2. ASSUME NEW w \in Widgets, NEW kind \in Kinds, Ask(w, kind) PROVE Ordered'
    BY <2>2, AskOrdered
  <2>. QED
    BY <1>1, <2>1, <2>2 DEF Asks
<1>2. CASE HandleLine
  BY <1>2, HandleLineOrdered
<1>3. CASE HelperExited
  BY <1>3, HelperExitedOrdered
<1>4. CASE TakeLine
  BY <1>4, TakeLineOrdered
<1>5. CASE Execute
  BY <1>5, ExecuteOrdered
<1>6. CASE ReaderWrites
  BY <1>6, ReaderWritesOrdered
<1>7. CASE Poll \/ Reconnect \/ Cancel \/ Shutdown \/ HelperEnds
  BY <1>7, RunnerOrdered
<1>8. CASE RunnerWrites
  BY <1>8, RunnerWritesOrdered
<1>9. CASE UNCHANGED vars
  <2>1. UNCHANGED <<helper, stdin, stdout, state, nextRequestId, widget, cancelled, generation,
                    reader, runner, last, verifiedAt>>
    BY <1>9 DEF vars, frontend, backend
  <2>2. TypeOK' /\ InOrder' /\ Answers'
    BY <2>1 DEF Ordered, TypeOK, InOrder, Answers, Busy, IsResponse
  <2>3. \A id : UnderWay(id)' = UnderWay(id) /\ AwaitedBy(id)' = AwaitedBy(id)
    BY <2>1 DEF UnderWay, AwaitedBy, Busy, IsResponse
  <2>4. Awaited' /\ Verified'
    BY <2>1, <2>3 DEF Ordered, Awaited, Verified, OutcomeIsOwn, IsVerified, IsResponse
  <2>. QED
    BY <2>2, <2>4 DEF Ordered
<1>. QED
  BY <1>1, <1>2, <1>3, <1>4, <1>5, <1>6, <1>7, <1>8, <1>9 DEF Next

LEMMA AlwaysOrdered == Spec => []Ordered
<1>1. Init => Ordered
  BY InitOrdered
<1>2. Ordered /\ [Next]_vars => Ordered'
  BY StepOrdered
<1>. QED
  BY <1>1, <1>2, PTL DEF Spec

\* Every variable keeps to its values, and the pipe to its size.
THEOREM TypeCorrect == Spec => []TypeOK
<1>1. Ordered => TypeOK
  BY DEF Ordered
<1>. QED
  BY <1>1, AlwaysOrdered, PTL

\* A widget says "verified" only of its own last request, and when that was verified,
\* however the requests of other widgets, lost answers and the end of the helper fall
\* between asking and hearing.
THEOREM OutcomeAlwaysOwn == Spec => []OutcomeIsOwn
<1>1. Ordered => OutcomeIsOwn
  BY DEF Ordered, Verified
<1>. QED
  BY <1>1, AlwaysOrdered, PTL

------------------------------------------------------------------------------
(* Places.                                                                 *)

LEMMA PlacesOfARequest ==
    ASSUME NEW id, NEW place
    PROVE  place \in Places(id) <=>
              \/ \E i \in DOMAIN stdin : stdin[i].id = id /\ place = <<"stdin", i>>
              \/ /\ reader.at \in {"execute", "second_read", "snapshot"}
                 /\ reader.line.id = id /\ place = <<"reader", 0>>
              \/ \E i \in DOMAIN reader.messages :
                    /\ IsResponse(reader.messages[i]) /\ reader.messages[i].id = id
                    /\ place = <<"answer", i>>
              \/ \E i \in DOMAIN stdout :
                    IsResponse(stdout[i]) /\ stdout[i].id = id /\ place = <<"stdout", i>>
<1>1. place \in {<<"stdin", i>> : i \in {i \in DOMAIN stdin : stdin[i].id = id}}
        <=> \E i \in DOMAIN stdin : stdin[i].id = id /\ place = <<"stdin", i>>
  OBVIOUS
<1>2. place \in {<<"reader", i>> : i \in {i \in {0} :
                      /\ reader.at \in {"execute", "second_read", "snapshot"}
                      /\ reader.line.id = id}}
        <=> /\ reader.at \in {"execute", "second_read", "snapshot"}
            /\ reader.line.id = id /\ place = <<"reader", 0>>
  OBVIOUS
<1>3. place \in {<<"answer", i>> : i \in {i \in Responses(reader.messages) :
                                              reader.messages[i].id = id}}
        <=> \E i \in DOMAIN reader.messages :
              /\ IsResponse(reader.messages[i]) /\ reader.messages[i].id = id
              /\ place = <<"answer", i>>
  BY DEF Responses, IsResponse
<1>4. place \in {<<"stdout", i>> : i \in {i \in Responses(stdout) : stdout[i].id = id}}
        <=> \E i \in DOMAIN stdout :
              IsResponse(stdout[i]) /\ stdout[i].id = id /\ place = <<"stdout", i>>
  BY DEF Responses, IsResponse
<1>. QED
  BY <1>1, <1>2, <1>3, <1>4 DEF Places

LEMMA OnePlace ==
    ASSUME Ordered, NEW id \in Ids
    PROVE  /\ Places(id) # {} <=> UnderWay(id)
           /\ \A p, q \in Places(id) : p = q
<1>1. TypeOK /\ InOrder /\ Answers
  BY DEF Ordered
<1>. DEFINE AtStdin(i) == i \in DOMAIN stdin /\ stdin[i].id = id
            AtStdout(i) == i \in DOMAIN stdout /\ IsResponse(stdout[i]) /\ stdout[i].id = id
            AtReader == Busy /\ reader.line.id = id
            Executing == reader.at \in {"execute", "second_read", "snapshot"}
            Final == Len(reader.messages)
<1>2. \A i \in DOMAIN reader.messages : IsResponse(reader.messages[i]) =>
         i = Final /\ reader.at = "write" /\ reader.messages[i].id = reader.line.id
  <2>1. CASE reader.at = "write"
    BY <1>1, <2>1 DEF Answers
  <2>2. CASE reader.at # "write"
    BY <1>1, <2>2 DEF Answers
  <2>. QED
    BY <2>1, <2>2
<1>3. reader.at = "write" => /\ Final \in DOMAIN reader.messages
                             /\ IsResponse(reader.messages[Final])
                             /\ reader.messages[Final].id = reader.line.id
  <2>1. reader.at = "write" => reader.messages # <<>>
    BY <1>1 DEF Answers
  <2>2. reader.messages # <<>> => Final \in DOMAIN reader.messages
    <3>1. reader.messages # <<>> => Len(reader.messages) \in Nat \ {0}
      BY <1>1, QueueTypes, OneLess
    <3>2. DOMAIN reader.messages = 1..Len(reader.messages)
      BY <1>1, QueueTypes
    <3>. QED
      BY <3>1, <3>2
  <2>. QED
    BY <1>1, <2>1, <2>2 DEF Answers
<1>4. Busy <=> Executing \/ reader.at = "write"
  BY DEF Busy
<1>5. \A place : place \in Places(id) <=>
         \/ \E i : AtStdin(i) /\ place = <<"stdin", i>>
         \/ AtReader /\ Executing /\ place = <<"reader", 0>>
         \/ AtReader /\ reader.at = "write" /\ place = <<"answer", Final>>
         \/ \E i : AtStdout(i) /\ place = <<"stdout", i>>
  <2>. TAKE place
  <2>1. (\E i \in DOMAIN reader.messages :
            /\ IsResponse(reader.messages[i]) /\ reader.messages[i].id = id
            /\ place = <<"answer", i>>)
          <=> AtReader /\ reader.at = "write" /\ place = <<"answer", Final>>
    BY <1>2, <1>3, <1>4
  <2>. QED
    BY <1>4, <2>1, PlacesOfARequest
<1>6. UnderWay(id) <=> (\E i : AtStdin(i)) \/ AtReader \/ (\E i : AtStdout(i))
  BY DEF UnderWay
<1>7. Places(id) # {} <=> UnderWay(id)
  BY <1>4, <1>5, <1>6
<1>8. \A i, j : AtStdin(i) /\ AtStdin(j) => i = j
  <2>. SUFFICES ASSUME NEW i, NEW j, AtStdin(i), AtStdin(j), i # j PROVE FALSE
    OBVIOUS
  <2>1. i \in Nat /\ j \in Nat
    BY <1>1, QueueTypes
  <2>2. i < j \/ j < i
    BY <2>1
  <2>. QED
    BY <1>1, <2>2 DEF InOrder, Ids
<1>9. \A i, j : AtStdout(i) /\ AtStdout(j) => i = j
  <2>. SUFFICES ASSUME NEW i, NEW j, AtStdout(i), AtStdout(j), i # j PROVE FALSE
    OBVIOUS
  <2>1. i \in Nat /\ j \in Nat
    BY <1>1, QueueTypes
  <2>2. i < j \/ j < i
    BY <2>1
  <2>. QED
    BY <1>1, <2>2 DEF InOrder, Ids
<1>10. \A i, j : /\ ~(AtStdin(i) /\ AtStdout(j))
                 /\ ~(AtStdin(i) /\ AtReader)
                 /\ ~(AtStdout(j) /\ AtReader)
  BY <1>1 DEF InOrder, Ids
<1>11. ~(Executing /\ reader.at = "write")
  OBVIOUS
<1>. HIDE DEF AtStdin, AtStdout, AtReader, Executing, Final
<1>12. \A p, q \in Places(id) : p = q
  BY <1>5, <1>8, <1>9, <1>10, <1>11
<1>. QED
  BY <1>7, <1>12

\* No answer goes unheard or is heard twice, and until the helper is told to end,
\* what a widget waits for is on its way: for any number of widgets, requests and
\* lines in the pipe.
THEOREM PendingAlwaysUnderWay == Spec => []PendingIsUnderWay
<1>1. ASSUME Ordered PROVE PendingIsUnderWay
  <2>1. TypeOK /\ Awaited /\ widget \in [Widgets -> Widget]
    BY <1>1, Types DEF Ordered
  <2>2. ASSUME NEW id \in Ids, Places(id) # {}
        PROVE  /\ \E place \in Places(id) : Places(id) = {place}
               /\ \E w \in Widgets : {v \in Widgets : widget[v].pending = id} = {w}
    <3>1. UnderWay(id) /\ \A p, q \in Places(id) : p = q
      BY <1>1, <2>2, OnePlace
    <3>2. PICK place \in Places(id) : TRUE
      BY <2>2
    <3>3. Places(id) = {place}
      BY <3>1, <3>2
    <3>4. PICK w \in Widgets : widget[w].pending = id
      BY <2>1, <3>1 DEF Awaited, AwaitedBy
    <3>5. id # 0
      BY DEF Ids
    <3>6. {v \in Widgets : widget[v].pending = id} = {w}
      BY <2>1, <3>4, <3>5 DEF Awaited
    <3>. QED
      BY <3>2, <3>3, <3>4, <3>6
  <2>3. ASSUME ~cancelled, NEW w \in Widgets, widget[w].pending # 0
        PROVE  Places(widget[w].pending) # {}
    <3>1. widget[w].pending \in Ids
      BY <2>1, <2>3 DEF Widget
    <3>2. UnderWay(widget[w].pending)
      BY <2>1, <2>3, <3>1 DEF Awaited
    <3>. QED
      BY <1>1, <3>1, <3>2, OnePlace
  <2>. QED
    BY <2>2, <2>3 DEF PendingIsUnderWay
<1>. QED
  BY <1>1, AlwaysOrdered, PTL

================================================================================
