----------------------------- MODULE EqSession -------------------------------
(***************************************************************************)
(* Equaliser commands over one session: OpoSession.eq_status, set_eq and   *)
(* set_custom_eq, with BudsController's cache of the last EQ read.  A read *)
(* takes two queries; a write is read first, SET once, then verified by    *)
(* new queries.  Frames met on the way are collected and applied to the    *)
(* cache when the command ends.  HeyMelody, on a phone, selects presets on *)
(* the same earbuds; they announce it with NOTIFY_EQ once subscribed.      *)
(*                                                                         *)
(* As in AncSession, the controller lock is held while pc # "idle", and a  *)
(* wait may end in a timeout, an I/O error or an undecodable frame at any  *)
(* point.  The earbuds apply a SET when they handle it, or refuse it.      *)
(***************************************************************************)
EXTENDS OpoWire

CONSTANTS
    Ids,             \* EQ ids, factory presets and the custom entry's
    CustomId,        \* the entry whose curve can be edited
    Curves,          \* gains of the custom entry
    NoEq,            \* nothing cached; also a field that carries no value
    MaxQueries,      \* 32 verification queries in the code
    MaxInFlight,     \* bound: frames and requests in flight when a command starts
    MaxWrites,       \* bound: SET frames sent in a behaviour
    MaxSelections    \* bound: selections made from the phone

ASSUME EqAssumption ==
    /\ CustomId \in Ids
    /\ NoEq \notin Ids \cup Curves \cup [id : Ids, curve : Curves]
    /\ MaxQueries \in Nat \ {0}
    /\ MaxInFlight \in Nat
    /\ MaxWrites \in Nat
    /\ MaxSelections \in Nat

Values == Ids \cup Curves \cup {NoEq}
Phases == {"read_current", "read_entries", "ack", "verify",
           "confirm_current", "confirm_entries"}
ResponseTo == [QUERY_EQ |-> "RESPONSE_EQ", QUERY_EQ_ALL |-> "RESPONSE_EQ_ALL",
               SET_EQ |-> "RESPONSE_SET_EQ", SET_EQ_DETAIL |-> "RESPONSE_SET_EQ_DETAIL"]

\* Why a cached EQ may differ from the earbuds' although nothing is in flight.
Causes == {"unsubscribed", "reopened", "undecodable", "during_command", "overflow"}

VARIABLES
    selected,        \* the earbuds' selected id
    curve,           \* the gains of their custom entry
    subscribed,      \* whether they announce changes on the present session
    up, down,        \* requests and frames in flight, in order
    running,         \* BudsController._running
    open,            \* BudsController._session is not None
    subscriptionPending,  \* OpoSession._subscription_pending
    sequence,        \* RfcommTransport._sequence
    pc,              \* "idle" or the phase whose reply is awaited
    op,              \* the command: kind "status", "preset" or "custom", and target
    want,            \* the reply awaited
    queries,         \* query_count
    readId,          \* the current id of the last read
    readAsOf,        \* history: writes handled when it was read
    eqStatus,        \* BudsController._eq_status: id and curve
    outcome,         \* of the last command: "none", "ok" or "failed"
    writes,          \* history: SET frames sent
    selections,      \* history: selections made from the phone
    cacheAsOf,       \* history: writes handled when eqStatus was read
    evidence,        \* history: value and asOf of the reply that verified a write
    overlooking,     \* history: causes met since the present read began
    overlooked       \* history: causes met since eqStatus was read

earbuds == <<selected, curve, subscribed, selections>>
link == <<up, down>>
client == <<running, open, subscriptionPending, sequence>>
transaction == <<pc, op, want, queries, readId, readAsOf>>
cache == <<eqStatus, cacheAsOf, overlooked>>
result == <<outcome, evidence>>
vars == <<earbuds, link, client, transaction, cache, result, writes, overlooking>>

Request == [command : DOMAIN ResponseTo, sequence : SequenceNumbers, value : Values]
Frame == [command : {"RESPONSE_EQ", "RESPONSE_EQ_ALL", "RESPONSE_SET_EQ",
                     "RESPONSE_SET_EQ_DETAIL", "NOTIFY_EQ"},
          sequence : {0} \cup SequenceNumbers, value : Values, asOf : Nat]
EqRead == [id : Ids, curve : Curves]

TypeOK ==
    /\ selected \in Ids
    /\ curve \in Curves
    /\ subscribed \in BOOLEAN
    /\ up \in Seq(Request)
    /\ down \in Seq(Frame)
    /\ running \in BOOLEAN
    /\ open \in BOOLEAN
    /\ open => running
    /\ subscriptionPending \in BOOLEAN
    /\ sequence \in SequenceNumbers
    /\ pc \in {"idle"} \cup Phases
    /\ op \in [kind : {"status", "preset", "custom"}, target : Values]
    /\ want \in [command : {ResponseTo[c] : c \in DOMAIN ResponseTo}, sequence : SequenceNumbers]
    /\ queries \in 0..MaxQueries
    /\ readId \in Ids \cup {NoEq}
    /\ eqStatus \in EqRead \cup {NoEq}
    /\ outcome \in {"none", "ok", "failed"}
    /\ {writes, selections, readAsOf, cacheAsOf} \subseteq Nat
    /\ evidence \in [value : Values, asOf : Nat]
    /\ overlooking \subseteq Causes
    /\ overlooked \subseteq Causes

Init ==
    /\ selected \in Ids
    /\ curve \in Curves
    /\ subscribed = FALSE
    /\ up = <<>>
    /\ down = <<>>
    /\ running = FALSE
    /\ open = FALSE
    /\ subscriptionPending = FALSE
    /\ sequence = 1
    /\ pc = "idle"
    /\ op = [kind |-> "status", target |-> NoEq]
    /\ want = [command |-> "RESPONSE_EQ", sequence |-> 1]
    /\ queries = 0
    /\ readId = NoEq
    /\ readAsOf = 0
    /\ eqStatus = NoEq
    /\ outcome = "none"
    /\ writes = 0
    /\ selections = 0
    /\ cacheAsOf = 0
    /\ evidence = [value |-> NoEq, asOf |-> 0]
    /\ overlooking = {}
    /\ overlooked = {}

------------------------------------------------------------------------------
(* The earbuds and the phone.                                              *)

SetCommands == {"SET_EQ", "SET_EQ_DETAIL"}

SetsInFlight == {i \in DOMAIN up : up[i].command \in SetCommands}

\* How many writes the earbuds have seen: those sent, less those in flight.
HandledWrites == writes - Cardinality(SetsInFlight)

Answer(request, value) ==
    [command |-> ResponseTo[request.command], sequence |-> request.sequence,
     value |-> value, asOf |-> HandledWrites]

\* Any request may go unanswered.
AnswerOrNot(value) ==
    down' \in {down, Append(down, Answer(Head(up), value))}

EarbudsHandleQuery ==
    /\ up # <<>>
    /\ up' = Tail(up)
    /\ \/ Head(up).command = "QUERY_EQ" /\ AnswerOrNot(selected)
       \/ Head(up).command = "QUERY_EQ_ALL" /\ AnswerOrNot(curve)
    /\ UNCHANGED <<earbuds, client, transaction, cache, result, writes, overlooking>>

\* A SET is applied or refused, acknowledged or not.
EarbudsHandleSet ==
    /\ up # <<>>
    /\ up' = Tail(up)
    /\ \/ /\ Head(up).command = "SET_EQ"
          /\ selected' \in {selected, Head(up).value}
          /\ UNCHANGED curve
       \/ /\ Head(up).command = "SET_EQ_DETAIL"
          /\ \/ selected' = CustomId /\ curve' = Head(up).value
             \/ UNCHANGED <<selected, curve>>
    /\ AnswerOrNot(NoEq)
    /\ UNCHANGED <<subscribed, selections, client, transaction, cache, result, writes,
                   overlooking>>

\* A selection on the phone, announced on a subscribed session.
HeyMelodySelects(id) ==
    /\ selections < MaxSelections
    /\ id # selected
    /\ selected' = id
    /\ selections' = selections + 1
    /\ IF open /\ subscribed
       THEN /\ down' = Append(down, [command |-> "NOTIFY_EQ", sequence |-> 0,
                                     value |-> id, asOf |-> HandledWrites])
            /\ UNCHANGED <<overlooking, overlooked>>
       ELSE /\ overlooking' = overlooking \cup {"unsubscribed"}
            /\ overlooked' = overlooked \cup {"unsubscribed"}
            /\ UNCHANGED down
    /\ UNCHANGED <<curve, subscribed, up, client, transaction, eqStatus, cacheAsOf,
                   result, writes>>

------------------------------------------------------------------------------
(* Events and the cache.                                                   *)

\* Fault: NOTIFY_EQ is not understood.
AnnouncesEqResponse(frames) ==
    \E i \in DOMAIN frames : frames[i].command = "RESPONSE_EQ"

\* parse_eq_id accepts a current-EQ response with any sequence and NOTIFY_EQ.
AnnouncesEq(frames) ==
    \E i \in DOMAIN frames : frames[i].command \in {"RESPONSE_EQ", "NOTIFY_EQ"}

ForgetEq ==
    /\ eqStatus' = NoEq
    /\ cacheAsOf' = 0
    /\ overlooked' = {}

KeepEq == UNCHANGED cache

\* A socket is closed: frames are lost, SETs in flight may have arrived, and the
\* next one counts from 1 (the queries of its setup are left out).
CloseSocket ==
    /\ subscribed' = FALSE
    /\ sequence' = 1
    /\ up' = <<>>
    /\ down' = <<>>
    /\ selected' \in {selected}
          \cup {up[i].value : i \in {j \in SetsInFlight : up[j].command = "SET_EQ"}}
          \cup (IF \E i \in SetsInFlight : up[i].command = "SET_EQ_DETAIL"
                THEN {CustomId} ELSE {})
    /\ curve' \in {curve}
          \cup {up[i].value : i \in {j \in SetsInFlight : up[j].command = "SET_EQ_DETAIL"}}
    /\ UNCHANGED selections

------------------------------------------------------------------------------
(* Commands.  Each phase sends one request and waits for its reply.        *)

\* No request or frame stays in flight while the counter goes all the way around:
\* with 0xFE numbers that takes longer than 254 deadlines.
NotInFlight(seq) ==
    /\ \A i \in DOMAIN up : up[i].sequence # seq
    /\ \A i \in DOMAIN down : down[i].sequence # seq

Send(command, value, phase) ==
    /\ NotInFlight(sequence)
    /\ up' = Append(up, [command |-> command, sequence |-> sequence, value |-> value])
    /\ want' = [command |-> ResponseTo[command], sequence |-> sequence]
    /\ sequence' = NextSequence(sequence)
    /\ pc' = phase

Targets(kind) ==
    CASE kind = "status" -> {NoEq}
      [] kind = "preset" -> Ids \cup {NoEq}     \* NoEq: a name the earbuds do not list
      [] kind = "custom" -> Curves \cup {NoEq}  \* NoEq: gains the entry does not allow

\* Every command reads the EQ first.  Without a session it reconnects first,
\* which clears the cache and leaves the subscription to the next poll.
Begin(kind, target) ==
    /\ pc = "idle"
    /\ running
    /\ kind = "status" \/ writes < MaxWrites
    /\ Len(up) + Len(down) < MaxInFlight
    /\ target \in Targets(kind)
    /\ \/ /\ open
          /\ KeepEq
          /\ UNCHANGED <<subscriptionPending, down>>
       \/ /\ ~open
          /\ subscriptionPending' = TRUE
          /\ down' = <<>>
          /\ ForgetEq
    /\ open' = TRUE
    /\ op' = [kind |-> kind, target |-> target]
    /\ Send("QUERY_EQ", NoEq, "read_current")
    /\ queries' = 0
    /\ outcome' = "none"
    /\ overlooking' = {}
    /\ UNCHANGED <<running, earbuds, readId, readAsOf, evidence, writes>>

\* A recv of n frames whose i-th is the awaited reply.
Received(phase, n, i) ==
    LET chunk == Chunk(down, n) IN
    /\ pc = phase
    /\ i \in DOMAIN chunk
    /\ IsReplyAt(chunk, want, i)
    /\ down' = Unread(down, n)
    /\ overlooking' = overlooking \cup
          (IF AnnouncesEq(Others(chunk, want)) THEN {"during_command"} ELSE {})
    /\ UNCHANGED earbuds

\* A recv of n frames without it.
ReceiveOthers(n) ==
    LET chunk == Chunk(down, n) IN
    /\ pc # "idle"
    /\ ~HasReply(chunk, want)
    /\ down' = Unread(down, n)
    /\ overlooking' = overlooking \cup
          (IF AnnouncesEq(chunk) THEN {"during_command"} ELSE {})
    /\ UNCHANGED <<earbuds, up, client, transaction, cache, result, writes>>

\* The current id, of the preserving read or of the confirming one; the
\* confirming one is evidence of a preset write.
ReceiveCurrent(n, i) ==
    /\ \/ Received("read_current", n, i) /\ Send("QUERY_EQ_ALL", NoEq, "read_entries")
          /\ UNCHANGED evidence
       \/ /\ op.kind = "preset"
          /\ Received("confirm_current", n, i)
          /\ Send("QUERY_EQ_ALL", NoEq, "confirm_entries")
          /\ evidence' = [value |-> down[i].value, asOf |-> down[i].asOf]
    /\ readId' = down[i].value
    /\ readAsOf' = down[i].asOf
    /\ UNCHANGED <<running, open, subscriptionPending, op, queries, cache, outcome, writes>>

\* eq_status ends: its events are applied first, then the value read replaces
\* whatever they left in the cache.
ReceiveStatus(n, i) ==
    /\ op.kind = "status"
    /\ Received("read_entries", n, i)
    /\ pc' = "idle"
    /\ eqStatus' = [id |-> readId, curve |-> down[i].value]
    /\ cacheAsOf' = readAsOf
    /\ overlooked' = overlooking'
    /\ outcome' = "ok"
    /\ UNCHANGED <<up, client, op, want, queries, readId, readAsOf, evidence, writes>>

\* A write goes on from its preserving read: SET is sent, once.
ReceiveTarget(n, i) ==
    /\ op.target # NoEq
    /\ Received("read_entries", n, i)
    /\ \/ op.kind = "preset" /\ Send("SET_EQ", op.target, "ack")
       \/ op.kind = "custom" /\ Send("SET_EQ_DETAIL", op.target, "ack")
    /\ writes' = writes + 1
    /\ UNCHANGED <<running, open, subscriptionPending, op, queries, readId, readAsOf, cache, result>>

\* Or is rejected with ValueError: the events collected so far are dropped with
\* the exception, and session and cache stay.
ReceiveRejected(n, i) ==
    /\ op.kind # "status"
    /\ op.target = NoEq
    /\ Received("read_entries", n, i)
    /\ pc' = "idle"
    /\ outcome' = "failed"
    /\ overlooked' = overlooked \cup overlooking'
    /\ UNCHANGED <<up, client, op, want, queries, readId, readAsOf, eqStatus, cacheAsOf,
                   evidence, writes>>

VerifyQuery == IF op.kind = "preset" THEN "QUERY_EQ" ELSE "QUERY_EQ_ALL"

\* Fault: no limit to the queries.
VerifyUnbounded ==
    /\ Send(VerifyQuery, NoEq, "verify")
    /\ queries' = queries + 1
    /\ UNCHANGED <<running, open, subscriptionPending, op, readId, readAsOf, cache, outcome, writes>>

Verify ==
    /\ queries < MaxQueries
    /\ Send(VerifyQuery, NoEq, "verify")
    /\ queries' = queries + 1
    /\ UNCHANGED <<running, open, subscriptionPending, op, readId, readAsOf, cache, outcome, writes>>

\* Fault: the acknowledgement is taken for proof.
ReceiveAckAsProof(n, i) ==
    /\ Received("ack", n, i)
    /\ pc' = "idle"
    /\ ForgetEq
    /\ outcome' = "ok"
    /\ UNCHANGED <<up, client, op, want, queries, readId, readAsOf, evidence, writes>>

\* The acknowledgement is no proof: verification begins.
ReceiveAck(n, i) == Received("ack", n, i) /\ Verify /\ UNCHANGED evidence

\* Fault: SET is sent again when its acknowledgement does not come.
ReplaySet ==
    /\ pc = "ack"
    /\ Send(IF op.kind = "preset" THEN "SET_EQ" ELSE "SET_EQ_DETAIL", op.target, "ack")
    /\ writes' = writes + 1
    /\ UNCHANGED <<earbuds, down, running, open, subscriptionPending, op, queries, readId,
                   readAsOf, cache, result, overlooking>>

AckTimeout == pc = "ack" /\ Verify /\ UNCHANGED <<earbuds, down, evidence, overlooking>>

\* A verification reply: asked again until it shows the target.
ReceiveVerify(n, i) ==
    /\ Received("verify", n, i)
    /\ \/ down[i].value # op.target /\ Verify /\ UNCHANGED evidence
       \/ /\ down[i].value = op.target
          /\ Send("QUERY_EQ", NoEq, "confirm_current")
          /\ evidence' = [value |-> down[i].value, asOf |-> down[i].asOf]
          /\ UNCHANGED <<running, open, subscriptionPending, op, queries, readId, readAsOf, cache,
                         outcome, writes>>

\* The last confirmation agrees; the cached EQ is forgotten for a new read.
WriteSucceeds(n, i) ==
    /\ \/ op.kind = "preset" /\ Received("confirm_entries", n, i) /\ readId = op.target
       \/ /\ op.kind = "custom"
          /\ Received("confirm_current", n, i)
          /\ down[i].value = CustomId
    /\ pc' = "idle"
    /\ ForgetEq
    /\ outcome' = "ok"
    /\ UNCHANGED <<up, client, op, want, queries, readId, readAsOf, evidence, writes>>

\* Fault: a failed write leaves the cached EQ.
WriteFailsKeepingEq ==
    /\ op.kind # "status"
    /\ pc # "idle"
    /\ pc' = "idle"
    /\ CloseSocket
    /\ open' = FALSE
    /\ KeepEq
    /\ outcome' = "failed"
    /\ UNCHANGED <<running, subscriptionPending, op, want, queries, readId, readAsOf,
                   evidence, writes, overlooking>>

\* A write fails in any phase: deadline, I/O error, mismatch, queries used up.
\* The session is closed and the cache forgotten.
WriteFails ==
    /\ op.kind # "status"
    /\ pc # "idle"
    /\ pc' = "idle"
    /\ CloseSocket
    /\ open' = FALSE
    /\ ForgetEq
    /\ outcome' = "failed"
    /\ UNCHANGED <<running, subscriptionPending, op, want, queries, readId, readAsOf,
                   evidence, writes, overlooking>>

\* eq_status fails: the exception leaves the session open, the cache as it was
\* and loses the events collected.
StatusFails ==
    /\ op.kind = "status"
    /\ pc # "idle"
    /\ pc' = "idle"
    /\ outcome' = "failed"
    /\ overlooked' = overlooked \cup overlooking
    /\ UNCHANGED <<earbuds, link, client, op, want, queries, readId, readAsOf, eqStatus,
                   cacheAsOf, evidence, writes, overlooking>>

\* FrameStream raises ValueError in any phase, also after SET was sent; it is
\* taken for a rejected parameter, which closes nothing and clears nothing.
Undecodable(n) ==
    /\ pc # "idle"
    /\ pc' = "idle"
    /\ down' = Unread(down, n)
    /\ outcome' = "failed"
    /\ overlooked' = overlooked \cup overlooking \cup {"undecodable"}
    /\ UNCHANGED <<earbuds, up, client, op, want, queries, readId, readAsOf, eqStatus,
                   cacheAsOf, evidence, writes, overlooking>>

------------------------------------------------------------------------------
(* Polling, reconnecting, and what noise-control commands do to the session. *)

\* The first poll of a session subscribes; whether the earbuds answered in time
\* decides if they announce changes.  An announced change forgets the cache.
Poll(n) ==
    /\ pc = "idle"
    /\ open
    /\ subscriptionPending' = FALSE
    /\ subscribed' \in IF subscriptionPending THEN BOOLEAN ELSE {subscribed}
    /\ down' = Unread(down, n)
    /\ IF AnnouncesEq(Chunk(down, n)) THEN ForgetEq ELSE KeepEq
    /\ UNCHANGED <<selected, curve, selections, up, running, open, sequence, transaction, result,
                   writes, overlooking>>

\* shutdown() and start(), after a failed poll or at the refresh command.
Refresh(connected) ==
    /\ pc = "idle"
    /\ CloseSocket
    /\ running' = connected
    /\ open' = connected
    /\ ForgetEq
    /\ subscriptionPending' = connected
    /\ UNCHANGED <<transaction, result, writes, overlooking>>

\* A noise-control command that keeps the session applies the events it met, but of more
\* than 64 only the last: an announcement before those is dropped, and the cache stays.
\* (One that meets nothing would only move the counter on and is left out.)
AncReceives(n) ==
    /\ pc = "idle"
    /\ open
    /\ down' = Unread(down, n)
    /\ sequence' = NextSequence(sequence)
    /\ IF AnnouncesEq(Chunk(down, n))
       THEN \/ ForgetEq
            \/ /\ overlooked' = overlooked \cup {"overflow"}
               /\ UNCHANGED <<eqStatus, cacheAsOf>>
       ELSE KeepEq
    /\ UNCHANGED <<earbuds, up, running, open, subscriptionPending, transaction, result, writes,
                   overlooking>>

\* A noise-control write that fails, or writes a strength on a socket of its own,
\* closes the session and keeps the EQ cache.
AncClosesSession ==
    /\ pc = "idle"
    /\ open
    /\ CloseSocket
    /\ open' = FALSE
    /\ overlooked' = overlooked \cup (IF AnnouncesEq(down) THEN {"reopened"} ELSE {})
    /\ UNCHANGED <<running, subscriptionPending, transaction, eqStatus, cacheAsOf, result,
                   writes, overlooking>>

\* The next one, or the same, reopens and subscribes; it does not read the EQ.
AncReopensSession ==
    /\ pc = "idle"
    /\ running
    /\ ~open
    /\ open' = TRUE
    /\ subscriptionPending' = FALSE
    /\ subscribed' \in BOOLEAN
    /\ UNCHANGED <<selected, curve, selections, link, running, sequence, transaction, cache,
                   result, writes, overlooking>>

------------------------------------------------------------------------------

Outside ==
    \/ EarbudsHandleQuery
    \/ EarbudsHandleSet
    \/ \E id \in Ids : HeyMelodySelects(id)

Reply ==
    \E n \in 1..Len(down) : \E i \in 1..n :
        \/ ReceiveCurrent(n, i)
        \/ ReceiveStatus(n, i)
        \/ ReceiveTarget(n, i)
        \/ ReceiveRejected(n, i)
        \/ ReceiveAck(n, i)
        \/ ReceiveVerify(n, i)
        \/ WriteSucceeds(n, i)

Command ==
    \/ \E kind \in {"status", "preset", "custom"} :
          \E target \in Targets(kind) : Begin(kind, target)
    \/ Reply
    \/ \E n \in 1..Len(down) : ReceiveOthers(n)
    \/ AckTimeout
    \/ WriteFails
    \/ StatusFails
    \/ \E n \in 0..Len(down) : Undecodable(n)

Monitoring ==
    \/ \E n \in 0..Len(down) : Poll(n)
    \/ \E n \in 1..Len(down) : AncReceives(n)
    \/ \E connected \in BOOLEAN : Refresh(connected)
    \/ AncClosesSession
    \/ AncReopensSession

Next == Outside \/ Command \/ Monitoring

Spec == Init /\ [][Next]_vars

------------------------------------------------------------------------------
(* Properties.                                                             *)

\* An EQ write is reported as verified only by a reply that shows its target and
\* was given after the earbuds handled its SET, although failed reads leave the
\* session open with their late replies still to come.
VerifiedByFreshRead ==
    outcome = "ok" /\ op.kind # "status" =>
        /\ evidence.value = op.target
        /\ evidence.asOf = writes

\* Whenever another thread can see the cached EQ it was read after the last SET
\* that may have reached the earbuds; undecodable frames are the exception.
ShownEqNotOlderThanWrite ==
    pc = "idle" /\ eqStatus # NoEq /\ "undecodable" \notin overlooked =>
        cacheAsOf = writes

\* Every change made elsewhere has been announced to the controller or noticed.
Quiet == pc = "idle" /\ open /\ up = <<>> /\ ~AnnouncesEq(down)

\* On a quiet link the cached selection is the earbuds' own, unless a change was
\* made while they did not announce it, or its announcement was received by a
\* running command, lost with a socket or to an undecodable frame, or dropped by a
\* noise-control command that received too many events (session.py:187).
StaleEqHasCause ==
    Quiet /\ eqStatus # NoEq /\ eqStatus.id # selected => overlooked # {}

\* controller.py:302: after an eq_changed event "the next consumer read must fetch
\* complete state": an announcement the session received and did not have to drop
\* forgets the cached EQ.
AnnouncedChangeForgetsEq ==
    Quiet /\ eqStatus # NoEq /\ eqStatus.id # selected =>
        overlooked \ {"during_command"} # {}

------------------------------------------------------------------------------
(* What the frames implement.                                              *)

Register == INSTANCE VerifiedWrite WITH
    phase <- CASE pc = "idle" -> "idle"
               [] pc \in {"read_current", "read_entries"} -> "reading"
               [] OTHER -> "written",
    known <- IF eqStatus = NoEq THEN {} ELSE {cacheAsOf},
    outcome <- [none |-> "none", ok |-> "success", failed |-> "failure"][outcome],
    lapsed <- "undecodable" \in overlooked

\* The preserving read, the write, its acknowledgement, its verification and both
\* confirmations are, to other threads, one register: the cached EQ is that of a read
\* after the last write, unless a frame that could not be decoded let a command lapse.
ImplementsVerifiedWrite == Register!Spec

==============================================================================
