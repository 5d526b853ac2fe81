----------------------------- MODULE AncSession ------------------------------
(***************************************************************************)
(* One noise-control write from BudsController.set_anc down to the frames  *)
(* on the RFCOMM link: SET_ANC is sent once, its acknowledgement may be    *)
(* missing, and the write counts as verified only when a later QUERY_ANC,  *)
(* matched by command and sequence, reads a state that meets the request.  *)
(* The earbuds acknowledge before they apply, may refuse, may not answer,  *)
(* and report on their own; the wearer changes the mode by touch.          *)
(*                                                                         *)
(* The controller lock is held from SetMainAnc to the end of the command   *)
(* (pc = "idle" again), so other threads see the cache only when pc is     *)
(* "idle".  Time is not modelled: a deadline may pass at any point of a    *)
(* wait.  A recv that raises (peer closed, I/O error, undecodable frame)   *)
(* may happen at any point too, so no separate link state is kept.         *)
(*                                                                         *)
(* writes, asOf, ancAsOf, verifiedBy, strengthFailed and newest are        *)
(* history: they number the SET_ANC frames sent, say after how many of     *)
(* them a state was read, and which state arrived last.                    *)
(***************************************************************************)
EXTENDS OpoWire

CONSTANTS
    MainModes,       \* off, transparency, on, adaptive
    Strengths,       \* explicit ANC strengths: written on a one-shot socket
    States,          \* what the earbuds can report: a mode and a level
    NoState,         \* cached ANC is None, or a reply that names no mode
    Meets,           \* Meets[m]: the states that verify a request for m
    SetSequence,     \* AncProfile.sequence_for: a fixed sequence per mode
    MaxQueries,      \* 32 verification queries in the code
    MaxWrites,       \* bound: SET_ANC frames sent in a behaviour
    MaxReports       \* bound: frames on their way to the host

Modes == MainModes \cup Strengths

ASSUME AncAssumption ==
    /\ MainModes \cap Strengths = {}
    /\ NoState \notin States
    /\ Meets \in [Modes -> SUBSET States]
    /\ SetSequence \in [Modes -> SequenceNumbers]
    /\ MaxQueries \in Nat \ {0}
    /\ MaxWrites \in Nat
    /\ MaxReports \in Nat

VARIABLES
    actual,          \* the state the earbuds are in
    target,          \* the state they settle in: differs from actual after a SET
    up,              \* requests on their way to the earbuds, in order
    down,            \* frames on their way to the host, in order
    running,         \* BudsController._running
    session,         \* BudsController._session: "open" or "closed"
    sequence,        \* RfcommTransport._sequence
    pc,              \* "idle", "ack" or "verify": what the lock's owner waits for
    command,         \* the mode of the current or last set_anc
    awaited,         \* the sequence of the query waited for
    queries,         \* query_count
    anc,             \* BudsController._status.anc and anc_level
    outcome,         \* of the last set_anc: "none", "verified" or "failed"
    writes,          \* history: SET_ANC frames sent so far
    ancAsOf,         \* history: how many of them were handled when anc was read
    verifiedBy,      \* history: state and asOf of the reply that verified a write
    strengthFailed,  \* history: the last SET_ANC belongs to a failed strength write
    newest           \* history: the last state received since anc was forgotten

device == <<actual, target>>
host == <<running, session, sequence, pc, command, awaited, queries>>
shown == <<anc, ancAsOf, strengthFailed>>
result == <<outcome, verifiedBy>>
vars == <<device, up, down, host, shown, result, writes, newest>>

SetRequest == [command : {"SET_ANC"}, sequence : SequenceNumbers, mode : Modes]
QueryRequest == [command : {"QUERY_ANC"}, sequence : SequenceNumbers]
AckFrame == [command : {"RESPONSE_SET_ANC"}, sequence : SequenceNumbers]
StateFrame == [command : {"RESPONSE_ANC"}, sequence : {0} \cup SequenceNumbers,
               state : States \cup {NoState}, asOf : Nat]

TypeOK ==
    /\ actual \in States
    /\ target \in States
    /\ up \in Seq(SetRequest \cup QueryRequest)
    /\ down \in Seq(AckFrame \cup StateFrame)
    /\ running \in BOOLEAN
    /\ session \in {"open", "closed"}
    /\ sequence \in SequenceNumbers
    /\ pc \in {"idle", "ack", "verify"}
    /\ command \in Modes
    /\ awaited \in SequenceNumbers
    /\ queries \in 0..MaxQueries
    /\ anc \in States \cup {NoState}
    /\ outcome \in {"none", "verified", "failed"}
    /\ writes \in Nat
    /\ ancAsOf \in Nat
    /\ verifiedBy \in [state : States \cup {NoState}, asOf : Nat]
    /\ strengthFailed \in BOOLEAN
    /\ newest \in States \cup {NoState}

Init ==
    /\ actual \in States
    /\ target = actual
    /\ up = <<>>
    /\ down = <<>>
    /\ running = FALSE
    /\ session = "closed"
    /\ sequence = 1
    /\ pc = "idle"
    /\ command \in Modes
    /\ awaited = 1
    /\ queries = 0
    /\ anc = NoState
    /\ outcome = "none"
    /\ writes = 0
    /\ ancAsOf = 0
    /\ verifiedBy = [state |-> NoState, asOf |-> 0]
    /\ strengthFailed = FALSE
    /\ newest = NoState

------------------------------------------------------------------------------
(* The earbuds.                                                            *)

SetPending == \E i \in DOMAIN up : up[i].command = "SET_ANC"

\* How many writes the earbuds have seen: those sent, less the one in flight.
HandledWrites == IF SetPending THEN writes - 1 ELSE writes

StateReply(seq, state) ==
    [command |-> "RESPONSE_ANC", sequence |-> seq, state |-> state, asOf |-> HandledWrites]

\* A SET is accepted or refused, acknowledged or not; it takes effect later.
EarbudsHandleSet ==
    /\ up # <<>>
    /\ Head(up).command = "SET_ANC"
    /\ up' = Tail(up)
    /\ target' \in {target} \cup Meets[Head(up).mode]
    /\ \/ down' = Append(down, [command |-> "RESPONSE_SET_ANC",
                                sequence |-> Head(up).sequence])
       \/ down' = down
    /\ UNCHANGED <<actual, host, shown, result, writes, newest>>

\* A query is answered with the present state, with a bad status, or not at all.
EarbudsHandleQuery ==
    /\ up # <<>>
    /\ Head(up).command = "QUERY_ANC"
    /\ up' = Tail(up)
    /\ \/ \E state \in {actual, NoState} :
            down' = Append(down, StateReply(Head(up).sequence, state))
       \/ down' = down
    /\ UNCHANGED <<device, host, shown, result, writes, newest>>

EarbudsSettle ==
    /\ actual # target
    /\ actual' = target
    /\ UNCHANGED <<target, up, down, host, shown, result, writes, newest>>

WearerTouches ==
    /\ actual = target
    /\ actual' \in States \ {actual}
    /\ target' = actual'
    /\ UNCHANGED <<up, down, host, shown, result, writes, newest>>

\* An unsolicited state frame; sequence 0 is never used by the host.
EarbudsReport ==
    /\ session = "open"
    /\ Len(down) < MaxReports
    /\ down' = Append(down, StateReply(0, actual))
    /\ UNCHANGED <<device, up, host, shown, result, writes, newest>>

------------------------------------------------------------------------------
(* Closing the socket.                                                     *)

\* Frames die with the socket.  A SET still on its way may have arrived.
CloseSocket ==
    /\ session' = "closed"
    /\ up' = <<>>
    /\ down' = <<>>
    /\ target' \in {target} \cup (IF SetPending THEN Meets[command] ELSE {})
    /\ UNCHANGED actual

\* Fault: a failed command leaves the socket open.
FailKeepingSession ==
    /\ pc' = "idle"
    /\ outcome' = "failed"
    /\ anc' = NoState
    /\ newest' = NoState
    /\ UNCHANGED <<device, up, down, running, session, sequence, command, awaited,
                   queries, verifiedBy, ancAsOf, strengthFailed, writes>>

\* Fault: a failed command leaves the cached ANC.
FailKeepingAnc ==
    /\ CloseSocket
    /\ pc' = "idle"
    /\ outcome' = "failed"
    /\ UNCHANGED <<running, sequence, command, awaited, queries, verifiedBy,
                   anc, ancAsOf, strengthFailed, writes, newest>>

\* _set_session_anc on OSError or RuntimeError: the session is dropped and the
\* cached ANC forgotten.
Fail ==
    /\ CloseSocket
    /\ pc' = "idle"
    /\ outcome' = "failed"
    /\ anc' = NoState
    /\ newest' = NoState
    /\ UNCHANGED <<running, sequence, command, awaited, queries, verifiedBy,
                   ancAsOf, strengthFailed, writes>>

------------------------------------------------------------------------------
(* set_anc of a main mode on a running controller.                         *)

\* The reports that a session receives while it is opened are applied once it is open;
\* asOf writes have been handled by then.
OpeningReports(asOf) ==
    \/ UNCHANGED <<anc, ancAsOf, newest>>
    \/ /\ session' = "open"
       /\ anc' = actual
       /\ ancAsOf' = asOf
       /\ newest' = actual

\* The SET goes out once, on the warm session or on one just reopened.
SetMainAnc(mode) ==
    /\ pc = "idle"
    /\ running
    /\ writes < MaxWrites
    /\ session' = "open"
    /\ \/ /\ session = "open"
          /\ UNCHANGED <<sequence, down, anc, ancAsOf, newest>>
       \/ /\ session = "closed"
          /\ sequence' = 1
          /\ down' = <<>>
          /\ OpeningReports(writes)
    /\ up' = Append(up, [command |-> "SET_ANC", sequence |-> SetSequence[mode],
                         mode |-> mode])
    /\ writes' = writes + 1
    /\ pc' = "ack"
    /\ command' = mode
    /\ queries' = 0
    /\ outcome' = "none"
    /\ strengthFailed' = FALSE
    /\ UNCHANGED <<device, running, awaited, verifiedBy>>

\* The reopening fails before anything is sent.  A ValueError, of a frame that cannot be
\* decoded, leaves the cached ANC.
ReopenFails(mode) ==
    /\ pc = "idle"
    /\ running
    /\ session = "closed"
    /\ command' = mode
    /\ outcome' = "failed"
    /\ \/ anc' = NoState /\ newest' = NoState
       \/ UNCHANGED <<anc, newest>>
    /\ UNCHANGED <<device, up, down, running, session, sequence, pc, awaited, queries,
                   ancAsOf, strengthFailed, verifiedBy, writes>>

Query ==
    /\ up' = Append(up, [command |-> "QUERY_ANC", sequence |-> sequence])
    /\ awaited' = sequence
    /\ sequence' = NextSequence(sequence)
    /\ queries' = queries + 1
    /\ pc' = "verify"

StateReports(frames) ==
    {i \in DOMAIN frames : frames[i].command = "RESPONSE_ANC" /\ frames[i].state # NoState}

\* The last state received, after these frames.
LastState(frames) ==
    IF StateReports(frames) = {} THEN newest ELSE frames[Max(StateReports(frames))].state

AckWanted == [command |-> "RESPONSE_SET_ANC", sequence |-> SetSequence[command]]

StateWanted == [command |-> "RESPONSE_ANC", sequence |-> awaited]

\* A recv while waiting for the acknowledgement.
ReceiveAck(n) ==
    /\ pc = "ack"
    /\ down' = Unread(down, n)
    /\ IF HasReply(Chunk(down, n), AckWanted)
       THEN Query
       ELSE UNCHANGED <<up, awaited, sequence, queries, pc>>
    /\ newest' = LastState(Chunk(down, n))
    /\ UNCHANGED <<device, running, session, command, shown, result, writes>>

\* Fault: SET is sent again when its acknowledgement does not come.
ReplaySet ==
    /\ pc = "ack"
    /\ up' = Append(up, [command |-> "SET_ANC", sequence |-> SetSequence[command],
                         mode |-> command])
    /\ writes' = writes + 1
    /\ UNCHANGED <<device, down, host, shown, result, newest>>

\* The acknowledgement does not come: the write is verified all the same.
AckTimeout ==
    /\ pc = "ack"
    /\ Query
    /\ UNCHANGED <<device, down, running, session, command, shown, result, writes, newest>>

\* The reply meets the request: cache it and keep the session.
Succeed(reply) ==
    /\ pc' = "idle"
    /\ outcome' = "verified"
    /\ anc' = reply.state
    /\ ancAsOf' = reply.asOf
    /\ verifiedBy' = [state |-> reply.state, asOf |-> reply.asOf]
    /\ UNCHANGED <<actual, target, up, session, running, sequence, command, awaited,
                   queries, strengthFailed, writes>>

\* Fault: no limit to the queries.
QueryAgainUnbounded ==
    /\ Query
    /\ UNCHANGED <<device, running, session, command, shown, result, writes>>

QueryAgain ==
    /\ queries < MaxQueries
    /\ Query
    /\ UNCHANGED <<device, running, session, command, shown, result, writes>>

\* A recv while waiting for the state: a reply that does not meet the request
\* is asked for again, up to MaxQueries times.
ReceiveState(n) ==
    LET chunk == Chunk(down, n) IN
    /\ pc = "verify"
    /\ newest' = LastState(chunk)
    /\ \/ /\ ~HasReply(chunk, StateWanted)
          /\ down' = Unread(down, n)
          /\ UNCHANGED <<device, up, host, shown, result, writes>>
       \/ \E i \in DOMAIN chunk :
             /\ IsReplyAt(chunk, StateWanted, i)
             /\ IF chunk[i].state \in Meets[command]
                THEN Succeed(chunk[i]) /\ down' = Unread(down, n)
                ELSE QueryAgain /\ down' = Unread(down, n)

\* The query's deadline or the two seconds of the whole verification pass, the
\* queries run out, recv raises, or a frame cannot be decoded.
TransactionFails ==
    /\ pc \in {"ack", "verify"}
    /\ Fail

------------------------------------------------------------------------------
(* set_anc of an explicit strength, or of any mode while not running: the  *)
(* session is closed, a one-shot socket writes and reads back, and a       *)
(* running controller then reopens its session without reading the state.  *)

ReopenedOrNot ==
    /\ sequence' = 1
    /\ down' = <<>>
    /\ session' \in IF running THEN {"open", "closed"} ELSE {"closed"}

OneShotGuard(mode) ==
    /\ pc = "idle"
    /\ mode \in Strengths \/ ~running
    /\ writes < MaxWrites

\* Verified on the second socket by its first frame that names a state, reply or report:
\* the earbuds are in that state, and may have refused the write or be settling in
\* another.  When the session cannot be reopened the command still fails, although the
\* state is in the status.
OneShotVerified(mode) ==
    /\ OneShotGuard(mode)
    /\ ReopenedOrNot
    /\ actual' \in Meets[mode]
    /\ target' \in {actual', target} \cup Meets[mode]
    /\ writes' = writes + 1
    /\ anc' = IF running THEN actual' ELSE anc
    /\ ancAsOf' = IF running THEN writes' ELSE ancAsOf
    /\ verifiedBy' = [state |-> actual', asOf |-> writes']
    /\ outcome' = IF running /\ session' = "closed" THEN "failed" ELSE "verified"
    /\ command' = mode
    /\ strengthFailed' = FALSE
    /\ newest' = IF running THEN actual' ELSE newest
    /\ UNCHANGED <<up, running, pc, awaited, queries>>

\* The SET was sent, and is not known to have taken effect.
OneShotUncertain(mode) ==
    /\ OneShotGuard(mode)
    /\ ReopenedOrNot
    /\ target' \in {target} \cup Meets[mode]
    /\ writes' = writes + 1
    /\ outcome' = "failed"
    /\ command' = mode
    /\ strengthFailed' = TRUE
    /\ OpeningReports(writes')
    /\ UNCHANGED <<actual, up, running, pc, awaited, queries, verifiedBy>>

\* Discovery, the connection or the profile check fails: nothing was sent.
OneShotRefused(mode) ==
    /\ pc = "idle"
    /\ mode \in Strengths \/ ~running
    /\ ReopenedOrNot
    /\ outcome' = "failed"
    /\ command' = mode
    /\ OpeningReports(writes)
    /\ UNCHANGED <<device, up, running, pc, awaited, queries, strengthFailed, verifiedBy,
                   writes>>

------------------------------------------------------------------------------
(* Polling and reconnecting.                                               *)

\* Fault: of several reports the first is cached.
PollFirst(n) ==
    LET frames == Chunk(down, n)
        reports == StateReports(frames)
    IN
    /\ pc = "idle"
    /\ session = "open"
    /\ down' = Unread(down, n)
    /\ IF reports = {}
       THEN UNCHANGED <<anc, ancAsOf>>
       ELSE \E i \in reports :
               /\ \A j \in reports : i <= j
               /\ anc' = frames[i].state
               /\ ancAsOf' = frames[i].asOf
    /\ newest' = LastState(frames)
    /\ UNCHANGED <<device, up, host, result, strengthFailed, writes>>

\* A non-blocking drain: the last state reported becomes the cached one.
Poll(n) ==
    LET frames == Chunk(down, n)
        reports == StateReports(frames)
    IN
    /\ pc = "idle"
    /\ session = "open"
    /\ down' = Unread(down, n)
    /\ IF reports = {}
       THEN UNCHANGED <<anc, ancAsOf>>
       ELSE \E i \in reports :
               /\ \A j \in reports : j <= i
               /\ anc' = frames[i].state
               /\ ancAsOf' = frames[i].asOf
    /\ newest' = LastState(frames)
    /\ UNCHANGED <<device, up, host, result, strengthFailed, writes>>

\* An equaliser command uses the session, too: its queries move the counter on, and a
\* failed write closes the session and keeps the ANC.  What it receives is applied as
\* by Poll.
EqCommand ==
    /\ pc = "idle"
    /\ session = "open"
    /\ \/ sequence' = NextSequence(sequence) /\ UNCHANGED <<session, down>>
       \/ session' = "closed" /\ down' = <<>> /\ UNCHANGED sequence
    /\ UNCHANGED <<device, up, running, pc, command, awaited, queries, shown, result, writes,
                   newest>>

\* shutdown() and start(): after a poll that finds no session or a dead one, at
\* the refresh command, and at the runner's retries.  bootstrap reads the state
\* on the socket that becomes the session's.
RefreshSucceeds ==
    /\ pc = "idle"
    /\ running' = TRUE
    /\ session' = "open"
    /\ sequence' = 1
    /\ down' = <<>>
    /\ anc' = actual
    /\ ancAsOf' = writes
    /\ newest' = actual
    /\ strengthFailed' = FALSE
    /\ UNCHANGED <<device, up, pc, command, awaited, queries, result, writes>>

RefreshFails ==
    /\ pc = "idle"
    /\ running' = FALSE
    /\ session' = "closed"
    /\ down' = <<>>
    /\ anc' = NoState
    /\ newest' = NoState
    /\ UNCHANGED <<device, up, sequence, pc, command, awaited, queries, ancAsOf,
                   strengthFailed, result, writes>>

------------------------------------------------------------------------------

Earbuds ==
    \/ EarbudsHandleSet
    \/ EarbudsHandleQuery
    \/ EarbudsSettle
    \/ WearerTouches
    \/ EarbudsReport

Transaction ==
    \/ \E mode \in MainModes : SetMainAnc(mode) \/ ReopenFails(mode)
    \/ \E n \in 1..Len(down) : ReceiveAck(n) \/ ReceiveState(n)
    \/ AckTimeout
    \/ TransactionFails

OneShot ==
    \E mode \in Modes :
        OneShotVerified(mode) \/ OneShotUncertain(mode) \/ OneShotRefused(mode)

Monitoring ==
    \/ \E n \in 0..Len(down) : Poll(n)
    \/ EqCommand
    \/ RefreshSucceeds
    \/ RefreshFails

Next == Earbuds \/ Transaction \/ OneShot \/ Monitoring

Spec == Init /\ [][Next]_vars

------------------------------------------------------------------------------
(* Properties.                                                             *)

\* A write is reported as verified only on the strength of a state that meets
\* the request and that the earbuds gave after they had handled its SET_ANC: an
\* older reply, a reply to another query or an unsolicited report is never taken
\* for proof (session.py:170, "Notifications and SET status alone are never proof").
VerifiedByFreshRead ==
    outcome = "verified" =>
        /\ verifiedBy.asOf = writes
        /\ verifiedBy.state \in Meets[command]

\* Whenever another thread can see the cached ANC it was read after the last
\* SET_ANC that may have reached the earbuds, whether that write was verified,
\* failed half-way or timed out.  The one exception is the code's: after a failed
\* strength write the status of before the write stays.
ShownAncNotOlderThanWrite ==
    pc = "idle" /\ anc # NoState /\ ~strengthFailed => ancAsOf = writes

\* Between commands nothing on the link could be mistaken for the reply to a
\* later query, whatever its sequence number will be.
NoReplyLeftBehind ==
    pc = "idle" =>
        /\ up = <<>>
        /\ \A i \in DOMAIN down :
              down[i].command = "RESPONSE_ANC" => down[i].sequence = 0

\* SET_ANC goes out at the start of a command and never again in it, however
\* long its acknowledgement or its effect take (session.py:198, "Never replay SET").
SetIsNeverReplayed == [][writes' # writes => pc = "idle" /\ writes' = writes + 1]_vars

\* The cached ANC follows what the session receives, in its order and in the middle
\* of a command as well (docs/backend-api.md:63).  The exception is the code's: the
\* verifying reply is stored after the events of its transaction, also after a report
\* that was received behind it (controller.py:126-128).
EventsUpdateAnc ==
    [][pc' = "idle" /\ anc' # NoState =>
        \/ anc' = newest'
        \/ UNCHANGED <<anc, newest>>
        \/ pc = "verify" /\ anc' = verifiedBy'.state]_vars

------------------------------------------------------------------------------
(* What the frames implement.                                              *)

Register == INSTANCE VerifiedWrite WITH
    phase <- IF pc = "idle" THEN "idle" ELSE "written",
    known <- IF anc = NoState THEN {} ELSE {ancAsOf},
    outcome <- [none |-> "none", verified |-> "success", failed |-> "failure"][outcome],
    lapsed <- strengthFailed

\* However frames, queries and sockets come and go, other threads meet one register:
\* one write for a command, which is verified, or leaves nothing older cached, or
\* lapses where the code lets it (only after a failed strength write).
ImplementsVerifiedWrite == Register!Spec

==============================================================================
