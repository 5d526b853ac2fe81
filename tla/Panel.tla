--------------------------------- MODULE Panel ---------------------------------
(***************************************************************************)
(* The panels of the bar, the service they share, and the helper process   *)
(* as they see it: lines in, lines out.  There is a widget on every        *)
(* screen, one Service, one helper, which is not started again when it     *)
(* ends.  The helper's reader answers one line after the other; its runner *)
(* publishes on its own; what they publish comes out in the order in which *)
(* they get the output lock.  BudsService says what happens inside.        *)
(*                                                                         *)
(* generation is the controller's: it grows with whatever changes the      *)
(* state a snapshot shows.                                                 *)
(***************************************************************************)
EXTENDS Naturals, SequencesExt

CONSTANTS
    Widgets,         \* one bar widget per screen
    PipeSize,        \* lines the output pipe holds before a writer has to wait
    MaxRequests,     \* bound: requests
    MaxGeneration    \* bound: changes of the controller's state

ASSUME PanelAssumption ==
    /\ PipeSize \in Nat \ {0}
    /\ MaxRequests \in Nat \ {0}
    /\ MaxGeneration \in Nat

VARIABLES
    helper,          \* "running", "closing", "gone" (not noticed yet) or "exited"
    stdin,           \* request lines the reader has not taken
    stdout,          \* lines Service has not read
    state,           \* Service.state: connection and snapshot
    nextRequestId,   \* Service.nextRequestId
    widget,          \* per widget: pendingRequestId (0 for -1), pendingKind, outcome
    cancelled,       \* BridgeProcessHost.cancelled
    generation,      \* BudsController._generation
    reader,          \* the command the reader executes, and where it is in it
    runner,          \* what the runner has still to publish
    last,            \* history: per widget, its last request
    verifiedAt       \* history: per request, the generation its write was verified at

frontend == <<state, nextRequestId, widget, last>>
backend == <<cancelled, generation, reader, runner, verifiedAt>>
vars == <<helper, stdin, stdout, frontend, backend>>

Kinds == {"anc", "eq", "custom_eq", "eq_status", "diagnostic_report"}
Writes == {"anc", "eq", "custom_eq"}
Ids == 1..MaxRequests
Line == [id : Ids, kind : Kinds]
Connections == {"connected", "disconnected", "stopped"}
Message == [type : {"connection"}, connection : Connections]
           \cup [type : {"snapshot"}, generation : Nat]
           \cup [type : {"response"}, id : Ids, ok : BOOLEAN, verified : BOOLEAN]

TypeOK ==
    /\ helper \in {"running", "closing", "gone", "exited"}
    /\ stdin \in Seq(Line)
    /\ stdout \in Seq(Message)
    /\ Len(stdout) <= PipeSize
    /\ state \in [connection : Connections, generation : Nat]
    /\ nextRequestId \in 1..(MaxRequests + 1)
    /\ widget \in [Widgets -> [pending : {0} \cup Ids, kind : {""} \cup Kinds,
                               outcome : {"", "verified", "error"}]]
    /\ cancelled \in BOOLEAN
    /\ generation \in 0..MaxGeneration
    /\ reader \in [at : {"wait", "execute", "second_read", "snapshot", "write", "end"},
                   line : Line, messages : Seq(Message)]
    /\ runner \in Seq(Message)
    /\ last \in [Widgets -> {0} \cup Ids]
    /\ verifiedAt \in [Ids -> Nat]

Connection(c) == [type |-> "connection", connection |-> c]
Snapshot(g) == [type |-> "snapshot", generation |-> g]
Response(ok, verified) ==
    [type |-> "response", id |-> reader.line.id, ok |-> ok, verified |-> verified]

\* The process is there.
Up == helper \in {"running", "closing"}

Init ==
    /\ helper = "running"
    /\ stdin = <<>>
    /\ stdout = <<>>
    /\ state = [connection |-> "stopped", generation |-> 0]
    /\ nextRequestId = 1
    /\ widget = [w \in Widgets |-> [pending |-> 0, kind |-> "", outcome |-> ""]]
    /\ cancelled = FALSE
    /\ generation = 0
    /\ reader = [at |-> "wait", line |-> [id |-> 1, kind |-> "anc"], messages |-> <<>>]
    /\ runner = <<>>
    /\ last = [w \in Widgets |-> 0]
    /\ verifiedAt = [i \in Ids |-> 0]

------------------------------------------------------------------------------
(* The widgets.                                                            *)

\* Service.request: a line for a helper that runs, as far as Service knows.
Request(w, kind) ==
    IF helper = "exited"
    THEN /\ widget' = [widget EXCEPT ![w].outcome = IF kind = "eq_status" THEN @ ELSE "error"]
         /\ UNCHANGED <<stdin, nextRequestId, last>>
    ELSE /\ nextRequestId <= MaxRequests
         /\ nextRequestId' = nextRequestId + 1
         /\ stdin' = IF Up THEN Append(stdin, [id |-> nextRequestId, kind |-> kind]) ELSE stdin
         /\ widget' = [widget EXCEPT ![w] = [pending |-> nextRequestId, kind |-> kind,
                           outcome |-> IF kind = "eq_status" THEN @.outcome ELSE ""]]
         /\ last' = [last EXCEPT ![w] = nextRequestId]

\* Fault: a request is made while another is pending.
AskOverlapping(w, kind) ==
    /\ kind \in {"anc", "eq", "eq_status"} => state.connection = "connected"
    /\ Request(w, kind)
    /\ UNCHANGED <<helper, stdout, state, backend>>

\* selectAnc, selectEq and the opening of the popup need a connection; applyCustomEq
\* and saveDiagnosticReport do not ask for one.
Ask(w, kind) ==
    /\ widget[w].pending = 0
    /\ kind \in {"anc", "eq", "eq_status"} => state.connection = "connected"
    /\ Request(w, kind)
    /\ UNCHANGED <<helper, stdout, state, backend>>

\* The report dialog is opened or cancelled.
ClearOutcome(w) ==
    /\ widget[w].outcome # ""
    /\ widget' = [widget EXCEPT ![w].outcome = ""]
    /\ UNCHANGED <<helper, stdin, stdout, state, nextRequestId, last, backend>>

------------------------------------------------------------------------------
(* Service reads a line.                                                   *)

\* Fault: the response's id is not compared with the pending one.
AnsweredByAny(v, response) ==
    IF v.pending = 0 THEN v
    ELSE [pending |-> 0, kind |-> "",
          outcome |-> IF response.verified THEN "verified"
                      ELSE IF response.ok /\ v.kind \in {"eq_status", "diagnostic_report"}
                      THEN "" ELSE "error"]

\* onLastResponseChanged: only the response to the pending request counts.
Answered(v, response) ==
    IF response.id # v.pending THEN v
    ELSE [pending |-> 0, kind |-> "",
          outcome |-> IF response.verified THEN "verified"
                      ELSE IF response.ok /\ v.kind \in {"eq_status", "diagnostic_report"}
                      THEN "" ELSE "error"]

\* handleLine and applyMessage; a changed response reaches every widget at once.
HandleLine ==
    /\ helper # "exited"
    /\ stdout # <<>>
    /\ stdout' = Tail(stdout)
    /\ LET message == Head(stdout) IN
       \/ /\ message.type = "connection"
          /\ state' = [state EXCEPT !.connection = message.connection]
          /\ UNCHANGED widget
       \/ /\ message.type = "snapshot"
          /\ state' = [state EXCEPT !.generation = message.generation]
          /\ UNCHANGED widget
       \/ /\ message.type = "response"
          /\ widget' = [w \in Widgets |-> Answered(widget[w], message)]
          /\ UNCHANGED state
    /\ UNCHANGED <<helper, stdin, nextRequestId, last, backend>>

\* onExited: lines still in the pipe are lost; snapshot and response stay.
HelperExited ==
    /\ helper = "gone"
    /\ helper' = "exited"
    /\ stdout' = <<>>
    /\ state' = [state EXCEPT !.connection = "stopped"]
    /\ UNCHANGED <<stdin, nextRequestId, widget, last, backend>>

------------------------------------------------------------------------------
(* The helper's reader thread.                                             *)

Reads(at) == Up /\ reader.at = at

\* A line taken after the cancellation ends the reader, unanswered.
TakeLine ==
    /\ Reads("wait")
    /\ stdin # <<>>
    /\ stdin' = Tail(stdin)
    /\ reader' = [reader EXCEPT !.at = IF cancelled THEN "end" ELSE "execute",
                                !.line = Head(stdin)]
    /\ UNCHANGED <<helper, stdout, frontend, cancelled, generation, runner, verifiedAt>>

\* The command ends with these messages, the response last.
Answer(messages) == reader' = [reader EXCEPT !.at = "write", !.messages = messages]

Changes == generation < MaxGeneration /\ generation' = generation + 1

Verify == verifiedAt' = [verifiedAt EXCEPT ![reader.line.id] = generation']

\* Any exception becomes a response, too; a failed write may have changed the state.
CommandFails ==
    /\ Reads("execute")
    /\ UNCHANGED generation \/ Changes
    /\ Answer(<<Response(FALSE, FALSE)>>)
    /\ UNCHANGED <<helper, stdin, stdout, frontend, cancelled, runner, verifiedAt>>

\* A verified mode, and the snapshot taken under the same lock.
SetAnc ==
    /\ Reads("execute")
    /\ reader.line.kind = "anc"
    /\ Changes
    /\ Verify
    /\ Answer(<<Snapshot(generation'), Response(TRUE, TRUE)>>)
    /\ UNCHANGED <<helper, stdin, stdout, frontend, cancelled, runner>>

\* A verified EQ write, and then the read of another locked operation.
SetEq ==
    /\ Reads("execute")
    /\ reader.line.kind \in {"eq", "custom_eq"}
    /\ Changes
    /\ Verify
    /\ reader' = [reader EXCEPT !.at = "second_read"]
    /\ UNCHANGED <<helper, stdin, stdout, frontend, cancelled, runner>>

EqStatus ==
    /\ \/ Reads("execute") /\ reader.line.kind = "eq_status"
       \/ Reads("second_read")
    /\ Changes
    /\ reader' = [reader EXCEPT !.at = "snapshot"]
    /\ UNCHANGED <<helper, stdin, stdout, frontend, cancelled, runner, verifiedAt>>

\* Fault: a second read that fails goes unanswered.
SecondReadUnanswered ==
    /\ Reads("second_read")
    /\ reader' = [reader EXCEPT !.at = "wait"]
    /\ UNCHANGED <<helper, stdin, stdout, frontend, cancelled, generation, runner, verifiedAt>>

\* The second read fails, perhaps after reconnecting: so does the command, although
\* its write was verified.
SecondReadFails ==
    /\ Reads("second_read")
    /\ UNCHANGED generation \/ Changes
    /\ Answer(<<Response(FALSE, FALSE)>>)
    /\ UNCHANGED <<helper, stdin, stdout, frontend, cancelled, runner, verifiedAt>>

\* The snapshot of an EQ command is taken by an operation of its own.
TakeSnapshot ==
    /\ Reads("snapshot")
    /\ Answer(<<Snapshot(generation), Response(TRUE, reader.line.kind \in Writes)>>)
    /\ UNCHANGED <<helper, stdin, stdout, frontend, cancelled, generation, runner, verifiedAt>>

SaveReport ==
    /\ Reads("execute")
    /\ reader.line.kind = "diagnostic_report"
    /\ Answer(<<Response(TRUE, FALSE)>>)
    /\ UNCHANGED <<helper, stdin, stdout, frontend, cancelled, generation, runner, verifiedAt>>

\* One line under the output lock.
ReaderWrites ==
    /\ Reads("write")
    /\ Len(stdout) < PipeSize
    /\ stdout' = Append(stdout, Head(reader.messages))
    /\ reader' = [reader EXCEPT !.messages = Tail(@),
                                !.at = IF Len(reader.messages) = 1 THEN "wait" ELSE @]
    /\ UNCHANGED <<helper, stdin, frontend, cancelled, generation, runner, verifiedAt>>

Execute == CommandFails \/ SetAnc \/ SetEq \/ EqStatus \/ SecondReadFails \/ TakeSnapshot
           \/ SaveReport

------------------------------------------------------------------------------
(* The helper's runner, its end, and the controller's own changes.         *)

Runs == helper = "running" /\ runner = <<>>

\* Fault: a poll that finds nothing new publishes nothing.
PollQuietly ==
    /\ Runs
    /\ ~cancelled
    /\ Changes
    /\ runner' \in {<<>>, <<Snapshot(generation')>>}
    /\ UNCHANGED <<helper, stdin, stdout, frontend, cancelled, reader, verifiedAt>>

\* A poll, with or without events, publishes a snapshot.
Poll ==
    /\ Runs
    /\ ~cancelled
    /\ UNCHANGED generation \/ Changes
    /\ runner' = <<Snapshot(generation')>>
    /\ UNCHANGED <<helper, stdin, stdout, frontend, cancelled, reader, verifiedAt>>

\* The session is lost, or a new one found.
Reconnect ==
    /\ Runs
    /\ ~cancelled
    /\ Changes
    /\ runner' \in {<<Snapshot(generation'), Connection("disconnected")>>,
                    <<Connection("connected"), Snapshot(generation')>>}
    /\ UNCHANGED <<helper, stdin, stdout, frontend, cancelled, reader, verifiedAt>>

\* Fault: everything is written at once, without waiting for room in the pipe.
RunnerWritesAll ==
    /\ Up
    /\ runner # <<>>
    /\ stdout' = stdout \o runner
    /\ runner' = <<>>
    /\ UNCHANGED <<helper, stdin, frontend, cancelled, generation, reader, verifiedAt>>

RunnerWrites ==
    /\ Up
    /\ runner # <<>>
    /\ Len(stdout) < PipeSize
    /\ stdout' = Append(stdout, Head(runner))
    /\ runner' = Tail(runner)
    /\ UNCHANGED <<helper, stdin, frontend, cancelled, generation, reader, verifiedAt>>

\* A signal, the end of stdin, or an error that ends the runner.
Cancel ==
    /\ Up
    /\ ~cancelled
    /\ cancelled' = TRUE
    /\ UNCHANGED <<helper, stdin, stdout, frontend, generation, reader, runner, verifiedAt>>

\* The runner leaves its loop.
Shutdown ==
    /\ Runs
    /\ cancelled
    /\ UNCHANGED generation \/ Changes
    /\ helper' = "closing"
    /\ runner' = <<Connection("stopped"), Snapshot(generation')>>
    /\ UNCHANGED <<stdin, stdout, frontend, cancelled, reader, verifiedAt>>

\* The process ends with the runner; the reader is left where it is.
HelperEnds ==
    /\ helper = "closing"
    /\ runner = <<>>
    /\ helper' = "gone"
    /\ UNCHANGED <<stdin, stdout, frontend, backend>>

------------------------------------------------------------------------------

Asks == \E w \in Widgets : ClearOutcome(w) \/ \E kind \in Kinds : Ask(w, kind)

Next ==
    \/ Asks
    \/ HandleLine
    \/ HelperExited
    \/ TakeLine
    \/ Execute
    \/ ReaderWrites
    \/ Poll
    \/ Reconnect
    \/ RunnerWrites
    \/ Cancel
    \/ Shutdown
    \/ HelperEnds

Spec == Init /\ [][Next]_vars

\* Quickshell reads the pipe, both threads are scheduled, and get the output lock
\* in turn; every command ends, since its waits have time-outs.
Fairness ==
    /\ WF_vars(HandleLine)
    /\ WF_vars(HelperExited)
    /\ WF_vars(TakeLine \/ Execute)
    /\ SF_vars(ReaderWrites)
    /\ WF_vars(Poll)
    /\ SF_vars(RunnerWrites)

FairSpec == Spec /\ Fairness

------------------------------------------------------------------------------
(* Properties.                                                             *)

Responses(messages) == {i \in DOMAIN messages : messages[i].type = "response"}

\* Where the answer to request id is, or is to come from.
Places(id) ==
    {<<"stdin", i>> : i \in {i \in DOMAIN stdin : stdin[i].id = id}}
    \cup {<<"reader", i>> : i \in {i \in {0} : /\ reader.at \in {"execute", "second_read",
                                                               "snapshot"}
                                               /\ reader.line.id = id}}
    \cup {<<"answer", i>> : i \in {i \in Responses(reader.messages) : reader.messages[i].id = id}}
    \cup {<<"stdout", i>> : i \in {i \in Responses(stdout) : stdout[i].id = id}}

\* A request on its way, or its answer on its way back, is in one place and is what
\* exactly one widget waits for: no answer goes unheard, none is heard twice; and
\* until the helper is told to end, what a widget waits for is on its way.
PendingIsUnderWay ==
    /\ \A id \in Ids : Places(id) # {} =>
          /\ \E place \in Places(id) : Places(id) = {place}
          /\ \E w \in Widgets : {v \in Widgets : widget[v].pending = id} = {w}
    /\ ~cancelled =>
          \A w \in Widgets : widget[w].pending # 0 => Places(widget[w].pending) # {}

\* A widget says "Verified on earbuds" only of its own last request, and when that
\* was verified, whatever the other widgets asked for meanwhile
\* (docs/omarchy-integration.md:89, "correlates the response by request ID").
OutcomeIsOwn ==
    \A w \in Widgets : widget[w].outcome = "verified" /\ widget[w].pending = 0 =>
        last[w] # 0 /\ verifiedAt[last[w]] # 0

\* Nothing but the end of the helper leaves a widget waiting for ever.
AnsweredWhileUp ==
    \A w \in Widgets : (widget[w].pending # 0) ~> (widget[w].pending = 0 \/ cancelled)

\* In whatever order snapshots of two threads come out, and also after commands
\* that failed half-way, the last one shown is the controller's state.
ShowsTheLatest == <>[](~cancelled) => <>[](state.generation = generation)

==============================================================================
