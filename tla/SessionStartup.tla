---------------------------- MODULE SessionStartup -----------------------------
(***************************************************************************)
(* The sockets of BudsController and what is known when one of them opens: *)
(* the connect loop, bootstrap (identify, authenticate, read battery and   *)
(* ANC), the subscription and firmware query the first poll sends, the     *)
(* reopening after a write, and the two sockets of a strength write.       *)
(*                                                                         *)
(* The earbuds accept one socket.  Another application may hold it, and a  *)
(* closed one stays busy for a while.  They announce changes once they are *)
(* subscribed to, and may report at any time.  A reading is the number of  *)
(* changes it has seen.  Operations are steps of the lock's owner; a wait  *)
(* may fail at any point.  Which reply answers which request is the        *)
(* subject of AncSession and EqSession.                                    *)
(***************************************************************************)
EXTENDS Naturals, SequencesExt

CONSTANTS
    Attempts,        \* connect_attempts, by goal: 4, and 12 to verify
    MaxChanges,      \* bound: changes of the earbuds' state
    MaxFrames        \* bound: frames arrived when another is sent unasked

Goals == {"start", "poll", "reopen", "resume", "write", "verify"}

ASSUME StartupAssumption ==
    /\ Attempts \in [Goals -> Nat \ {0}]
    /\ MaxChanges \in Nat
    /\ MaxFrames \in Nat

Essential == {"battery", "anc"}
Kinds == Essential \cup {"switches"}

VARIABLES
    channel,         \* "free", "ours", "closing" or "other": who has the earbuds' socket
    buds,            \* the earbuds' state, by kind
    subscribed,      \* whether they announce changes
    down,            \* frames on their way to the host
    pc,              \* what the lock's owner waits for
    goal,            \* why it opened a socket or reads from it
    tries,           \* connect attempts that met EBUSY
    running,         \* BudsController._running
    held,            \* whether _session has a socket
    shown,           \* _status and _feature_switches: the last reading, 0 for None
    codes,           \* whether _advertised_event_codes has the earbuds' codes
    firmware,        \* whether _status has the firmware version
    session,         \* OpoSession: what is pending, and its advertised_event_codes
    setup,           \* the last reading of each kind it has collected, 0 for none
    read,            \* replies to the essential queries of the last bootstrap
    changes,         \* changes so far
    missed           \* history: kinds whose news was lost or never sent

earbuds == <<buds, subscribed, changes>>
op == <<pc, goal, tries, setup>>
ctl == <<running, held, shown, codes, firmware, session, read>>
vars == <<channel, earbuds, down, op, ctl, missed>>

Unread == [k \in Kinds |-> 0]
Nothing == [k \in Kinds \cup {"version"} |-> 0]
NoSession == [subscribe |-> FALSE, version |-> "none", codes |-> FALSE]
Frame == [kind : Kinds \cup {"version"}, value : Nat, reply : BOOLEAN]
Waits == {"identify", "authenticate", "battery", "anc", "codes", "subscribe", "drain",
          "write", "verify"}

TypeOK ==
    /\ channel \in {"free", "ours", "closing", "other"}
    /\ buds \in [Kinds -> Nat]
    /\ {subscribed, running, held, codes, firmware} \subseteq BOOLEAN
    /\ down \in Seq(Frame)
    /\ pc \in {"idle", "connect"} \cup Waits
    /\ goal \in Goals
    /\ tries < Attempts[goal]
    /\ shown \in [Kinds -> Nat]
    /\ session \in [subscribe : BOOLEAN, version : {"none", "pending", "asked"},
                    codes : BOOLEAN]
    /\ setup \in [Kinds \cup {"version"} -> Nat]
    /\ read \in [Kinds -> Nat]
    /\ changes \in 0..MaxChanges
    /\ missed \subseteq Kinds

Init ==
    /\ channel = "free"
    /\ buds = [k \in Kinds |-> 1]
    /\ subscribed = FALSE
    /\ down = <<>>
    /\ pc = "idle"
    /\ goal = "start"
    /\ tries = 0
    /\ running = FALSE
    /\ held = FALSE
    /\ shown = Unread
    /\ codes = FALSE
    /\ firmware = FALSE
    /\ session = NoSession
    /\ setup = Nothing
    /\ read = Unread
    /\ changes = 0
    /\ missed = {}

------------------------------------------------------------------------------
(* The earbuds, the other application and the kernel.                      *)

News(k) == [kind |-> k, value |-> buds[k], reply |-> FALSE]

Change(k) ==
    /\ changes < MaxChanges
    /\ changes' = changes + 1
    /\ buds' = [buds EXCEPT ![k] = @ + 1]
    /\ IF subscribed
       THEN /\ down' = Append(down, [News(k) EXCEPT !.value = @ + 1])
            /\ UNCHANGED missed
       ELSE missed' = missed \cup {k} /\ UNCHANGED down
    /\ UNCHANGED <<channel, subscribed, op, ctl>>

\* A report nobody asked for, as after REGISTER.
Report(k) ==
    /\ channel = "ours"
    /\ Len(down) < MaxFrames
    /\ down' = Append(down, News(k))
    /\ UNCHANGED <<channel, earbuds, op, ctl, missed>>

Replied == \E i \in DOMAIN down : down[i].reply

\* The reply to an essential query, or to the firmware query of a poll.
Reply ==
    /\ ~Replied
    /\ \/ /\ pc \in Essential
          /\ down' = Append(down, [News(pc) EXCEPT !.reply = TRUE])
       \/ /\ session.version = "asked"
          /\ ~firmware
          /\ down' = Append(down, [kind |-> "version", value |-> 1, reply |-> TRUE])
    /\ UNCHANGED <<channel, earbuds, op, ctl, missed>>

OtherApplication ==
    /\ channel' = CASE channel = "free" -> "other" [] channel = "other" -> "free"
                    [] OTHER -> channel
    /\ channel' # channel
    /\ UNCHANGED <<earbuds, down, op, ctl, missed>>

\* The kernel has taken down a closed connection.
ChannelFreed ==
    /\ channel = "closing"
    /\ channel' = "free"
    /\ UNCHANGED <<earbuds, down, op, ctl, missed>>

------------------------------------------------------------------------------
(* Events, and the socket.                                                 *)

About(frames) == {frames[i].kind : i \in DOMAIN frames}

\* The last of the chosen frames that are of kind k.
Newest(frames, chosen, k) == frames[Max({i \in chosen : frames[i].kind = k})].value

\* What is known after the chosen frames, in their order.
AfterThose(known, frames, chosen) ==
    [k \in DOMAIN known |->
        IF \E i \in chosen : frames[i].kind = k THEN Newest(frames, chosen, k) ELSE known[k]]

After(known, frames) == AfterThose(known, frames, DOMAIN frames)

\* _apply_batch.
Applied(status, news) == [k \in Kinds |-> IF news[k] = 0 THEN status[k] ELSE news[k]]

\* All frames but the reply that is awaited.
Others(frames) == {i \in DOMAIN frames : ~(frames[i].reply /\ frames[i].kind = pc)}

\* What is missed when news is lost and status is shown.
NowMissed(lost, status) ==
    missed' = {k \in missed \cup {kind \in Kinds : lost[kind] # 0} : status[k] # buds[k]}

\* The first n frames on their way, and what the operation knows with them.
Taken(n) == SubSeq(down, 1, n)

Left(n) == down' = SubSeq(down, n + 1, Len(down))

With(frames) == AfterThose(setup, frames, Others(frames))

\* Frames on their way are lost with the socket.
Close ==
    /\ channel' = IF channel = "ours" THEN "closing" ELSE channel
    /\ subscribed' = FALSE
    /\ down' = <<>>
    /\ UNCHANGED <<buds, changes>>

Enter(g) == pc' = "connect" /\ goal' = g /\ tries' = 0 /\ setup' = Nothing

Idle == pc' = "idle" /\ tries' = 0 /\ setup' = Nothing /\ UNCHANGED goal

\* Fault: the event codes stay.
ClearedExceptCodes ==
    /\ running' = FALSE
    /\ held' = FALSE
    /\ shown' = Unread
    /\ UNCHANGED codes
    /\ firmware' = FALSE
    /\ session' = NoSession
    /\ read' = Unread

Cleared ==
    /\ running' = FALSE
    /\ held' = FALSE
    /\ shown' = Unread
    /\ codes' = FALSE
    /\ firmware' = FALSE
    /\ session' = NoSession
    /\ read' = Unread

------------------------------------------------------------------------------
(* What opens a socket.                                                    *)

\* shutdown(), and start() after it: of the runner, of refresh(), of a poll that
\* found no session or failed.
Start ==
    /\ pc = "idle"
    /\ Close
    /\ Cleared
    /\ Enter("start")
    /\ missed' = {}

Shutdown ==
    /\ pc = "idle"
    /\ running
    /\ Close
    /\ Cleared
    /\ Idle
    /\ missed' = {}

\* A strength write closes the session first.
StrengthWrite ==
    /\ pc = "idle"
    /\ Close
    /\ held' = FALSE
    /\ session' = NoSession
    /\ Enter("write")
    /\ NowMissed(After(Nothing, down), shown)
    /\ UNCHANGED <<running, shown, codes, firmware, read>>

\* Only a device with a profile gets as far as its battery.
HasProfile == shown["battery"] # 0

\* A main mode is set when an earlier failure has closed the session.
MainWriteReopens ==
    /\ pc = "idle"
    /\ HasProfile
    /\ ~held
    /\ Enter("reopen")
    /\ UNCHANGED <<channel, earbuds, down, ctl, missed>>

FirstWait == CASE goal = "start" -> "identify"
               [] goal \in {"reopen", "resume"} -> "authenticate"
               [] goal \in {"write", "verify"} -> goal

Connected ==
    /\ pc = "connect"
    /\ channel = "free"
    /\ channel' = "ours"
    /\ pc' = FirstWait
    /\ tries' = 0
    /\ UNCHANGED <<earbuds, down, goal, setup, ctl, missed>>

\* Fault: attempts are not counted.
BusyForever ==
    /\ pc = "connect"
    /\ channel # "free"
    /\ UNCHANGED <<channel, earbuds, down, op, ctl, missed>>

\* Fault: one attempt after another.
BusyUnbounded ==
    /\ pc = "connect"
    /\ channel # "free"
    /\ tries' = tries + 1
    /\ UNCHANGED <<channel, earbuds, down, pc, goal, setup, ctl, missed>>

\* EBUSY: another attempt after a second.
Busy ==
    /\ pc = "connect"
    /\ channel # "free"
    /\ tries + 1 < Attempts[goal]
    /\ tries' = tries + 1
    /\ UNCHANGED <<channel, earbuds, down, pc, goal, setup, ctl, missed>>

------------------------------------------------------------------------------
(* An operation fails: a connect that may not be tried again, a send, a    *)
(* receive, a time-out, or a state the earbuds do not report.              *)

MayFail == pc \in Waits \/ (pc = "connect" /\ (channel = "free" \/ tries + 1 = Attempts[goal]))

\* Fault: a failed bootstrap leaves its socket open.
StartFailsOpen ==
    /\ MayFail
    /\ goal = "start"
    /\ Cleared
    /\ Idle
    /\ missed' = {}
    /\ UNCHANGED <<channel, earbuds, down>>

\* bootstrap closes its socket, and start() clears everything.
StartFails ==
    /\ MayFail
    /\ goal = "start"
    /\ Close
    /\ Cleared
    /\ Idle
    /\ missed' = {}

\* poll() passes an OSError on to refresh().
PollFails ==
    /\ MayFail
    /\ goal = "poll"
    /\ Close
    /\ Cleared
    /\ Enter("start")
    /\ missed' = {}

\* A session that cannot be reopened: before a main mode the cached ANC is
\* forgotten as well, unless a frame could not be decoded; after a strength the
\* status stays.
ReopenFails ==
    /\ MayFail
    /\ goal \in {"reopen", "resume"}
    /\ Close
    /\ Idle
    /\ session' = NoSession
    /\ \/ shown' = shown
       \/ goal = "reopen" /\ shown' = [shown EXCEPT !["anc"] = 0]
    /\ NowMissed(With(down), shown')
    /\ UNCHANGED <<running, held, codes, firmware, read>>

\* The write's sockets are closed either way, and a running controller goes back
\* to monitoring.
Monitor == IF HasProfile THEN Enter("resume") ELSE Idle

StrengthWriteFails ==
    /\ MayFail
    /\ goal \in {"write", "verify"}
    /\ Close
    /\ Monitor
    /\ NowMissed(After(Nothing, down), shown)
    /\ UNCHANGED ctl

------------------------------------------------------------------------------
(* bootstrap.                                                              *)

\* The product is unknown: a status without a session.
Unsupported ==
    /\ pc = "identify"
    /\ Close
    /\ running' = TRUE
    /\ Idle
    /\ UNCHANGED <<held, shown, codes, firmware, session, read, missed>>

\* The capability primer and the product: frames that come with them are dropped.
Identify(n) ==
    /\ pc = "identify"
    /\ Left(n)
    /\ pc' = "authenticate"
    /\ NowMissed(After(Nothing, Taken(n)), Unread)
    /\ UNCHANGED <<channel, earbuds, goal, tries, setup, ctl>>

\* A burst collects what has arrived when it ends.
Collect(n) ==
    /\ setup' = With(Taken(n))
    /\ Left(n)

Await(to) == pc' = to /\ UNCHANGED <<channel, earbuds, goal, tries, ctl, missed>>

\* HELLO and REGISTER.
Authenticate(n) ==
    /\ pc = "authenticate"
    /\ Collect(n)
    /\ Await(IF goal = "start" THEN "battery" ELSE "codes")

RepliedIn(n) == \E i \in 1..n : down[i].reply /\ down[i].kind = pc

ReceiveOthers(n) ==
    /\ pc \in Essential
    /\ ~RepliedIn(n)
    /\ Collect(n)
    /\ Await(pc)

ReceiveBattery(n) ==
    /\ pc = "battery"
    /\ RepliedIn(n)
    /\ Collect(n)
    /\ \E i \in 1..n : down[i].reply /\ read' = [read EXCEPT !["battery"] = down[i].value]
    /\ pc' = "anc"
    /\ UNCHANGED <<channel, earbuds, goal, tries, running, held, shown, codes, firmware,
                   session, missed>>

Usable(status) ==
    /\ running' = TRUE
    /\ held' = TRUE
    /\ shown' = status
    /\ session' = [subscribe |-> TRUE, version |-> "pending", codes |-> FALSE]
    /\ Idle
    /\ UNCHANGED <<channel, earbuds, codes, firmware>>

\* Fault: setup notifications overwrite the essential replies.
ReceiveAncApplyingAll(n) ==
    /\ pc = "anc"
    /\ RepliedIn(n)
    /\ Left(n)
    /\ \E i \in 1..n : down[i].reply /\ read' = [read EXCEPT !["anc"] = down[i].value]
    /\ Usable(Applied(read', With(Taken(n))))
    /\ NowMissed(Nothing, shown')

\* The last reply: of the events collected, those about battery and ANC are dropped.
ReceiveAnc(n) ==
    LET events == With(Taken(n)) IN
    /\ pc = "anc"
    /\ RepliedIn(n)
    /\ Left(n)
    /\ \E i \in 1..n : down[i].reply /\ read' = [read EXCEPT !["anc"] = down[i].value]
    /\ Usable([k \in Kinds |-> IF k \in Essential THEN read'[k] ELSE events[k]])
    /\ NowMissed(events, shown')

------------------------------------------------------------------------------
(* Polls, and the subscription.                                            *)

PollBegins ==
    /\ pc = "idle"
    /\ held
    /\ goal' = "poll"
    /\ pc' = IF session.subscribe THEN "codes" ELSE "drain"
    /\ session' = [session EXCEPT !.subscribe = FALSE]
    /\ UNCHANGED <<channel, earbuds, down, tries, setup, running, held, shown, codes,
                   firmware, read, missed>>

\* Apply news that ends with the first n frames; return to the caller.
Finish(n, news) ==
    /\ Left(n)
    /\ shown' = Applied(shown, news)
    /\ firmware' = (firmware \/ news["version"] # 0)
    /\ NowMissed(Nothing, shown')
    /\ Idle

\* _connect_session ends: the session is the controller's.
Resumed(n, known) ==
    /\ Finish(n, After(setup, Taken(n)))
    /\ held' = TRUE
    /\ codes' = known
    /\ session' = [NoSession EXCEPT !.codes = known]
    /\ UNCHANGED <<channel, buds, changes, running, read>>

\* The event codes, or none when the earbuds do not answer in time: no subscription.
NoCodes(n) ==
    /\ pc = "codes"
    /\ \/ goal = "poll" /\ Collect(n) /\ Await("drain")
       \/ goal # "poll" /\ Resumed(n, FALSE) /\ UNCHANGED subscribed

Codes(n) ==
    /\ pc = "codes"
    /\ Collect(n)
    /\ subscribed' \in BOOLEAN
    /\ session' = [session EXCEPT !.codes = TRUE]
    /\ pc' = "subscribe"
    /\ UNCHANGED <<channel, buds, changes, goal, tries, running, held, shown, codes,
                   firmware, read, missed>>

Subscribed(n) ==
    /\ pc = "subscribe"
    /\ \/ goal = "poll" /\ Collect(n) /\ Await("drain")
       \/ goal # "poll" /\ Resumed(n, TRUE) /\ UNCHANGED subscribed

\* Fault: what arrived during the subscription is not returned by the poll.
DrainWithoutSetup(n) ==
    /\ pc = "drain"
    /\ Finish(n, After(Nothing, Taken(n)))
    /\ session' = IF session.version = "pending" THEN [session EXCEPT !.version = "asked"]
                  ELSE session
    /\ UNCHANGED <<channel, earbuds, running, held, codes, read>>

\* The firmware query goes out once, and the poll ends with what has arrived.
Drain(n) ==
    /\ pc = "drain"
    /\ Finish(n, After(setup, Taken(n)))
    /\ session' = IF session.version = "pending" THEN [session EXCEPT !.version = "asked"]
                  ELSE session
    /\ UNCHANGED <<channel, earbuds, running, held, codes, read>>

\* A frame that cannot be decoded ends a poll with ValueError: the session stays open, and
\* what the poll has collected is lost.
PollRaises(n) ==
    /\ goal = "poll"
    /\ pc # "idle"
    /\ Left(n)
    /\ NowMissed(After(setup, Taken(n)), shown)
    /\ session' = IF pc = "drain" /\ session.version = "pending"
                  THEN [session EXCEPT !.version = "asked"] ELSE session
    /\ Idle
    /\ UNCHANGED <<channel, earbuds, running, held, shown, codes, firmware, read>>

\* A command on the session applies what it met, but of more than 64 events only the
\* last; or it loses them all, with an exception that leaves the session open.
CommandReads(n) ==
    /\ pc = "idle"
    /\ held
    /\ n > 0
    /\ Left(n)
    /\ \E dropped \in 0..n :
          LET news == AfterThose(Nothing, Taken(n), (dropped + 1)..n) IN
          /\ shown' = Applied(shown, news)
          /\ firmware' = (firmware \/ news["version"] # 0)
          /\ NowMissed(AfterThose(Nothing, Taken(n), 1..dropped), shown')
    /\ UNCHANGED <<channel, earbuds, op, running, held, codes, session, read>>

\* A failed main-mode or EQ write closes the session.
CommandFails ==
    /\ pc = "idle"
    /\ held
    /\ Close
    /\ held' = FALSE
    /\ session' = NoSession
    /\ shown' \in {shown, [shown EXCEPT !["anc"] = 0]}
    /\ NowMissed(After(Nothing, down), shown')
    /\ UNCHANGED <<op, running, codes, firmware, read>>

------------------------------------------------------------------------------
(* The sockets of a strength write.                                        *)

\* SET was sent: the socket is closed, and another one opened to verify.
Written ==
    /\ pc = "write"
    /\ Close
    /\ Enter("verify")
    /\ NowMissed(After(Nothing, down), shown)
    /\ UNCHANGED ctl

\* The state read is cached, and monitoring resumes.
Verified ==
    /\ pc = "verify"
    /\ Close
    /\ Monitor
    /\ shown' = IF HasProfile THEN [shown EXCEPT !["anc"] = buds["anc"]] ELSE shown
    /\ NowMissed(After(Nothing, down), shown')
    /\ UNCHANGED <<running, held, codes, firmware, session, read>>

------------------------------------------------------------------------------

Outside ==
    \/ \E k \in Kinds : Change(k) \/ Report(k)
    \/ Reply
    \/ OtherApplication

Begins == Start \/ Shutdown \/ StrengthWrite \/ MainWriteReopens \/ PollBegins \/ CommandFails
          \/ \E n \in 1..Len(down) : CommandReads(n)

Proceeds ==
    \/ Connected \/ Busy
    \/ StartFails \/ PollFails \/ ReopenFails \/ StrengthWriteFails
    \/ Unsupported \/ Written \/ Verified
    \/ \E n \in 0..Len(down) :
          \/ Identify(n) \/ Authenticate(n)
          \/ ReceiveBattery(n) \/ ReceiveAnc(n)
          \/ NoCodes(n) \/ Codes(n) \/ Subscribed(n) \/ Drain(n)

Next ==
    \/ Outside \/ ChannelFreed \/ Begins \/ Proceeds
    \/ \E n \in 1..Len(down) : ReceiveOthers(n)
    \/ \E n \in 0..Len(down) : PollRaises(n)

Spec == Init /\ [][Next]_vars

\* The lock's owner runs, and each of its waits has a time-out.
FairSpec == Spec /\ WF_vars(Proceeds)

------------------------------------------------------------------------------
(* Properties.                                                             *)

\* The earbuds' only socket is taken exactly while the controller's session or the
\* operation under way uses it: no failure on any path leaks it, and no operation
\* tries to connect while the program itself still has it (docs/backend-api.md:43,
\* "A long-lived session also owns the earbuds' single RFCOMM control channel").
OneOwner ==
    /\ channel = "ours" <=> held \/ pc \in Waits
    /\ held => pc # "connect"

\* What is shown is never older than the essential state the session began with,
\* whatever order setup notifications and replies came in (session.py:107,
\* "Essential query responses are newer than setup notifications").
NotOlderThanRead == held /\ pc = "idle" => \A k \in Essential : shown[k] >= read[k] \/ shown[k] = 0

\* On a quiet session what is shown is the earbuds' state, unless the latest news
\* came before the subscription, with frames of the setup (some of which are newer
\* than the reply they are dropped for), with a command or poll that failed, or with a
\* command that received too many events (session.py:187).
StaleStatusHasCause ==
    held /\ pc = "idle" /\ About(down) \cap Kinds = {} =>
        \A k \in Kinds : shown[k] \in {0, buds[k]} \/ k \in missed

\* Every operation ends, also when the channel stays busy and nothing answers.
OperationsEnd == (pc # "idle") ~> (pc = "idle")

\* The event codes shown are never those of an earlier session.  (The deferred
\* subscription of a first poll does not show its own: the controller copies them
\* when a session opens, controller.py:46.)
CodesAreOfTheSession == held /\ pc = "idle" /\ codes => session.codes

==============================================================================
