---------------------------- MODULE BudsService ------------------------------
(***************************************************************************)
(* The helper process: BudsServiceRunner's loop in the service thread and  *)
(* the bridge's commands in the stdin reader thread, over one              *)
(* BudsController whose operations are serialized by a lock.  A controller *)
(* operation is one step: nobody sees the controller while the lock is     *)
(* held.  What a thread does with the result is not protected: snapshots   *)
(* are written to the frontend after the lock is released, one line at a   *)
(* time, and a command may be several locked operations in a row.          *)
(*                                                                         *)
(* Outside, compatible devices connect to and disconnect from BlueZ; the   *)
(* link of a session dies with its device and does not come back.  The     *)
(* retry wait may end at any moment (timer or availability hint; module    *)
(* Availability has the details).  An operation may fail at any point      *)
(* where the code does I/O.                                                *)
(***************************************************************************)
EXTENDS Naturals, FiniteSets

CONSTANTS
    Devices,         \* compatible devices, as select_device sees them
    Supported,       \* those whose product has a profile
    NoDevice,        \* None
    OtherErrors,     \* whether start and poll may raise what the runner does not catch
    MaxFaults,       \* bound: failed I/O not explained by a missing device
    MaxChanges       \* bound: connects and disconnects of devices

ASSUME ServiceAssumption ==
    /\ Supported \subseteq Devices
    /\ NoDevice \notin Devices
    /\ OtherErrors \in BOOLEAN
    /\ MaxFaults \in Nat
    /\ MaxChanges \in Nat

VARIABLES
    present,         \* devices connected in BlueZ
    alive,           \* whether the link of the controller's session is up
    ctl,             \* BudsController: running, session, status, eq (whose EQ is cached)
    rpc,             \* where the service thread is in BudsServiceRunner.run
    connected,       \* its local variable
    rsnap,           \* the snapshot it is about to publish
    cpc,             \* where the reader thread is in BudsFrontendBridge.execute
    cmd,             \* the command it executes
    csnap,           \* the snapshot it is about to emit
    cancelled,       \* BridgeProcessHost.cancelled
    exited,          \* the process has ended
    ui,              \* what the frontend last received: connection and snapshot
    faults,          \* faults so far
    changes          \* connects and disconnects so far

world == <<present, changes>>
control == <<ctl, alive, faults>>
runner == <<rpc, connected, rsnap>>
reader == <<cpc, cmd, csnap>>
host == <<cancelled, exited>>
vars == <<world, control, runner, reader, host, ui>>

RunnerSteps == {"begin", "loop", "start", "publish_connected", "publish_first", "poll",
                "publish_poll", "pause", "back_off", "publish_empty",
                "publish_disconnected", "retry_wait", "final", "publish_stopped",
                "publish_last", "done"}
ReaderSteps == {"idle", "execute", "second_read", "snapshot", "emit"}
Commands == {"refresh", "set_anc", "set_strength", "eq_status", "set_eq"}

Connections == {"connecting", "connected", "reconnecting", "disconnected", "stopped"}

DeviceOrNone == Devices \cup {NoDevice}
Controllers == [running : BOOLEAN, session : DeviceOrNone, status : DeviceOrNone,
                eq : DeviceOrNone]
Snapshots == [status : DeviceOrNone, live : BOOLEAN, eq : DeviceOrNone]

TypeOK ==
    /\ present \subseteq Devices
    /\ alive \in BOOLEAN
    /\ ctl \in Controllers
    /\ rpc \in RunnerSteps
    /\ connected \in BOOLEAN
    /\ rsnap \in Snapshots
    /\ cpc \in ReaderSteps
    /\ cmd \in Commands
    /\ csnap \in Snapshots
    /\ cancelled \in BOOLEAN
    /\ exited \in BOOLEAN
    /\ ui \in [conn : Connections, snap : Snapshots]
    /\ faults \in Nat
    /\ changes \in Nat

------------------------------------------------------------------------------
(* The controller.                                                         *)

\* shutdown(): the session is closed and everything about the device forgotten.
Cleared == [running |-> FALSE, session |-> NoDevice, status |-> NoDevice, eq |-> NoDevice]

\* Fault: a reconnect keeps the EQ status.
DiscoveredKeepingEq ==
    IF \E d \in Devices : present = {d}
    THEN LET d == CHOOSE d \in Devices : present = {d} IN
         [running |-> TRUE, session |-> IF d \in Supported THEN d ELSE NoDevice,
          status |-> d, eq |-> ctl.eq]
    ELSE Cleared

\* Fault: a device without a profile gets a session all the same.
DiscoveredAlwaysLive ==
    IF \E d \in Devices : present = {d}
    THEN LET d == CHOOSE d \in Devices : present = {d} IN
         [running |-> TRUE, session |-> d, status |-> d, eq |-> NoDevice]
    ELSE Cleared

\* What start() leaves after shutdown(): exactly one device must be present; one
\* without a profile is kept as a read-only status without a session.
Discovered ==
    IF \E d \in Devices : present = {d}
    THEN LET d == CHOOSE d \in Devices : present = {d} IN
         [running |-> TRUE, session |-> IF d \in Supported THEN d ELSE NoDevice,
          status |-> d, eq |-> NoDevice]
    ELSE Cleared

\* Fault: the snapshot holds the session and not whether there is one.
SnapSession(c) == [status |-> c.status, live |-> c.session, eq |-> c.eq]

\* snapshot(): taken under the lock.
Snap(c) == [status |-> c.status, live |-> c.session # NoDevice, eq |-> c.eq]

Fault == faults < MaxFaults /\ faults' = faults + 1

\* shutdown() and start(): an exception leaves the controller cleared.
Reconnect ==
    /\ alive' = TRUE
    /\ \/ ctl' = Discovered /\ UNCHANGED faults
       \/ ctl' = Cleared /\ Fault

KeepControl == UNCHANGED control

Raised == ~ctl'.running

Init ==
    /\ present \in SUBSET Devices
    /\ alive = TRUE
    /\ ctl = Cleared
    /\ rpc = "begin"
    /\ connected = FALSE
    /\ rsnap = Snap(Cleared)
    /\ cpc = "idle"
    /\ cmd = "refresh"
    /\ csnap = Snap(Cleared)
    /\ cancelled = FALSE
    /\ exited = FALSE
    /\ ui = [conn |-> "stopped", snap |-> Snap(Cleared)]
    /\ faults = 0
    /\ changes = 0

------------------------------------------------------------------------------
(* The service thread.                                                     *)

Runs(from) == ~exited /\ rpc = from

PublishState(from, conn, to) ==
    /\ Runs(from)
    /\ ui' = [ui EXCEPT !.conn = conn]
    /\ rpc' = to
    /\ UNCHANGED <<world, control, connected, rsnap, reader, host>>

PublishSnapshot(from, to) ==
    /\ Runs(from)
    /\ ui' = [ui EXCEPT !.snap = rsnap]
    /\ rpc' = to
    /\ UNCHANGED <<world, control, connected, rsnap, reader, host>>

RunnerBegins == PublishState("begin", "connecting", "loop")

\* Fault: the loop does not look at the cancellation.
RunnerLoopsOn ==
    /\ Runs("loop")
    /\ rpc' = IF connected THEN "poll" ELSE "start"
    /\ UNCHANGED <<world, control, connected, rsnap, reader, host, ui>>

RunnerLoops ==
    /\ Runs("loop")
    /\ rpc' = IF cancelled THEN "final" ELSE IF connected THEN "poll" ELSE "start"
    /\ UNCHANGED <<world, control, connected, rsnap, reader, host, ui>>

\* controller.start(): nothing to do when a refresh command was faster.
RunnerStarts ==
    /\ Runs("start")
    /\ IF ctl.running THEN KeepControl ELSE Reconnect
    /\ IF Raised
       THEN rpc' = "back_off" /\ UNCHANGED <<connected, rsnap>>
       ELSE /\ rpc' = "publish_connected"
            /\ connected' = TRUE
            /\ rsnap' = Snap(ctl')
    /\ UNCHANGED <<world, reader, host, ui>>

\* Fault: poll() answers from the cache when the session is gone or dead.
RunnerPollsCached ==
    /\ Runs("poll")
    /\ KeepControl
    /\ IF Raised
       THEN rpc' = "back_off" /\ connected' = FALSE /\ UNCHANGED rsnap
       ELSE rpc' = "publish_poll" /\ rsnap' = Snap(ctl) /\ UNCHANGED connected
    /\ UNCHANGED <<world, reader, host, ui>>

\* controller.poll().  Without a session it reconnects, unless the device has no
\* profile; an OSError of the session's poll reconnects at once, too.
RunnerPolls ==
    /\ Runs("poll")
    /\ \/ /\ ~ctl.running \/ (ctl.session = NoDevice /\ ctl.status \notin Supported)
          /\ KeepControl
       \/ /\ ctl.running
          /\ ctl.session # NoDevice \/ ctl.status \in Supported
          /\ Reconnect
       \/ /\ ctl.session # NoDevice
          /\ alive
          /\ ctl' \in {ctl, [ctl EXCEPT !.eq = NoDevice]}
          /\ UNCHANGED <<alive, faults>>
    /\ IF Raised
       THEN /\ rpc' = "back_off"
            /\ connected' = FALSE
            /\ UNCHANGED rsnap
       ELSE /\ rpc' = "publish_poll"
            /\ rsnap' = Snap(ctl')
            /\ UNCHANGED connected
    /\ UNCHANGED <<world, reader, host, ui>>

\* cancelled.wait(poll_interval)
RunnerPauses ==
    /\ Runs("pause")
    /\ rpc' = "loop"
    /\ UNCHANGED <<world, control, connected, rsnap, reader, host, ui>>

\* Fault: the snapshot published next is the one of before the shutdown.
ShutdownKeepingSnapshot(from, to) ==
    /\ Runs(from)
    /\ ctl' = Cleared
    /\ alive' = TRUE
    /\ rpc' = to
    /\ UNCHANGED <<world, faults, connected, rsnap, reader, host, ui>>

\* shutdown(), of _back_off and of run's finally clause.
Shutdown(from, to) ==
    /\ Runs(from)
    /\ ctl' = Cleared
    /\ alive' = TRUE
    /\ rsnap' = Snap(Cleared)
    /\ rpc' = to
    /\ UNCHANGED <<world, faults, connected, reader, host, ui>>

\* The wait of _back_off is over: cancelled, timer or availability hint.
RunnerRetries ==
    IF cancelled
    THEN /\ Runs("retry_wait")
         /\ rpc' = "final"
         /\ UNCHANGED <<world, control, connected, rsnap, reader, host, ui>>
    ELSE PublishState("retry_wait", "reconnecting", "loop")

\* An exception that is neither OSError nor RuntimeError leaves run(): decode_frame's
\* ValueError from either operation, D-Bus's own from discovery.  start() cleans up,
\* also in the refresh() of a poll; poll() itself leaves the session.
RunnerDies ==
    /\ OtherErrors
    /\ Fault
    /\ \/ Runs("start") /\ ~ctl.running /\ ctl' = Cleared
       \/ Runs("poll") /\ ctl.session # NoDevice /\ UNCHANGED ctl
       \/ Runs("poll") /\ ctl.status \in Supported /\ ctl' = Cleared
    /\ rpc' = "final"
    /\ alive' = (alive \/ ctl'.session = NoDevice)
    /\ UNCHANGED <<world, connected, rsnap, reader, host, ui>>

\* _run_bridge returns: the host is told to end.
RunnerEnds ==
    /\ Runs("publish_last")
    /\ ui' = [ui EXCEPT !.snap = rsnap]
    /\ rpc' = "done"
    /\ cancelled' = TRUE
    /\ UNCHANGED <<world, control, connected, rsnap, reader, exited>>

RunnerStep ==
    \/ RunnerBegins
    \/ RunnerLoops
    \/ RunnerStarts
    \/ PublishState("publish_connected", "connected", "publish_first")
    \/ PublishSnapshot("publish_first", "poll")
    \/ RunnerPolls
    \/ PublishSnapshot("publish_poll", "pause")
    \/ RunnerPauses
    \/ Shutdown("back_off", "publish_empty")
    \/ PublishSnapshot("publish_empty", "publish_disconnected")
    \/ PublishState("publish_disconnected", "disconnected", "retry_wait")
    \/ RunnerRetries
    \/ Shutdown("final", "publish_stopped")
    \/ PublishState("publish_stopped", "stopped", "publish_last")
    \/ RunnerEnds

------------------------------------------------------------------------------
(* The reader thread.                                                      *)

\* A line is dropped when the host is cancelled already.
ReceiveLine(c) ==
    /\ ~exited
    /\ ~cancelled
    /\ cpc = "idle"
    /\ cmd' = c
    /\ cpc' = "execute"
    /\ UNCHANGED <<world, control, runner, csnap, host, ui>>

Executes(from, commands) ==
    /\ ~exited
    /\ cpc = from
    /\ cmd \in commands
    /\ UNCHANGED <<world, runner, cmd, host, ui>>

\* The command raises: an error response and nothing for the shown snapshot.
Refused == cpc' = "idle" /\ UNCHANGED csnap

\* A session that was open keeps its link, a new one has a live link.
KeepLink == alive' = (alive \/ ctl.session = NoDevice \/ ctl'.session = NoDevice)

ExecuteRefresh ==
    /\ Executes("execute", {"refresh"})
    /\ Reconnect
    /\ IF Raised THEN Refused ELSE cpc' = "emit" /\ csnap' = Snap(ctl')

CanOpen == ctl.status \in present \cap Supported

SessionUsable == IF ctl.session = NoDevice THEN CanOpen ELSE alive

\* set_anc_with_snapshot: the snapshot is taken under the same lock.
AncResult == Refused \/ (cpc' = "emit" /\ csnap' = Snap(ctl'))

\* _set_session_anc: on the session, opened to the cached device when there is
\* none; a failure closes it.  Frames met on the way may forget the EQ.
ExecuteSetAnc ==
    /\ Executes("execute", {"set_anc"})
    /\ ctl.running
    /\ \/ /\ SessionUsable
          /\ \E eq \in {ctl.eq, NoDevice} :
                ctl' = [ctl EXCEPT !.session = ctl.status, !.eq = eq]
          /\ AncResult
       \/ /\ ctl' = [ctl EXCEPT !.session = NoDevice]
          /\ Refused
    /\ KeepLink
    /\ UNCHANGED faults

\* A strength is written on a socket of its own; the session is closed before and
\* reopened after it, whether the write failed or not.
ExecuteSetStrength ==
    /\ Executes("execute", {"set_strength"})
    /\ ctl.running
    /\ \/ /\ CanOpen
          /\ \E eq \in {ctl.eq, NoDevice} :
                ctl' = [ctl EXCEPT !.session = ctl.status, !.eq = eq]
          /\ AncResult
       \/ /\ ctl' = [ctl EXCEPT !.session = NoDevice]
          /\ Refused
    /\ alive' = TRUE
    /\ UNCHANGED faults

\* While not running any mode is written one-shot; the controller has no part in it.
ExecuteOneShot ==
    /\ Executes("execute", {"set_anc", "set_strength"})
    /\ ~ctl.running
    /\ KeepControl
    /\ AncResult

\* Fault: no _require_running.
EqControllerAlways(c) ==
    \/ ctl.session # NoDevice /\ c = ctl /\ UNCHANGED faults
    \/ ctl.session = NoDevice /\ c = Discovered /\ UNCHANGED faults
    \/ ctl.session = NoDevice /\ c = Cleared /\ Fault

\* _require_running, then refresh() if there is no session: c is what the EQ
\* command works on.
EqController(c) ==
    /\ ctl.running
    /\ \/ ctl.session # NoDevice /\ c = ctl /\ UNCHANGED faults
       \/ ctl.session = NoDevice /\ c = Discovered /\ UNCHANGED faults
       \/ ctl.session = NoDevice /\ c = Cleared /\ Fault

\* eq_status(), the command's only operation or the second of set_eq.  A failure
\* leaves the session open; without one there is nothing to read from.
ReadEq(from, command) ==
    /\ Executes(from, {command})
    /\ \/ ~ctl.running /\ KeepControl /\ Refused
       \/ /\ \E c \in {ctl, Discovered, Cleared} :
                /\ EqController(c)
                /\ \/ c.session # NoDevice /\ ctl' = [c EXCEPT !.eq = c.session]
                      /\ cpc' = "snapshot" /\ UNCHANGED csnap
                   \/ ctl' = c /\ Refused
          /\ KeepLink

\* set_eq() and set_custom_eq(): a write forgets the EQ; one that fails closes the
\* session as well, unless the target was refused.
ExecuteSetEq ==
    /\ Executes("execute", {"set_eq"})
    /\ \/ ~ctl.running /\ KeepControl /\ Refused
       \/ /\ \E c \in {ctl, Discovered, Cleared} :
                /\ EqController(c)
                /\ \/ c.session # NoDevice /\ ctl' = [c EXCEPT !.eq = NoDevice]
                      /\ cpc' = "second_read" /\ UNCHANGED csnap
                   \/ ctl' = [c EXCEPT !.session = NoDevice, !.eq = NoDevice] /\ Refused
                   \/ ctl' = c /\ Refused
          /\ KeepLink

\* The EQ commands take their snapshot in a further locked operation.
TakeSnapshot ==
    /\ Executes("snapshot", Commands)
    /\ csnap' = Snap(ctl)
    /\ cpc' = "emit"
    /\ KeepControl

\* The lock was released when the snapshot was taken; nobody holds it after this.
Emit ==
    /\ ~exited
    /\ cpc = "emit"
    /\ ui' = [ui EXCEPT !.snap = csnap]
    /\ cpc' = "idle"
    /\ csnap' = Snap(Cleared)
    /\ UNCHANGED <<world, control, runner, cmd, host>>

ReaderStep ==
    \/ ExecuteRefresh
    \/ ExecuteSetAnc
    \/ ExecuteSetStrength
    \/ ExecuteOneShot
    \/ ReadEq("execute", "eq_status")
    \/ ExecuteSetEq
    \/ ReadEq("second_read", "set_eq")
    \/ TakeSnapshot
    \/ Emit

------------------------------------------------------------------------------
(* The process and its surroundings.                                       *)

DeviceArrives(d) ==
    /\ changes < MaxChanges
    /\ d \notin present
    /\ present' = present \cup {d}
    /\ changes' = changes + 1
    /\ UNCHANGED <<control, runner, reader, host, ui>>

DeviceLeaves(d) ==
    /\ changes < MaxChanges
    /\ d \in present
    /\ present' = present \ {d}
    /\ changes' = changes + 1
    /\ alive' = (alive /\ ctl.session # d)
    /\ UNCHANGED <<ctl, faults, runner, reader, host, ui>>

\* SIGINT, SIGTERM, or the end of stdin.
Cancel ==
    /\ ~cancelled
    /\ cancelled' = TRUE
    /\ UNCHANGED <<world, control, runner, reader, exited, ui>>

\* The main thread has joined the service thread; the reader is a daemon thread
\* and dies where it is.  Service.qml shows "stopped" and keeps the snapshot.
Exit ==
    /\ ~exited
    /\ cancelled
    /\ rpc = "done"
    /\ exited' = TRUE
    /\ ui' = [ui EXCEPT !.conn = "stopped"]
    /\ UNCHANGED <<world, control, runner, reader, cancelled>>

Outside ==
    \/ \E d \in Devices : DeviceArrives(d) \/ DeviceLeaves(d)
    \/ Cancel
    \/ \E c \in Commands : ReceiveLine(c)
    \/ RunnerDies

Next == RunnerStep \/ ReaderStep \/ Exit \/ Outside

Spec == Init /\ [][Next]_vars

\* Both threads are scheduled, the controller lock is free again after every
\* operation, every wait has a timeout, and the main thread waits for nothing else.
Fairness == WF_vars(RunnerStep) /\ WF_vars(ReaderStep) /\ WF_vars(Exit)

FairSpec == Spec /\ Fairness

------------------------------------------------------------------------------
(* Properties.                                                             *)

Consistent(snap) ==
    /\ snap.eq # NoDevice => snap.eq = snap.status
    /\ snap.live => snap.status \in Supported

\* Whoever gets the lock finds a controller whose session, status and EQ belong to
\* one device, and that has a status exactly while it runs: through reconnects to
\* another device, failed writes and half-done commands of the other thread.
ControllerConsistent ==
    /\ ctl.running <=> ctl.status # NoDevice
    /\ ctl.session # NoDevice => ctl.session = ctl.status /\ ctl.session \in Supported
    /\ ctl.eq # NoDevice => ctl.eq = ctl.status

\* The frontend never sees the EQ of one device under the name of another, nor
\* controls for a device without a profile, in whatever order the two threads
\* publish the snapshots they took.
ShownSnapshotConsistent == Consistent(ui.snap) /\ Consistent(rsnap) /\ Consistent(csnap)

\* After the final shutdown everything about the device stays forgotten and its session
\* closed, unless the one command still under way is a refresh: the others that need a
\* session refuse to start one (controller.py:308, _require_running).  The connection
\* shown stays "stopped", and the last snapshot the empty one until that command ends:
\* at most one snapshot follows it (service.py:95-96, bridge.py:198).
StoppedStaysStopped ==
    rpc \in {"publish_stopped", "publish_last", "done"} =>
        /\ ctl # Cleared => cmd = "refresh" /\ cpc \in {"emit", "idle"}
        /\ rpc # "publish_stopped" => ui.conn = "stopped"
        /\ rpc = "done" /\ cpc # "idle" => ui.snap = Snap(Cleared)

\* The service thread ends only because it was told to (service.py:56, "Run until
\* cancellation, retrying expected connection failures").
RunsUntilCancelled == rpc \in {"final", "publish_stopped", "publish_last"} => cancelled

\* A device that stays connected alone is connected to and shown as live in the end,
\* whatever happened before and whatever commands go on arriving.
Reconnects ==
    \A d \in Supported :
        <>[](present = {d} /\ ~cancelled)
            => <>[](ui.conn = "connected" /\ ui.snap.status = d /\ ui.snap.live)

\* When every device has gone for good, none is shown in the end.
DepartureShown == <>[](present = {} /\ ~cancelled) => <>[](ui.snap.status = NoDevice)

\* A cancelled process ends, also when a command keeps the controller busy.
Stops == cancelled ~> exited

==============================================================================
