-------------------------- MODULE BudsServiceProofs --------------------------
(***************************************************************************)
(* BudsService for any number of devices, faults and changes: its types,   *)
(* the consistency of the controller and of every snapshot under way or    *)
(* shown, and, when the service thread meets only errors it catches, that  *)
(* it runs until it is cancelled and stays stopped after that.             *)
(***************************************************************************)
EXTENDS BudsService, TLAPS

\* A controller as other threads may find it.
SoundController(c) ==
    /\ c \in Controllers
    /\ c.running <=> c.status # NoDevice
    /\ c.session # NoDevice => c.session = c.status /\ c.session \in Supported
    /\ c.eq # NoDevice => c.eq = c.status

SoundSnapshot(s) == s \in Snapshots /\ Consistent(s)

------------------------------------------------------------------------------
(* The operators.                                                          *)

LEMMA ClearedSound == SoundController(Cleared)
BY DEF SoundController, Cleared, Controllers, DeviceOrNone

LEMMA DiscoveredSound == SoundController(Discovered)
<1>1. CASE \E d \in Devices : present = {d}
  <2>. DEFINE d == CHOOSE d \in Devices : present = {d}
  <2>1. d \in Devices
    BY <1>1
  <2>2. d # NoDevice
    BY <2>1, ServiceAssumption
  <2>3. Discovered = [running |-> TRUE, session |-> IF d \in Supported THEN d ELSE NoDevice,
                      status |-> d, eq |-> NoDevice]
    BY <1>1 DEF Discovered
  <2>. HIDE DEF d
  <2>. QED
    BY <2>1, <2>2, <2>3 DEF SoundController, Controllers, DeviceOrNone
<1>2. CASE ~\E d \in Devices : present = {d}
  BY <1>2, ClearedSound DEF Discovered
<1>. QED
  BY <1>1, <1>2

\* What snapshot() returns of a sound controller is sound.
LEMMA SnapSound ==
    ASSUME NEW c, SoundController(c)
    PROVE  SoundSnapshot(Snap(c))
BY DEF SoundController, Controllers, SoundSnapshot, Snapshots, Snap, Consistent, DeviceOrNone

LEMMA ReadSound ==
    ASSUME NEW c, SoundController(c)
    PROVE  SoundController([c EXCEPT !.eq = c.session])
BY DEF SoundController, Controllers, DeviceOrNone

\* The types of what a controller operation changes.
Control == SoundController(ctl) /\ alive \in BOOLEAN /\ faults \in Nat

LEMMA ReconnectSound ==
    ASSUME Control, Reconnect
    PROVE  Control'
<1>1. SoundController(ctl')
  BY ClearedSound, DiscoveredSound DEF Reconnect
<1>2. faults' \in Nat
  BY DEF Control, Reconnect, Fault
<1>. QED
  BY <1>1, <1>2 DEF Control, Reconnect, SoundController

LEMMA KeepControlSound ==
    ASSUME Control, KeepControl
    PROVE  Control'
BY DEF Control, KeepControl, control, SoundController

------------------------------------------------------------------------------
(* The inductive invariant, in the parts that one action changes together. *)

Shown == ui \in [conn : Connections, snap : Snapshots] /\ Consistent(ui.snap)

World == present \subseteq Devices /\ changes \in Nat

Runner == rpc \in RunnerSteps /\ connected \in BOOLEAN /\ SoundSnapshot(rsnap)

Reader == cpc \in ReaderSteps /\ cmd \in Commands /\ SoundSnapshot(csnap)

Host == cancelled \in BOOLEAN /\ exited \in BOOLEAN

Sound == World /\ Control /\ Runner /\ Reader /\ Host /\ Shown

\* The invariant is what BudsService states in TypeOK and its two consistency
\* properties, arranged otherwise.
LEMMA SoundMeaning == Sound <=> TypeOK /\ ControllerConsistent /\ ShownSnapshotConsistent
BY DEF Sound, World, Control, Runner, Reader, Host, Shown, TypeOK, ControllerConsistent,
       ShownSnapshotConsistent, SoundController, SoundSnapshot

LEMMA InitSound == Init => Sound
<1>. SUFFICES ASSUME Init PROVE World /\ Control /\ Runner /\ Reader /\ Host /\ Shown
  BY DEF Sound
<1>1. World /\ Host
  BY DEF Init, World, Host
<1>2. Control
  BY ClearedSound DEF Init, Control
<1>3. SoundSnapshot(Snap(Cleared))
  BY ClearedSound, SnapSound
<1>4. Runner /\ Reader /\ Shown
  BY <1>3 DEF Init, Runner, Reader, Shown, RunnerSteps, ReaderSteps, Commands,
                 Connections, SoundSnapshot
<1>. QED
  BY <1>1, <1>2, <1>4

------------------------------------------------------------------------------
(* The steps.                                                              *)

LEMMA PublishStateSound ==
    ASSUME Sound, NEW from, NEW to \in RunnerSteps, NEW conn \in Connections,
           PublishState(from, conn, to)
    PROVE  Sound'
<1>1. Shown'
  BY DEF Sound, PublishState, Shown, Consistent
<1>2. Runner' /\ Reader'
  BY DEF Sound, PublishState, Runner, Reader, reader, SoundSnapshot, Consistent
<1>3. World' /\ Control' /\ Host'
  BY DEF Sound, PublishState, World, Control, Host, world, control, host, SoundController
<1>. QED
  BY <1>1, <1>2, <1>3 DEF Sound

LEMMA PublishSnapshotSound ==
    ASSUME Sound, NEW from, NEW to \in RunnerSteps, PublishSnapshot(from, to)
    PROVE  Sound'
<1>1. Shown'
  BY DEF Sound, PublishSnapshot, Shown, Runner, SoundSnapshot, Consistent
<1>2. Runner' /\ Reader'
  BY DEF Sound, PublishSnapshot, Runner, Reader, reader, SoundSnapshot, Consistent
<1>3. World' /\ Control' /\ Host'
  BY DEF Sound, PublishSnapshot, World, Control, Host, world, control, host,
                    SoundController
<1>. QED
  BY <1>1, <1>2, <1>3 DEF Sound

LEMMA ShutdownSound ==
    ASSUME Sound, NEW from, NEW to \in RunnerSteps, Shutdown(from, to)
    PROVE  Sound'
<1>1. Control' /\ SoundSnapshot(rsnap')
  BY ClearedSound, SnapSound DEF Sound, Shutdown, Control
<1>2. Runner' /\ Reader' /\ Shown'
  BY <1>1 DEF Sound, Shutdown, Runner, Reader, reader, Shown, SoundSnapshot, Consistent
<1>3. World' /\ Host'
  BY DEF Sound, Shutdown, World, Host, world, host
<1>. QED
  BY <1>1, <1>2, <1>3 DEF Sound

\* What a step of the service thread leaves alone when it publishes nothing.
LEMMA QuietRunner ==
    ASSUME Sound, UNCHANGED <<world, reader, host, ui>>
    PROVE  World' /\ Reader' /\ Host' /\ Shown'
BY DEF Sound, World, Reader, Host, Shown, world, reader, host, SoundSnapshot, Consistent

LEMMA RunnerStartsSound ==
    ASSUME Sound, RunnerStarts
    PROVE  Sound'
<1>1. Control'
  BY KeepControlSound, ReconnectSound DEF Sound, RunnerStarts
<1>2. SoundSnapshot(Snap(ctl'))
  BY <1>1, SnapSound DEF Control
<1>3. Runner'
  BY <1>2 DEF Sound, RunnerStarts, Runner, RunnerSteps, SoundSnapshot, Consistent
<1>. QED
  BY <1>1, <1>3, QuietRunner DEF Sound, RunnerStarts

LEMMA RunnerPollsSound ==
    ASSUME Sound, RunnerPolls
    PROVE  Sound'
<1>1. Control'
  <2>1. ASSUME ctl' \in {ctl, [ctl EXCEPT !.eq = NoDevice]}, UNCHANGED <<alive, faults>>
        PROVE  Control'
    <3>1. SoundController(ctl')
      BY <2>1 DEF Sound, Control, SoundController, Controllers, DeviceOrNone
    <3>. QED
      BY <2>1, <3>1 DEF Sound, Control, SoundController
  <2>. QED
    BY <2>1, KeepControlSound, ReconnectSound DEF Sound, RunnerPolls
<1>2. SoundSnapshot(Snap(ctl'))
  BY <1>1, SnapSound DEF Control
<1>3. Runner'
  BY <1>2 DEF Sound, RunnerPolls, Runner, RunnerSteps, SoundSnapshot, Consistent
<1>. QED
  BY <1>1, <1>3, QuietRunner DEF Sound, RunnerPolls

\* The steps that only move the service thread on.
LEMMA RunnerMovesSound ==
    ASSUME Sound, NEW step \in RunnerSteps, rpc' = step,
           UNCHANGED <<world, control, connected, rsnap, reader, host, ui>>
    PROVE  Sound'
<1>1. Control'
  BY KeepControlSound DEF Sound, KeepControl
<1>2. Runner'
  BY DEF Sound, Runner, SoundSnapshot, Consistent
<1>. QED
  BY <1>1, <1>2, QuietRunner DEF Sound

LEMMA RunnerStepSound ==
    ASSUME Sound, RunnerStep
    PROVE  Sound'
<1>1. CASE RunnerLoops
  BY <1>1, RunnerMovesSound DEF RunnerLoops, RunnerSteps
<1>2. CASE RunnerPauses
  BY <1>2, RunnerMovesSound DEF RunnerPauses, RunnerSteps
<1>3. CASE RunnerRetries
  <2>1. CASE cancelled
    BY <1>3, <2>1, RunnerMovesSound DEF RunnerRetries, RunnerSteps
  <2>2. CASE ~cancelled
    BY <1>3, <2>2, PublishStateSound DEF RunnerRetries, RunnerSteps, Connections
  <2>. QED
    BY <2>1, <2>2
<1>4. CASE RunnerEnds
  <2>1. Control'
    BY <1>4, KeepControlSound DEF Sound, RunnerEnds, KeepControl
  <2>2. World' /\ Reader' /\ Host'
    BY <1>4 DEF Sound, RunnerEnds, World, Reader, Host, world, reader, SoundSnapshot,
                Consistent
  <2>3. Runner' /\ Shown'
    BY <1>4 DEF Sound, RunnerEnds, Runner, RunnerSteps, Shown, SoundSnapshot, Consistent
  <2>. QED
    BY <2>1, <2>2, <2>3 DEF Sound
<1>5. CASE RunnerStarts \/ RunnerPolls
  BY <1>5, RunnerStartsSound, RunnerPollsSound
<1>6. CASE Shutdown("back_off", "publish_empty") \/ Shutdown("final", "publish_stopped")
  BY <1>6, ShutdownSound DEF RunnerSteps
<1>7. CASE \/ PublishSnapshot("publish_first", "poll")
           \/ PublishSnapshot("publish_poll", "pause")
           \/ PublishSnapshot("publish_empty", "publish_disconnected")
  BY <1>7, PublishSnapshotSound DEF RunnerSteps
<1>8. CASE \/ RunnerBegins
           \/ PublishState("publish_connected", "connected", "publish_first")
           \/ PublishState("publish_disconnected", "disconnected", "retry_wait")
           \/ PublishState("publish_stopped", "stopped", "publish_last")
  BY <1>8, PublishStateSound DEF RunnerBegins, RunnerSteps, Connections
<1>. QED
  BY <1>1, <1>2, <1>3, <1>4, <1>5, <1>6, <1>7, <1>8 DEF RunnerStep

\* A command ends with its controller sound, and with a snapshot of it or none.
LEMMA ExecutesSound ==
    ASSUME Sound, NEW from, NEW commands, Executes(from, commands), Control',
           cpc' \in ReaderSteps, SoundSnapshot(csnap')
    PROVE  Sound'
<1>1. World' /\ Host' /\ Shown'
  BY DEF Sound, Executes, World, Host, Shown, world, host, Consistent
<1>2. Runner'
  BY DEF Sound, Executes, Runner, runner, SoundSnapshot, Consistent
<1>3. Reader'
  BY DEF Sound, Executes, Reader, SoundSnapshot, Consistent
<1>. QED
  BY <1>1, <1>2, <1>3 DEF Sound

LEMMA AncResultSound ==
    ASSUME Sound, Control', AncResult
    PROVE  cpc' \in ReaderSteps /\ SoundSnapshot(csnap')
<1>1. SoundSnapshot(Snap(ctl'))
  BY SnapSound DEF Control
<1>. QED
  BY <1>1 DEF AncResult, Refused, Sound, Reader, ReaderSteps, SoundSnapshot, Consistent

LEMMA RefusedSound ==
    ASSUME Sound, Refused
    PROVE  cpc' \in ReaderSteps /\ SoundSnapshot(csnap')
BY DEF Refused, Sound, Reader, ReaderSteps, SoundSnapshot, Consistent

LEMMA ExecuteRefreshSound ==
    ASSUME Sound, ExecuteRefresh
    PROVE  Sound'
<1>1. Control'
  BY ReconnectSound DEF Sound, ExecuteRefresh
<1>2. SoundSnapshot(Snap(ctl'))
  BY <1>1, SnapSound DEF Control
<1>3. cpc' \in ReaderSteps /\ SoundSnapshot(csnap')
  BY <1>2, RefusedSound DEF ExecuteRefresh, ReaderSteps
<1>. QED
  BY <1>1, <1>3, ExecutesSound DEF ExecuteRefresh

\* A noise-control command either has a session to the cached device or drops it.
LEMMA AncControlSound ==
    ASSUME Control, UNCHANGED faults, alive' \in BOOLEAN,
           \/ /\ CanOpen \/ ctl.session # NoDevice
              /\ \E eq \in {ctl.eq, NoDevice} :
                    ctl' = [ctl EXCEPT !.session = ctl.status, !.eq = eq]
           \/ ctl' = [ctl EXCEPT !.session = NoDevice]
    PROVE  Control'
<1>1. SoundController(ctl)
  BY DEF Control
<1>2. SoundController([ctl EXCEPT !.session = NoDevice])
  BY <1>1 DEF SoundController, Controllers, DeviceOrNone
<1>3. ASSUME CanOpen \/ ctl.session # NoDevice, NEW eq \in {ctl.eq, NoDevice}
      PROVE  SoundController([ctl EXCEPT !.session = ctl.status, !.eq = eq])
  BY <1>1, <1>3 DEF CanOpen, SoundController, Controllers, DeviceOrNone
<1>4. SoundController(ctl')
  BY <1>2, <1>3
<1>. QED
  BY <1>4 DEF Control, SoundController

LEMMA ExecuteAncSound ==
    ASSUME Sound, ExecuteSetAnc \/ ExecuteSetStrength
    PROVE  Sound'
<1>1. alive' \in BOOLEAN
  BY DEF Sound, Control, ExecuteSetAnc, ExecuteSetStrength, KeepLink
<1>2. Control'
  BY <1>1, AncControlSound DEF Sound, ExecuteSetAnc, ExecuteSetStrength, SessionUsable
<1>3. cpc' \in ReaderSteps /\ SoundSnapshot(csnap')
  BY <1>2, AncResultSound, RefusedSound DEF ExecuteSetAnc, ExecuteSetStrength
<1>. QED
  BY <1>2, <1>3, ExecutesSound DEF ExecuteSetAnc, ExecuteSetStrength

LEMMA ExecuteOneShotSound ==
    ASSUME Sound, ExecuteOneShot
    PROVE  Sound'
<1>1. Control'
  BY KeepControlSound DEF Sound, ExecuteOneShot
<1>2. cpc' \in ReaderSteps /\ SoundSnapshot(csnap')
  BY <1>1, AncResultSound DEF ExecuteOneShot
<1>. QED
  BY <1>1, <1>2, ExecutesSound DEF ExecuteOneShot

LEMMA EqControllerSound ==
    ASSUME Control, NEW c \in {ctl, Discovered, Cleared}, EqController(c)
    PROVE  SoundController(c) /\ faults' \in Nat
BY ClearedSound, DiscoveredSound DEF Control, EqController, Fault

LEMMA ReadEqSound ==
    ASSUME Sound, NEW from, NEW command, ReadEq(from, command)
    PROVE  Sound'
<1>1. CASE KeepControl /\ Refused
  BY <1>1, KeepControlSound, RefusedSound, ExecutesSound DEF ReadEq, Sound
<1>2. ASSUME NEW c \in {ctl, Discovered, Cleared}, EqController(c), KeepLink,
             \/ /\ c.session # NoDevice /\ ctl' = [c EXCEPT !.eq = c.session]
                /\ cpc' = "snapshot" /\ UNCHANGED csnap
             \/ ctl' = c /\ Refused
      PROVE  Sound'
  <2>1. SoundController(c) /\ faults' \in Nat
    BY <1>2, EqControllerSound DEF Sound
  <2>2. SoundController([c EXCEPT !.eq = c.session])
    BY <2>1, ReadSound
  <2>3. SoundController(ctl') /\ alive' \in BOOLEAN
    BY <1>2, <2>1, <2>2 DEF Sound, Control, KeepLink
  <2>4. Control'
    BY <2>1, <2>3 DEF Control, SoundController
  <2>5. cpc' \in ReaderSteps /\ SoundSnapshot(csnap')
    BY <1>2, RefusedSound DEF Sound, Reader, ReaderSteps, SoundSnapshot, Consistent
  <2>. QED
    BY <2>4, <2>5, ExecutesSound DEF ReadEq
<1>. QED
  BY <1>1, <1>2 DEF ReadEq

LEMMA ExecuteSetEqSound ==
    ASSUME Sound, ExecuteSetEq
    PROVE  Sound'
<1>1. CASE KeepControl /\ Refused
  BY <1>1, KeepControlSound, RefusedSound, ExecutesSound DEF ExecuteSetEq, Sound
<1>2. ASSUME NEW c \in {ctl, Discovered, Cleared}, EqController(c), KeepLink,
             \/ /\ c.session # NoDevice /\ ctl' = [c EXCEPT !.eq = NoDevice]
                /\ cpc' = "second_read" /\ UNCHANGED csnap
             \/ ctl' = [c EXCEPT !.session = NoDevice, !.eq = NoDevice] /\ Refused
             \/ ctl' = c /\ Refused
      PROVE  Sound'
  <2>1. SoundController(c) /\ faults' \in Nat
    BY <1>2, EqControllerSound DEF Sound
  <2>2. /\ SoundController([c EXCEPT !.eq = NoDevice])
        /\ SoundController([c EXCEPT !.session = NoDevice, !.eq = NoDevice])
    BY <2>1 DEF SoundController, Controllers, DeviceOrNone
  <2>3. SoundController(ctl') /\ alive' \in BOOLEAN
    BY <1>2, <2>1, <2>2 DEF Sound, Control, KeepLink
  <2>4. Control'
    BY <2>1, <2>3 DEF Control, SoundController
  <2>5. cpc' \in ReaderSteps /\ SoundSnapshot(csnap')
    BY <1>2, RefusedSound DEF Sound, Reader, ReaderSteps, SoundSnapshot, Consistent
  <2>. QED
    BY <2>4, <2>5, ExecutesSound DEF ExecuteSetEq
<1>. QED
  BY <1>1, <1>2 DEF ExecuteSetEq

LEMMA ReaderStepSound ==
    ASSUME Sound, ReaderStep
    PROVE  Sound'
<1>1. CASE TakeSnapshot
  <2>1. Control'
    BY <1>1, KeepControlSound DEF Sound, TakeSnapshot
  <2>2. SoundSnapshot(csnap') /\ cpc' \in ReaderSteps
    BY <1>1, SnapSound DEF Sound, Control, TakeSnapshot, ReaderSteps
  <2>. QED
    BY <1>1, <2>1, <2>2, ExecutesSound DEF TakeSnapshot
<1>2. CASE Emit
  <2>1. Control'
    BY <1>2, KeepControlSound DEF Sound, Emit, KeepControl
  <2>2. SoundSnapshot(csnap')
    BY <1>2, ClearedSound, SnapSound DEF Emit
  <2>3. Reader'
    BY <1>2, <2>2 DEF Sound, Emit, Reader, ReaderSteps, SoundSnapshot, Consistent
  <2>4. Shown'
    BY <1>2 DEF Sound, Emit, Reader, Shown, SoundSnapshot, Consistent
  <2>5. World' /\ Runner' /\ Host'
    BY <1>2 DEF Sound, Emit, World, Runner, Host, world, runner, host, SoundSnapshot,
                Consistent
  <2>. QED
    BY <2>1, <2>3, <2>4, <2>5 DEF Sound
<1>. QED
  BY <1>1, <1>2, ExecuteRefreshSound, ExecuteAncSound, ExecuteOneShotSound, ReadEqSound,
     ExecuteSetEqSound DEF ReaderStep

LEMMA OutsideSound ==
    ASSUME Sound, Exit \/ Outside
    PROVE  Sound'
<1>1. CASE Exit
  <2>1. Control'
    BY <1>1, KeepControlSound DEF Sound, Exit, KeepControl
  <2>2. World' /\ Runner' /\ Reader'
    BY <1>1 DEF Sound, Exit, World, Runner, Reader, world, runner, reader, SoundSnapshot,
                Consistent
  <2>3. Host' /\ Shown'
    BY <1>1 DEF Sound, Exit, Host, Shown, Connections, Consistent
  <2>. QED
    BY <2>1, <2>2, <2>3 DEF Sound
<1>2. ASSUME NEW d \in Devices, DeviceArrives(d) \/ DeviceLeaves(d)
      PROVE  Sound'
  <2>1. Control'
    BY <1>2 DEF Sound, Control, DeviceArrives, DeviceLeaves, control, SoundController
  <2>2. World'
    BY <1>2 DEF Sound, World, DeviceArrives, DeviceLeaves
  <2>3. Runner' /\ Reader' /\ Host' /\ Shown'
    BY <1>2 DEF Sound, DeviceArrives, DeviceLeaves, Runner, Reader, Host, Shown, runner,
                reader, host, SoundSnapshot, Consistent
  <2>. QED
    BY <2>1, <2>2, <2>3 DEF Sound
<1>3. CASE Cancel
  <2>1. Control'
    BY <1>3, KeepControlSound DEF Sound, Cancel, KeepControl
  <2>2. World' /\ Runner' /\ Reader' /\ Host' /\ Shown'
    BY <1>3 DEF Sound, Cancel, World, Runner, Reader, Host, Shown, world, runner, reader,
                SoundSnapshot, Consistent
  <2>. QED
    BY <2>1, <2>2 DEF Sound
<1>4. ASSUME NEW c \in Commands, ReceiveLine(c)
      PROVE  Sound'
  <2>1. Control'
    BY <1>4, KeepControlSound DEF Sound, ReceiveLine, KeepControl
  <2>2. World' /\ Runner' /\ Reader' /\ Host' /\ Shown'
    BY <1>4 DEF Sound, ReceiveLine, World, Runner, Reader, ReaderSteps, Host, Shown, world,
                runner, host, SoundSnapshot, Consistent
  <2>. QED
    BY <2>1, <2>2 DEF Sound
<1>5. CASE RunnerDies
  <2>1. Control'
    BY <1>5, ClearedSound DEF Sound, Control, RunnerDies, Fault, SoundController
  <2>2. World' /\ Runner' /\ Reader' /\ Host' /\ Shown'
    BY <1>5 DEF Sound, RunnerDies, World, Runner, RunnerSteps, Reader, Host, Shown, world,
                reader, host, SoundSnapshot, Consistent
  <2>. QED
    BY <2>1, <2>2 DEF Sound
<1>. QED
  BY <1>1, <1>2, <1>3, <1>4, <1>5 DEF Outside

LEMMA StutterSound ==
    ASSUME Sound, UNCHANGED vars
    PROVE  Sound'
BY DEF Sound, vars, world, control, runner, reader, host, World, Control, Runner, Reader,
       Host, Shown, SoundController, SoundSnapshot, Consistent

------------------------------------------------------------------------------
(* The theorems.                                                           *)

\* In every behaviour of the two threads, the devices and the errors the controller
\* is one device's, and so is every snapshot that is about to be published.
THEOREM AlwaysSound == Spec => []Sound
<1>1. Init => Sound
  BY InitSound
<1>2. Sound /\ [Next]_vars => Sound'
  BY RunnerStepSound, ReaderStepSound, OutsideSound, StutterSound DEF Next
<1>. QED
  BY <1>1, <1>2, PTL DEF Spec

\* The variables keep the types that service.py, controller.py and bridge.py give them.
THEOREM TypeCorrect == Spec => []TypeOK
BY AlwaysSound, SoundMeaning, PTL

\* Session, status and cached EQ of the controller always belong to one device, and
\* it has a status exactly while it runs (controller.py).
THEOREM ControllerStaysConsistent == Spec => []ControllerConsistent
BY AlwaysSound, SoundMeaning, PTL

\* No snapshot, under way in either thread or shown, mixes two devices or offers the
\* controls of a device without a profile (bridge.py:198, service.py:133).
THEOREM SnapshotsStayConsistent == Spec => []ShownSnapshotConsistent
BY AlwaysSound, SoundMeaning, PTL

------------------------------------------------------------------------------
(* Stopping, when the service thread meets only errors it catches.         *)

Ended == {"publish_stopped", "publish_last", "done"}

\* What holds of the end of a service thread: it was cancelled, so that no command can
\* begin; only a refresh that has run leaves more than a cleared controller; and the
\* frontend is told, in this order, "stopped" and the empty snapshot.
OrderlyEnd ==
    /\ rpc \in Ended \cup {"final"} => cancelled
    /\ rpc \in Ended =>
          /\ ctl # Cleared => cmd = "refresh" /\ cpc \in {"emit", "idle"}
          /\ rsnap = Snap(Cleared)
    /\ rpc \in {"publish_last", "done"} => ui.conn = "stopped"
    /\ rpc = "done" /\ cpc # "idle" => ui.snap = Snap(Cleared)

LEMMA RunnerStepOrderly ==
    ASSUME OrderlyEnd, Sound, RunnerStep
    PROVE  OrderlyEnd'
<1>1. CASE RunnerLoops \/ RunnerPauses \/ RunnerStarts \/ RunnerPolls \/ RunnerRetries
  BY <1>1 DEF RunnerLoops, RunnerPauses, RunnerStarts, RunnerPolls, RunnerRetries,
              PublishState, OrderlyEnd, Ended, host
<1>2. CASE RunnerEnds
  <2>1. rpc = "publish_last" /\ rpc' = "done" /\ cancelled'
        /\ UNCHANGED <<ctl, cmd, cpc, rsnap>>
    BY <1>2 DEF RunnerEnds, Runs, control, reader
  <2>2. ui'.conn = ui.conn /\ ui'.snap = rsnap
    BY <1>2 DEF RunnerEnds, Sound, Shown
  <2>. QED
    BY <2>1, <2>2 DEF OrderlyEnd, Ended, Snap, Cleared
<1>3. CASE Shutdown("back_off", "publish_empty") \/ Shutdown("final", "publish_stopped")
  BY <1>3 DEF Shutdown, Runs, Snap, Cleared, OrderlyEnd, Ended, host
<1>4. CASE \/ PublishSnapshot("publish_first", "poll")
           \/ PublishSnapshot("publish_poll", "pause")
           \/ PublishSnapshot("publish_empty", "publish_disconnected")
  BY <1>4 DEF PublishSnapshot, OrderlyEnd, Ended
<1>5. CASE \/ RunnerBegins
           \/ PublishState("publish_connected", "connected", "publish_first")
           \/ PublishState("publish_disconnected", "disconnected", "retry_wait")
  BY <1>5 DEF RunnerBegins, PublishState, OrderlyEnd, Ended
<1>6. CASE PublishState("publish_stopped", "stopped", "publish_last")
  <2>1. rpc = "publish_stopped" /\ rpc' = "publish_last"
        /\ UNCHANGED <<ctl, cmd, cpc, rsnap, cancelled>>
    BY <1>6 DEF PublishState, Runs, control, reader, host
  <2>2. ui'.conn = "stopped"
    BY <1>6 DEF PublishState, Sound, Shown
  <2>. QED
    BY <2>1, <2>2 DEF OrderlyEnd, Ended, Snap, Cleared
<1>. QED
  BY <1>1, <1>2, <1>3, <1>4, <1>5, <1>6 DEF RunnerStep

\* A refresh has run, or its controller is as it was.  Of the other commands none
\* begins anything on a cleared controller.
LEMMA ReaderKeepsCleared ==
    ASSUME ReaderStep, ctl = Cleared, ctl' # Cleared
    PROVE  cmd = "refresh" /\ cpc' = "emit"
<1>1. ~ctl.running
  BY DEF Cleared
<1>2. ~ExecuteSetAnc /\ ~ExecuteSetStrength
  BY <1>1 DEF ExecuteSetAnc, ExecuteSetStrength
<1>3. ExecuteOneShot \/ TakeSnapshot \/ Emit => ctl' = ctl
  BY DEF ExecuteOneShot, TakeSnapshot, Emit, KeepControl, control
<1>4. ExecuteSetEq => ctl' = ctl
  BY <1>1 DEF ExecuteSetEq, EqController, KeepControl, control
<1>5. \A from, command : ReadEq(from, command) => ctl' = ctl
  BY <1>1 DEF ReadEq, EqController, KeepControl, control
<1>6. ExecuteRefresh
  BY <1>2, <1>3, <1>4, <1>5 DEF ReaderStep
<1>7. ctl' = Discovered
  BY <1>6 DEF ExecuteRefresh, Reconnect
<1>8. ctl'.running
  BY <1>7 DEF Discovered, Cleared
<1>. QED
  BY <1>6, <1>8 DEF ExecuteRefresh, Executes, Raised

LEMMA ReaderStepOrderly ==
    ASSUME OrderlyEnd, Sound, ReaderStep
    PROVE  OrderlyEnd'
<1>1. UNCHANGED <<cmd, rpc, cancelled, rsnap>> /\ cpc # "idle"
  BY DEF ReaderStep, ExecuteRefresh, ExecuteSetAnc, ExecuteSetStrength, ExecuteOneShot, ReadEq,
         ExecuteSetEq, TakeSnapshot, Emit, Executes, runner, host
<1>2. CASE Emit
  <2>1. ui'.conn = ui.conn /\ cpc' = "idle" /\ UNCHANGED ctl
    BY <1>2 DEF Emit, Sound, Shown, control
  <2>. QED
    BY <1>1, <2>1 DEF OrderlyEnd, Snap, Cleared
<1>3. CASE ~Emit
  <2>1. UNCHANGED ui /\ cpc # "emit"
    BY <1>3 DEF ReaderStep, ExecuteRefresh, ExecuteSetAnc, ExecuteSetStrength,
           ExecuteOneShot, ReadEq, ExecuteSetEq, TakeSnapshot, Executes
  <2>2. rpc \in Ended => ctl = Cleared
    BY <1>1, <2>1 DEF OrderlyEnd
  <2>3. rpc \in Ended /\ ctl' # Cleared => cmd = "refresh" /\ cpc' = "emit"
    BY <2>2, ReaderKeepsCleared
  <2>. QED
    BY <1>1, <2>1, <2>3 DEF OrderlyEnd, Snap, Cleared
<1>. QED
  BY <1>2, <1>3

LEMMA OutsideOrderly ==
    ASSUME OrderlyEnd, Sound, ~OtherErrors, Exit \/ Outside
    PROVE  OrderlyEnd'
<1>1. ~RunnerDies
  BY DEF RunnerDies
<1>2. CASE Exit
  <2>1. ui'.conn = "stopped" /\ ui'.snap = ui.snap
    BY <1>2 DEF Exit, Sound, Shown
  <2>2. UNCHANGED <<ctl, rpc, rsnap, cpc, cmd, cancelled>>
    BY <1>2 DEF Exit, control, runner, reader
  <2>. QED
    BY <2>1, <2>2 DEF OrderlyEnd, Snap, Cleared
<1>3. ASSUME NEW c \in Commands, ReceiveLine(c)
      PROVE  OrderlyEnd'
  <2>1. ~cancelled /\ UNCHANGED <<rpc, cancelled, ui>>
    BY <1>3 DEF ReceiveLine, runner, host
  <2>. QED
    BY <2>1 DEF OrderlyEnd, Ended
<1>4. CASE Cancel \/ \E d \in Devices : DeviceArrives(d) \/ DeviceLeaves(d)
  <2>1. UNCHANGED <<ctl, rpc, rsnap, cpc, cmd, ui>> /\ (cancelled => cancelled')
    BY <1>4 DEF Cancel, DeviceArrives, DeviceLeaves, control, runner, reader, host
  <2>. QED
    BY <2>1 DEF OrderlyEnd, Snap, Cleared
<1>. QED
  BY <1>1, <1>2, <1>3, <1>4 DEF Outside

LEMMA EndsOrderly ==
    ASSUME ~OtherErrors
    PROVE  Spec => []OrderlyEnd
<1>1. Init => OrderlyEnd
  BY DEF Init, OrderlyEnd, Ended
<1>2. OrderlyEnd /\ Sound /\ [Next]_vars => OrderlyEnd'
  <2>1. ASSUME OrderlyEnd, UNCHANGED vars PROVE OrderlyEnd'
    BY <2>1 DEF OrderlyEnd, vars, control, runner, reader, host, Snap, Cleared
  <2>. QED
    BY <2>1, RunnerStepOrderly, ReaderStepOrderly, OutsideOrderly DEF Next
<1>. QED
  BY <1>1, <1>2, AlwaysSound, PTL DEF Spec

\* Unless an error other than OSError and RuntimeError occurs, the service thread ends
\* only after it was cancelled (service.py:56).
THEOREM RunsUntilTold ==
    ASSUME ~OtherErrors
    PROVE  Spec => []RunsUntilCancelled
<1>1. OrderlyEnd => RunsUntilCancelled
  BY DEF OrderlyEnd, RunsUntilCancelled, Ended
<1>. QED
  BY <1>1, EndsOrderly, PTL

\* And after its final shutdown the controller stays cleared, unless a refresh that was
\* under way brings it back: set_anc writes one-shot, the EQ commands refuse
\* (controller.py:308).  The frontend keeps showing "stopped", and after the last
\* snapshot, which is empty, it gets at most the one of a command still under way.
THEOREM StaysStopped ==
    ASSUME ~OtherErrors
    PROVE  Spec => []StoppedStaysStopped
<1>1. OrderlyEnd => StoppedStaysStopped
  BY DEF OrderlyEnd, StoppedStaysStopped, Ended
<1>. QED
  BY <1>1, EndsOrderly, PTL

==============================================================================
