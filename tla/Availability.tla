---------------------------- MODULE Availability -----------------------------
(***************************************************************************)
(* BlueZ availability hints and the retries they shorten.  The watcher     *)
(* keeps a cache of BlueZ's Device1 properties from the signals it gets in *)
(* order and late, and counts a generation when a device becomes eligible. *)
(* The service thread takes the generation as a token before each attempt; *)
(* its wait after a failure ends at the timer, or as soon as the           *)
(* generation differs from the token.  Discovery itself reads BlueZ        *)
(* afresh.                                                                 *)
(*                                                                         *)
(* A property is one of three facts about a device: it has a name of a     *)
(* known brand, it is connected, and its OPO service UUIDs are resolved.   *)
(* Cancellation is left to BudsService.  A call to BlueZ while it is down  *)
(* waits until D-Bus has activated it again.                               *)
(***************************************************************************)
EXTENDS Naturals, Sequences, FiniteSets

CONSTANTS
    Devices,
    OnePlus,         \* devices with "oneplus" in their name; the others are OPPO's
    InitialDelay,    \* 1 second in the code
    MaximumDelay,    \* 30 seconds in the code
    MaxChanges,      \* bound: changes in BlueZ
    MaxAttempts      \* bound: failed attempts in a row

ASSUME AvailabilityAssumption ==
    /\ OnePlus \subseteq Devices
    /\ InitialDelay \in Nat \ {0}
    /\ MaximumDelay \in Nat
    /\ InitialDelay <= MaximumDelay
    /\ MaxChanges \in Nat
    /\ MaxAttempts \in Nat

VARIABLES
    bluez,           \* facts about each device in BlueZ: {} if there is no object
    daemon,          \* whether bluetoothd runs
    changes,         \* changes in BlueZ so far
    signals,         \* D-Bus signals on their way to the watcher, in order
    watcher,         \* "off", "subscribed", "running", or "closed" when it cannot start
    cache,           \* BlueZAvailability._properties: facts known about each device
    generation,      \* Availability._generation
    rpc,             \* where the service thread is
    connected,       \* run's local variable
    token,           \* BudsServiceRunner._attempt_token
    attempt,         \* failed attempts in a row
    delay,           \* retry_delay
    arrivals,        \* history: devices that became compatible since token was taken
    earlyWakes       \* history: waits that ended on a hint

surroundings == <<bluez, daemon, changes>>
watching == <<watcher, cache, generation>>
backoff == <<attempt, delay, earlyWakes>>
runner == <<rpc, connected, token, backoff>>
vars == <<surroundings, signals, watching, runner, arrivals>>

Facts == {"named", "connected", "resolved"}
Signals == [kind : {"changed", "added"}, device : Devices, on : SUBSET Facts,
            off : SUBSET Facts]
           \cup [kind : {"removed"}, device : Devices]
           \cup [kind : {"owner"}, new : BOOLEAN]

TypeOK ==
    /\ bluez \in [Devices -> SUBSET Facts]
    /\ daemon \in BOOLEAN
    /\ changes \in Nat
    /\ signals \in Seq(Signals)
    /\ watcher \in {"off", "subscribed", "running", "closed"}
    /\ cache \in [Devices -> SUBSET Facts]
    /\ generation \in Nat
    /\ rpc \in {"loop", "discover", "connect", "poll", "pause", "wait"}
    /\ connected \in BOOLEAN
    /\ token \in Nat
    /\ attempt \in Nat
    /\ delay \in InitialDelay..MaximumDelay
    /\ arrivals \subseteq Devices
    /\ earlyWakes \in Nat

NoDevices == [d \in Devices |-> {}]

Init ==
    /\ bluez \in [Devices -> {{}, {"named"}, Facts}]
    /\ daemon = TRUE
    /\ changes = 0
    /\ signals = <<>>
    /\ watcher = "off"
    /\ cache = NoDevices
    /\ generation = 0
    /\ rpc = "loop"
    /\ connected = FALSE
    /\ token = 0
    /\ attempt = 0
    /\ delay = InitialDelay
    /\ arrivals = {}
    /\ earlyWakes = 0

------------------------------------------------------------------------------
(* BlueZ.                                                                  *)

\* Device.looks_compatible of a connected device; both brands are.
Compatible == {d \in Devices : bluez[d] = Facts}

\* BlueZ changes and, if the watcher has subscribed, says so.
Change(signal) ==
    /\ changes < MaxChanges
    /\ changes' = changes + 1
    /\ signals' = IF watcher \in {"subscribed", "running"}
                  THEN Append(signals, signal) ELSE signals
    /\ arrivals' = arrivals \cup (Compatible' \ Compatible)
    /\ UNCHANGED <<watching, runner>>

\* InterfacesAdded carries every property with its value, so that a fact that does not
\* hold is carried, too: Connected false, no UUIDs, an Alias without the name.
ObjectAdded(d, facts) ==
    /\ daemon
    /\ bluez[d] = {}
    /\ bluez' = [bluez EXCEPT ![d] = facts]
    /\ Change([kind |-> "added", device |-> d, on |-> facts, off |-> Facts \ facts])
    /\ UNCHANGED daemon

\* PropertiesChanged carries only what changed.
PropertiesChanged(d, on, off) ==
    /\ daemon
    /\ bluez[d] # {}
    /\ on \cap bluez[d] = {}
    /\ off \subseteq bluez[d] \ {"named"}
    /\ on \cup off # {}
    /\ bluez' = [bluez EXCEPT ![d] = (@ \ off) \cup on]
    /\ Change([kind |-> "changed", device |-> d, on |-> on, off |-> off])
    /\ UNCHANGED daemon

ObjectRemoved(d) ==
    /\ daemon
    /\ bluez[d] # {}
    /\ bluez' = [bluez EXCEPT ![d] = {}]
    /\ Change([kind |-> "removed", device |-> d])
    /\ UNCHANGED daemon

\* A crash takes the objects along without a word about each.
DaemonStops ==
    /\ daemon
    /\ daemon' = FALSE
    /\ bluez' = NoDevices
    /\ Change([kind |-> "owner", new |-> FALSE])

DaemonStarts ==
    /\ ~daemon
    /\ daemon' = TRUE
    /\ UNCHANGED bluez
    /\ Change([kind |-> "owner", new |-> TRUE])

------------------------------------------------------------------------------
(* The watcher.                                                            *)

Subscribe ==
    /\ watcher = "off"
    /\ watcher' = "subscribed"
    /\ UNCHANGED <<surroundings, signals, cache, generation, runner, arrivals>>

\* GetManagedObjects; the signals that came in meanwhile are handled later, by
\* the thread started now.
FillCache ==
    /\ watcher = "subscribed"
    /\ daemon
    /\ cache' = bluez
    /\ watcher' = "running"
    /\ UNCHANGED <<surroundings, signals, generation, runner, arrivals>>

\* Bindings or bus are missing: close() leaves the timer alone.
WatcherUnavailable ==
    /\ watcher \in {"off", "subscribed"}
    /\ watcher' = "closed"
    /\ signals' = <<>>
    /\ cache' = NoDevices
    /\ UNCHANGED <<surroundings, generation, runner, arrivals>>

\* _eligible: narrower than discovery, it asks for "oneplus" in the name.
Eligible(d, facts) == facts = Facts /\ d \in OnePlus

Handle(kind) ==
    /\ watcher = "running"
    /\ signals # <<>>
    /\ Head(signals).kind \in kind
    /\ signals' = Tail(signals)
    /\ UNCHANGED <<surroundings, watcher, runner, arrivals>>

\* Fault: only a change of Connected is looked at.
HandleConnectedOnly ==
    LET signal == Head(signals)
        old == cache[signal.device]
        new == (old \ signal.off) \cup signal.on
    IN
    /\ Handle({"changed", "added"})
    /\ cache' = [cache EXCEPT ![signal.device] = new]
    /\ generation' = IF Eligible(signal.device, new) /\ "connected" \in signal.on
                     THEN generation + 1 ELSE generation

\* changed(), also called by added(): the hint is the step from not eligible to
\* eligible.
HandleChanged ==
    LET signal == Head(signals)
        old == cache[signal.device]
        new == (old \ signal.off) \cup signal.on
    IN
    /\ Handle({"changed", "added"})
    /\ cache' = [cache EXCEPT ![signal.device] = new]
    /\ generation' = IF Eligible(signal.device, new) /\ ~Eligible(signal.device, old)
                     THEN generation + 1 ELSE generation

HandleRemoved ==
    /\ Handle({"removed"})
    /\ cache' = [cache EXCEPT ![Head(signals).device] = {}]
    /\ UNCHANGED generation

\* Fault: the properties of before the restart stay.
HandleOwnerKeepingCache ==
    /\ Handle({"owner"})
    /\ UNCHANGED cache
    /\ generation' = IF Head(signals).new THEN generation + 1 ELSE generation

HandleOwner ==
    /\ Handle({"owner"})
    /\ cache' = NoDevices
    /\ generation' = IF Head(signals).new THEN generation + 1 ELSE generation

------------------------------------------------------------------------------
(* The service thread.  The host starts it when the watcher has started.   *)

Runs(from) == rpc = from /\ watcher \in {"running", "closed"}

\* Fault: the token is taken once and for all.
KeepToken ==
    /\ Runs("loop")
    /\ rpc' = IF connected THEN "poll" ELSE "discover"
    /\ arrivals' = {}
    /\ UNCHANGED <<surroundings, signals, watching, connected, token, backoff>>

\* The top of run's loop.
TakeToken ==
    /\ Runs("loop")
    /\ token' = generation
    /\ arrivals' = {}
    /\ rpc' = IF connected THEN "poll" ELSE "discover"
    /\ UNCHANGED <<surroundings, signals, watching, connected, backoff>>

\* _back_off up to its wait.
BackOff ==
    /\ attempt < MaxAttempts
    /\ attempt' = attempt + 1
    /\ connected' = FALSE
    /\ rpc' = "wait"
    /\ UNCHANGED <<surroundings, signals, watching, arrivals, token, delay, earlyWakes>>

\* select_device: exactly one compatible device, of either brand.
Discover ==
    /\ Runs("discover")
    /\ daemon
    /\ IF Cardinality(Compatible) = 1
       THEN /\ rpc' = "connect"
            /\ UNCHANGED <<surroundings, signals, watching, connected, token, backoff,
                           arrivals>>
       ELSE BackOff

ConnectFails == Runs("connect") /\ BackOff

\* Fault: the delay is not reset.
ConnectSucceedsKeepingDelay ==
    /\ Runs("connect")
    /\ connected' = TRUE
    /\ attempt' = 0
    /\ rpc' = "poll"
    /\ UNCHANGED <<surroundings, signals, watching, token, delay, earlyWakes, arrivals>>

\* The session is up: attempt and delay start over.
ConnectSucceeds ==
    /\ Runs("connect")
    /\ connected' = TRUE
    /\ attempt' = 0
    /\ delay' = InitialDelay
    /\ rpc' = "poll"
    /\ UNCHANGED <<surroundings, signals, watching, token, earlyWakes, arrivals>>

PollSucceeds ==
    /\ Runs("poll")
    /\ rpc' = "pause"
    /\ UNCHANGED <<surroundings, signals, watching, connected, token, backoff, arrivals>>

\* The poll raised, its immediate reconnect included.
PollFails == Runs("poll") /\ BackOff

Pause ==
    /\ Runs("pause")
    /\ rpc' = "loop"
    /\ UNCHANGED <<surroundings, signals, watching, connected, token, backoff, arrivals>>

Smaller(a, b) == IF a < b THEN a ELSE b

\* Fault: no ceiling.
WaitEndsUncapped ==
    /\ Runs("wait")
    /\ delay' = 2 * delay
    /\ earlyWakes' = IF generation # token THEN earlyWakes + 1 ELSE earlyWakes
    /\ rpc' = "loop"
    /\ UNCHANGED <<surroundings, signals, watching, connected, token, attempt, arrivals>>

\* The wait returns at the timer, or at once when the generation is another; the
\* delay doubles either way.
WaitEnds ==
    /\ Runs("wait")
    /\ delay' = Smaller(2 * delay, MaximumDelay)
    /\ earlyWakes' = IF generation # token THEN earlyWakes + 1 ELSE earlyWakes
    /\ rpc' = "loop"
    /\ UNCHANGED <<surroundings, signals, watching, connected, token, attempt, arrivals>>

------------------------------------------------------------------------------

BlueZ ==
    \/ \E d \in Devices, facts \in {{"named"}, {"named", "connected"}, Facts} :
          ObjectAdded(d, facts)
    \/ \E d \in Devices, on, off \in SUBSET {"connected", "resolved"} :
          PropertiesChanged(d, on, off)
    \/ \E d \in Devices : ObjectRemoved(d)
    \/ DaemonStops
    \/ DaemonStarts

Watcher ==
    \/ Subscribe
    \/ FillCache
    \/ WatcherUnavailable
    \/ HandleChanged
    \/ HandleRemoved
    \/ HandleOwner

Runner ==
    \/ TakeToken
    \/ Discover
    \/ ConnectFails
    \/ ConnectSucceeds
    \/ PollSucceeds
    \/ PollFails
    \/ Pause
    \/ WaitEnds

Next == BlueZ \/ Watcher \/ Runner

Spec == Init /\ [][Next]_vars

------------------------------------------------------------------------------
(* Properties.                                                             *)

\* A service thread that is asleep without a hint to wake it.
Asleep == rpc = "wait" /\ watcher = "running" /\ signals = <<>> /\ generation = token

\* No OnePlus device becomes available unnoticed between the moment an attempt
\* starts and the wait after it, whatever the delay of the signals, the order in
\* which the properties come, and restarts of bluetoothd.
NoArrivalSleptThrough == Asleep => arrivals \cap OnePlus = {}

\* The same of every compatible device (docs/backend-api.md:81: the watcher
\* "interrupts a pending wait when a compatible Device1 becomes connected").
NoCompatibleArrivalSleptThrough == Asleep => arrivals = {}

\* When the signals have all been handled the cache is what BlueZ says, although it
\* was filled by a call that overtook signals and is cleared at every restart.
CacheCoherent == watcher = "running" /\ signals = <<>> => cache = bluez

\* A hint shortens one wait and no more (availability.py:11, "avoid lost signals and
\* repeated early retries").
HintsAreUsedOnce == earlyWakes <= generation

Doubled[n \in Nat] == IF n = 0 THEN InitialDelay ELSE 2 * Doubled[n - 1]

\* The first wait after a failure lasts InitialDelay and each other one in a row twice
\* as long as the one before, up to the ceiling; a connection starts the count again
\* (docs/backend-api.md:81).
DelayFollowsAttempts ==
    rpc = "wait" => delay = Smaller(Doubled[attempt - 1], MaximumDelay)

==============================================================================
