-------------------------- MODULE AvailabilityProofs --------------------------
(***************************************************************************)
(* Availability for any number of devices, changes and attempts: the cache *)
(* of the watcher, the hints that a wait cannot miss, and that no hint is  *)
(* used twice.                                                             *)
(*                                                                         *)
(* The watcher is late by the signals under way.  The proofs therefore     *)
(* speak of what it will know of a device after the next i of them, which  *)
(* is said fact by fact: the last of them to mention a fact decides.       *)
(***************************************************************************)
EXTENDS Availability, SequenceTheorems, TLAPS

Link == INSTANCE OpoWireProofs WITH LastSequence <- 1

Mentions(signal, d, f) ==
    \/ signal.kind = "owner"
    \/ /\ signal.kind = "removed"
       /\ signal.device = d
    \/ /\ signal.kind \in {"changed", "added"}
       /\ signal.device = d
       /\ f \in signal.on \cup signal.off

TurnsOn(signal, d, f) ==
    signal.kind \in {"changed", "added"} /\ signal.device = d /\ f \in signal.on

\* What is known of a device after a signal, and after the first i of several.
Applied(signal, d, facts) ==
    {f \in Facts : TurnsOn(signal, d, f) \/ (f \in facts /\ ~Mentions(signal, d, f))}

Known(sigs, facts, i, d) ==
    {f \in Facts :
        \/ \E j \in 1..i : /\ TurnsOn(sigs[j], d, f)
                           /\ \A k \in (j + 1)..i : ~Mentions(sigs[k], d, f)
        \/ /\ f \in facts
           /\ \A k \in 1..i : ~Mentions(sigs[k], d, f)}

\* A hint for the device is among the signals.
Hinted(d) ==
    \E i \in 1..Len(signals) :
        /\ Known(signals, cache[d], i - 1, d) # Facts
        /\ Known(signals, cache[d], i, d) = Facts

------------------------------------------------------------------------------
(* The inductive invariant.                                                *)

Order ==
    /\ watcher = "off" => signals = <<>>
    /\ rpc # "loop" => watcher \in {"running", "closed"}
    /\ ~daemon => bluez = NoDevices

\* Hints that ended a wait, the token, and the generation.
Counted ==
    /\ token <= generation
    /\ earlyWakes <= generation
    /\ rpc # "loop" => earlyWakes <= token

\* The wait of a failure has its delay still to double, the end of one has doubled it.
Doubles ==
    /\ rpc = "wait" => attempt # 0 /\ delay = Smaller(Doubled[attempt - 1], MaximumDelay)
    /\ rpc # "wait" => delay = Smaller(Doubled[attempt], MaximumDelay)

\* The signals lead to what BlueZ says: from the cache and, before it is filled, from
\* BlueZ itself, by which it will be filled.
Follows ==
    \A d \in Devices :
        /\ watcher = "subscribed" => Known(signals, bluez[d], Len(signals), d) = bluez[d]
        /\ watcher = "running" => Known(signals, cache[d], Len(signals), d) = bluez[d]

Noticed ==
    watcher = "running" /\ rpc # "loop" =>
        \A d \in arrivals \cap OnePlus : generation # token \/ Hinted(d)

Informed == TypeOK /\ Order /\ Counted /\ Follows /\ Noticed

------------------------------------------------------------------------------
(* Types.                                                                  *)

LEMMA InitTyped == Init => TypeOK
<1>. SUFFICES ASSUME Init PROVE TypeOK
  OBVIOUS
<1>1. \A d \in Devices : bluez[d] \in SUBSET Facts
  BY DEF Init, Facts
<1>2. bluez \in [Devices -> SUBSET Facts]
  BY <1>1 DEF Init
<1>3. signals \in Seq(Signals) /\ delay \in InitialDelay..MaximumDelay
  BY AvailabilityAssumption DEF Init
<1>. QED
  BY <1>2, <1>3 DEF Init, TypeOK, NoDevices

\* A change in BlueZ, of which only the signal and the objects have to be known.
LEMMA ChangeTyped ==
    ASSUME TypeOK, NEW s \in Signals, Change(s), daemon' \in BOOLEAN,
           bluez' \in [Devices -> SUBSET Facts]
    PROVE  TypeOK'
<1>1. signals' \in Seq(Signals)
  BY AppendProperties DEF TypeOK, Change
<1>2. changes' \in Nat /\ arrivals' \subseteq Devices
  BY DEF TypeOK, Change, Compatible
<1>. QED
  BY <1>1, <1>2 DEF TypeOK, Change, watching, runner, backoff

LEMMA BlueZTyped == TypeOK /\ BlueZ => TypeOK'
<1>. SUFFICES ASSUME TypeOK, BlueZ PROVE TypeOK'
  OBVIOUS
<1>1. ASSUME NEW d \in Devices, NEW facts \in {{"named"}, {"named", "connected"}, Facts},
             ObjectAdded(d, facts)
      PROVE  TypeOK'
  <2>1. facts \in SUBSET Facts
    BY DEF Facts
  <2>2. [kind |-> "added", device |-> d, on |-> facts, off |-> Facts \ facts] \in Signals
    BY <2>1 DEF Signals
  <2>. QED
    BY <1>1, <2>1, <2>2, ChangeTyped DEF ObjectAdded, TypeOK
<1>2. ASSUME NEW d \in Devices, NEW on \in SUBSET {"connected", "resolved"},
             NEW off \in SUBSET {"connected", "resolved"}, PropertiesChanged(d, on, off)
      PROVE  TypeOK'
  <2>1. on \in SUBSET Facts /\ off \in SUBSET Facts
    BY DEF Facts
  <2>2. [kind |-> "changed", device |-> d, on |-> on, off |-> off] \in Signals
    BY <2>1 DEF Signals
  <2>. QED
    BY <1>2, <2>1, <2>2, ChangeTyped DEF PropertiesChanged, TypeOK
<1>3. ASSUME NEW d \in Devices, ObjectRemoved(d) PROVE TypeOK'
  <2>1. [kind |-> "removed", device |-> d] \in Signals
    BY DEF Signals
  <2>. QED
    BY <1>3, <2>1, ChangeTyped DEF ObjectRemoved, TypeOK
<1>4. CASE DaemonStops
  <2>1. [kind |-> "owner", new |-> FALSE] \in Signals
    BY DEF Signals
  <2>. QED
    BY <1>4, <2>1, ChangeTyped DEF DaemonStops, NoDevices
<1>5. CASE DaemonStarts
  <2>1. [kind |-> "owner", new |-> TRUE] \in Signals
    BY DEF Signals
  <2>. QED
    BY <1>5, <2>1, ChangeTyped DEF DaemonStarts, TypeOK
<1>. QED
  BY <1>1, <1>2, <1>3, <1>4, <1>5 DEF BlueZ

\* The signal handled next, and those after it.
LEMMA HeadTyped ==
    ASSUME TypeOK, signals # <<>>
    PROVE  Head(signals) \in Signals /\ Tail(signals) \in Seq(Signals)
BY HeadTailProperties DEF TypeOK

LEMMA WatcherTyped == TypeOK /\ Watcher => TypeOK'
<1>. SUFFICES ASSUME TypeOK, Watcher PROVE TypeOK'
  OBVIOUS
<1>. USE DEF TypeOK, surroundings, runner, backoff, watching
<1>1. CASE Subscribe BY <1>1 DEF Subscribe
<1>2. CASE FillCache BY <1>2 DEF FillCache
<1>3. CASE WatcherUnavailable BY <1>3 DEF WatcherUnavailable, NoDevices
<1>4. CASE HandleChanged
  <2>. DEFINE s == Head(signals)
  <2>1. s \in [kind : {"changed", "added"}, device : Devices, on : SUBSET Facts,
               off : SUBSET Facts] /\ signals' \in Seq(Signals)
    BY <1>4, HeadTyped DEF HandleChanged, Handle, Signals
  <2>2. cache' \in [Devices -> SUBSET Facts]
    BY <1>4, <2>1 DEF HandleChanged
  <2>3. generation' \in Nat
    BY <1>4 DEF HandleChanged
  <2>. QED
    BY <1>4, <2>1, <2>2, <2>3 DEF HandleChanged, Handle
<1>5. CASE HandleRemoved
  <2>1. signals' \in Seq(Signals)
    BY <1>5, HeadTyped DEF HandleRemoved, Handle
  <2>2. cache' \in [Devices -> SUBSET Facts]
    BY <1>5 DEF HandleRemoved
  <2>. QED
    BY <1>5, <2>1, <2>2 DEF HandleRemoved, Handle
<1>6. CASE HandleOwner
  <2>1. signals' \in Seq(Signals)
    BY <1>6, HeadTyped DEF HandleOwner, Handle
  <2>. QED
    BY <1>6, <2>1 DEF HandleOwner, Handle, NoDevices
<1>. QED
  BY <1>1, <1>2, <1>3, <1>4, <1>5, <1>6 DEF Watcher

LEMMA BackOffTyped ==
    ASSUME TypeOK, BackOff
    PROVE  TypeOK'
<1>1. attempt' \in Nat /\ rpc' = "wait"
  BY DEF TypeOK, BackOff
<1>2. connected' \in BOOLEAN /\ daemon' \in BOOLEAN
  BY Zenon DEF TypeOK, BackOff, surroundings
<1>. QED
  BY <1>1, <1>2 DEF TypeOK, BackOff, surroundings, watching

LEMMA RunnerTyped == TypeOK /\ Runner => TypeOK'
<1>. SUFFICES ASSUME TypeOK, Runner PROVE TypeOK'
  OBVIOUS
<1>. USE AvailabilityAssumption
     DEF TypeOK, surroundings, backoff, watching, Runs, Smaller
<1>1. CASE TakeToken BY <1>1 DEF TakeToken
<1>2. CASE Discover BY <1>2, BackOffTyped DEF Discover
<1>3. CASE ConnectFails BY <1>3, BackOffTyped DEF ConnectFails
<1>4. CASE ConnectSucceeds BY <1>4 DEF ConnectSucceeds
<1>5. CASE PollSucceeds \/ Pause BY <1>5 DEF PollSucceeds, Pause
<1>6. CASE PollFails BY <1>6, BackOffTyped DEF PollFails
<1>7. CASE WaitEnds BY <1>7 DEF WaitEnds
<1>. QED
  BY <1>1, <1>2, <1>3, <1>4, <1>5, <1>6, <1>7 DEF Runner

LEMMA StutterTyped == TypeOK /\ UNCHANGED vars => TypeOK'
BY DEF TypeOK, vars, surroundings, watching, runner, backoff

\* Every variable keeps its type; the delay stays between its bounds.
THEOREM TypeCorrect == Spec => []TypeOK
<1>1. TypeOK /\ [Next]_vars => TypeOK'
  BY BlueZTyped, WatcherTyped, RunnerTyped, StutterTyped DEF Next
<1>. QED
  BY <1>1, InitTyped, PTL DEF Spec

------------------------------------------------------------------------------
(* Hints and tokens.                                                       *)

LEMMA InitCounted == Init => Counted
BY DEF Init, Counted

LEMMA BlueZCounted == TypeOK /\ Counted /\ BlueZ => Counted'
BY DEF Counted, BlueZ, ObjectAdded, PropertiesChanged, ObjectRemoved, DaemonStops,
   DaemonStarts, Change, watching, runner, backoff

\* Signals are handled while the runner is anywhere; the generation only grows.
LEMMA WatcherCounted == TypeOK /\ Counted /\ Watcher => Counted'
<1>. SUFFICES ASSUME TypeOK, Counted, Watcher PROVE Counted'
  OBVIOUS
<1>1. UNCHANGED <<rpc, token, earlyWakes>>
  BY DEF Watcher, Subscribe, FillCache, WatcherUnavailable, HandleChanged, HandleRemoved,
     HandleOwner, Handle, runner, backoff
<1>2. generation' \in {generation, generation + 1}
  BY DEF Watcher, Subscribe, FillCache, WatcherUnavailable, HandleChanged, HandleRemoved,
     HandleOwner
<1>. QED
  BY <1>1, <1>2 DEF TypeOK, Counted

LEMMA RunnerCounted == TypeOK /\ Counted /\ Runner => Counted'
<1>. SUFFICES ASSUME TypeOK, Counted, Runner PROVE Counted'
  OBVIOUS
<1>. USE DEF TypeOK, Counted, backoff, watching, Runs, BackOff
<1>1. CASE TakeToken BY <1>1 DEF TakeToken
<1>2. CASE Discover BY <1>2 DEF Discover
<1>3. CASE ConnectFails \/ PollFails BY <1>3 DEF ConnectFails, PollFails
<1>4. CASE ConnectSucceeds BY <1>4 DEF ConnectSucceeds
<1>5. CASE PollSucceeds \/ Pause BY <1>5 DEF PollSucceeds, Pause
<1>6. CASE WaitEnds BY <1>6 DEF WaitEnds
<1>. QED
  BY <1>1, <1>2, <1>3, <1>4, <1>5, <1>6 DEF Runner

LEMMA NextCounted == TypeOK /\ Counted /\ [Next]_vars => Counted'
<1>1. Counted /\ UNCHANGED vars => Counted'
  BY DEF Counted, vars, watching, runner, backoff
<1>. QED
  BY <1>1, BlueZCounted, WatcherCounted, RunnerCounted DEF Next

\* A hint shortens one wait and no more: a wait can only end early on a generation
\* that is newer than its token, and the next token catches up with it.
THEOREM HintsStayUsedOnce == Spec => []HintsAreUsedOnce
<1>1. Counted => HintsAreUsedOnce
  BY DEF Counted, HintsAreUsedOnce
<1>. QED
  BY <1>1, NextCounted, InitCounted, TypeCorrect, PTL DEF Spec

------------------------------------------------------------------------------
(* Delays.                                                                 *)

\* What the definition of Doubled says of it: the recursion has a solution.
LEMMA DoubledDoubles ==
    /\ Doubled[0] = InitialDelay
    /\ \A n \in Nat : Doubled[n + 1] = 2 * Doubled[n]
    /\ \A n \in Nat : Doubled[n] \in Nat /\ Doubled[n] >= InitialDelay
<1>. DEFINE Twice(f) == [n \in Nat |-> IF n = 0 THEN InitialDelay ELSE 2 * f[n - 1]]
            size == [n \in Nat |-> n]
            body == [f \in [Nat -> Nat] |-> Twice(f)]
<1>1. \E f \in [Nat -> Nat] : f = Twice(f)
  <2>1. body \in [[Nat -> Nat] -> [Nat -> Nat]]
    BY AvailabilityAssumption
  <2>2. \A f, g \in [Nat -> Nat], n \in Nat :
          (\A m \in Nat : size[m] < size[n] => f[m] = g[m]) => body[f][n] = body[g][n]
    <3>. SUFFICES ASSUME NEW f \in [Nat -> Nat], NEW g \in [Nat -> Nat], NEW n \in Nat,
                         \A m \in Nat : size[m] < size[n] => f[m] = g[m]
                  PROVE  body[f][n] = body[g][n]
      OBVIOUS
    <3>1. n # 0 => f[n - 1] = g[n - 1]
      OBVIOUS
    <3>. QED
      BY <3>1
  <2>3. size \in [Nat -> Nat] /\ Nat # {} /\ 1 \in Nat \ {0}
    OBVIOUS
  <2>4. \A f \in [Nat -> Nat] : body[f] = Twice(f)
    OBVIOUS
  <2>. HIDE DEF size, body, Twice
  <2>5. \E f \in [Nat -> Nat] : f = body[f]
    <3>. DEFINE D == Nat
                V == Nat
    <3>1. Link!AsksForSmaller(D, V, size, body)
      BY <2>1, <2>2, <2>3 DEF Link!AsksForSmaller
    <3>2. 1 \in Nat \ {0}
      OBVIOUS
    <3>. HIDE DEF D, V
    <3>3. \E f \in [D -> V] : f = body[f]
      BY <3>1, <3>2, Link!Recursion
    <3>. QED
      BY <3>3 DEF D, V
  <2>. QED
    BY <2>4, <2>5
<1>2. Doubled = [n \in Nat |-> IF n = 0 THEN InitialDelay ELSE 2 * Doubled[n - 1]]
  BY <1>1, Zenon DEF Doubled
<1>3. Doubled[0] = InitialDelay /\ \A n \in Nat : Doubled[n + 1] = 2 * Doubled[n]
  BY <1>2
<1>4. \A n \in Nat : Doubled[n] \in Nat /\ Doubled[n] >= InitialDelay
  <2>. DEFINE Large == {n \in Nat : Doubled[n] \in Nat /\ Doubled[n] >= InitialDelay}
  <2>1. 0 \in Large /\ \A n \in Nat : n \in Large => n + 1 \in Large
    BY <1>3, AvailabilityAssumption
  <2>2. Nat \subseteq Large
    <3>. HIDE DEF Large
    <3>. QED
      BY <2>1, Link!Induction, 1 \in Nat \ {0}
  <2>. QED
    BY <2>2
<1>. QED
  BY <1>3, <1>4

LEMMA InitDoubles == Init => Doubles
BY DoubledDoubles, AvailabilityAssumption DEF Init, Doubles, Smaller

LEMMA OthersDouble == TypeOK /\ Doubles /\ (BlueZ \/ Watcher \/ UNCHANGED vars) => Doubles'
<1>. SUFFICES ASSUME Doubles, BlueZ \/ Watcher \/ UNCHANGED vars PROVE Doubles'
  OBVIOUS
<1>1. UNCHANGED <<rpc, attempt, delay>>
  BY DEF BlueZ, ObjectAdded, PropertiesChanged, ObjectRemoved, DaemonStops, DaemonStarts,
     Change, Watcher, Subscribe, FillCache, WatcherUnavailable, HandleChanged, HandleRemoved,
     HandleOwner, Handle, vars, watching, runner, backoff
<1>. QED
  BY <1>1 DEF Doubles

\* Twice the smaller of a delay and the ceiling is cut to the same as twice the delay.
LEMMA RunnerDoubles == TypeOK /\ Doubles /\ Runner => Doubles'
<1>. SUFFICES ASSUME TypeOK, Doubles, Runner PROVE Doubles'
  OBVIOUS
<1>. USE DEF TypeOK, Doubles, backoff, watching, Runs
<1>1. CASE TakeToken \/ PollSucceeds \/ Pause
  BY <1>1 DEF TakeToken, PollSucceeds, Pause
<1>2. ASSUME BackOff, rpc # "wait" PROVE Doubles'
  BY <1>2 DEF BackOff
<1>3. CASE Discover \/ ConnectFails \/ PollFails
  BY <1>2, <1>3 DEF Discover, ConnectFails, PollFails
<1>4. CASE ConnectSucceeds
  BY <1>4, DoubledDoubles, AvailabilityAssumption DEF ConnectSucceeds, Smaller
<1>5. CASE WaitEnds
  <2>1. /\ delay' = Smaller(2 * delay, MaximumDelay)
        /\ attempt' = attempt /\ rpc' = "loop"
        /\ attempt \in Nat \ {0} /\ delay = Smaller(Doubled[attempt - 1], MaximumDelay)
    BY <1>5 DEF WaitEnds
  <2>2. attempt - 1 \in Nat /\ (attempt - 1) + 1 = attempt
    BY <2>1
  <2>3. Doubled[attempt] = 2 * Doubled[attempt - 1] /\ Doubled[attempt - 1] \in Nat
    BY <2>2, DoubledDoubles
  <2>4. \A d \in Nat : Smaller(2 * Smaller(d, MaximumDelay), MaximumDelay)
                      = Smaller(2 * d, MaximumDelay)
    BY AvailabilityAssumption DEF Smaller
  <2>. QED
    BY <2>1, <2>3, <2>4
<1>. QED
  BY <1>1, <1>3, <1>4, <1>5 DEF Runner

\* However many attempts fail in a row, each wait is twice as long as the one before
\* or as long as waits may be, whether the waits end at the timer or on a hint.
THEOREM DelayAlwaysFollowsAttempts == Spec => []DelayFollowsAttempts
<1>1. TypeOK /\ Doubles /\ [Next]_vars => Doubles'
  BY OthersDouble, RunnerDoubles DEF Next
<1>2. Doubles => DelayFollowsAttempts
  BY DEF Doubles, DelayFollowsAttempts
<1>. QED
  BY <1>1, <1>2, InitDoubles, TypeCorrect, PTL DEF Spec

------------------------------------------------------------------------------
(* What signals lead to.                                                   *)

\* With one more signal at the end.
LEMMA KnownAppended ==
    ASSUME NEW sigs \in Seq(Signals), NEW s \in Signals, NEW facts \in SUBSET Facts,
           NEW d \in Devices
    PROVE  /\ \A i \in 0..Len(sigs) : Known(Append(sigs, s), facts, i, d)
                                      = Known(sigs, facts, i, d)
           /\ Known(Append(sigs, s), facts, Len(sigs) + 1, d)
              = Applied(s, d, Known(sigs, facts, Len(sigs), d))
<1>. DEFINE more == Append(sigs, s)
<1>1. /\ Len(sigs) \in Nat
      /\ \A i \in 1..Len(sigs) : more[i] = sigs[i]
      /\ more[Len(sigs) + 1] = s
  BY AppendProperties
<1>. HIDE DEF more
<1>2. ASSUME NEW i \in 0..Len(sigs)
      PROVE  Known(more, facts, i, d) = Known(sigs, facts, i, d)
  BY <1>1, <1>2 DEF Known
<1>3. Known(more, facts, Len(sigs) + 1, d) = Applied(s, d, Known(sigs, facts, Len(sigs), d))
  <2>. DEFINE n == Len(sigs)
              After(f, q, k) == \/ \E j \in 1..k : /\ TurnsOn(q[j], d, f)
                                                   /\ \A m \in (j + 1)..k : ~Mentions(q[m], d, f)
                                \/ /\ f \in facts
                                   /\ \A m \in 1..k : ~Mentions(q[m], d, f)
  <2>1. ASSUME NEW f \in Facts
        PROVE  After(f, more, n + 1)
               <=> TurnsOn(s, d, f) \/ (After(f, sigs, n) /\ ~Mentions(s, d, f))
    <3>1. CASE TurnsOn(s, d, f)
      <4>1. n + 1 \in 1..(n + 1) /\ TurnsOn(more[n + 1], d, f)
        BY <1>1, <3>1
      <4>. QED
        BY <1>1, <3>1, <4>1
    <3>2. CASE ~TurnsOn(s, d, f) /\ Mentions(s, d, f)
      BY <1>1, <3>2
    <3>3. CASE ~TurnsOn(s, d, f) /\ ~Mentions(s, d, f)
      BY <1>1, <3>3
    <3>. QED
      BY <3>1, <3>2, <3>3
  <2>. QED
    BY <2>1 DEF Known, Applied
<1>. QED
  BY <1>2, <1>3 DEF more

\* With the first signal handled.
LEMMA KnownHandled ==
    ASSUME NEW sigs \in Seq(Signals), sigs # <<>>, NEW facts \in SUBSET Facts,
           NEW d \in Devices, NEW i \in 0..(Len(sigs) - 1)
    PROVE  Known(Tail(sigs), Applied(Head(sigs), d, facts), i, d)
           = Known(sigs, facts, i + 1, d)
<1>. DEFINE rest == Tail(sigs)
            first == Head(sigs)
<1>1. /\ Len(sigs) \in Nat \ {0}
      /\ first = sigs[1]
      /\ \A j \in 1..(Len(sigs) - 1) : rest[j] = sigs[j + 1]
  BY HeadTailProperties, EmptySeq, SMT
<1>. HIDE DEF rest, first
<1>. DEFINE Late(f) == \E j \in 1..i : /\ TurnsOn(rest[j], d, f)
                                       /\ \A k \in (j + 1)..i : ~Mentions(rest[k], d, f)
            LateOf(f) == \E j \in 2..(i + 1) :
                            /\ TurnsOn(sigs[j], d, f)
                            /\ \A k \in (j + 1)..(i + 1) : ~Mentions(sigs[k], d, f)
            Silent(f) == \A k \in 1..i : ~Mentions(rest[k], d, f)
            SilentOf(f) == \A k \in 2..(i + 1) : ~Mentions(sigs[k], d, f)
<1>2. ASSUME NEW f \in Facts PROVE Late(f) <=> LateOf(f)
  <2>1. ASSUME Late(f) PROVE LateOf(f)
    <3>1. PICK j \in 1..i : /\ TurnsOn(rest[j], d, f)
                            /\ \A k \in (j + 1)..i : ~Mentions(rest[k], d, f)
      BY <2>1
    <3>2. j + 1 \in 2..(i + 1) /\ TurnsOn(sigs[j + 1], d, f)
      BY <1>1, <3>1
    <3>3. ASSUME NEW k \in (j + 2)..(i + 1) PROVE ~Mentions(sigs[k], d, f)
      <4>1. k - 1 \in (j + 1)..i /\ k - 1 \in 1..(Len(sigs) - 1) /\ (k - 1) + 1 = k
        BY <1>1
      <4>. QED
        BY <1>1, <3>1, <4>1
    <3>. QED
      BY <3>2, <3>3
  <2>2. ASSUME LateOf(f) PROVE Late(f)
    <3>1. PICK j \in 2..(i + 1) : /\ TurnsOn(sigs[j], d, f)
                                  /\ \A k \in (j + 1)..(i + 1) : ~Mentions(sigs[k], d, f)
      BY <2>2
    <3>2. j - 1 \in 1..i /\ j - 1 \in 1..(Len(sigs) - 1) /\ (j - 1) + 1 = j
      BY <1>1, <3>1
    <3>3. TurnsOn(rest[j - 1], d, f)
      BY <1>1, <3>1, <3>2
    <3>4. ASSUME NEW k \in ((j - 1) + 1)..i PROVE ~Mentions(rest[k], d, f)
      <4>1. k + 1 \in (j + 1)..(i + 1) /\ k \in 1..(Len(sigs) - 1)
        BY <1>1
      <4>. QED
        BY <1>1, <3>1, <4>1
    <3>. QED
      BY <3>2, <3>3, <3>4
  <2>. QED
    BY <2>1, <2>2
<1>3. ASSUME NEW f \in Facts PROVE Silent(f) <=> SilentOf(f)
  <2>1. ASSUME Silent(f), NEW k \in 2..(i + 1) PROVE ~Mentions(sigs[k], d, f)
    <3>1. k - 1 \in 1..i /\ k - 1 \in 1..(Len(sigs) - 1) /\ (k - 1) + 1 = k
      BY <1>1
    <3>. QED
      BY <1>1, <2>1, <3>1
  <2>2. ASSUME SilentOf(f), NEW k \in 1..i PROVE ~Mentions(rest[k], d, f)
    <3>1. k + 1 \in 2..(i + 1) /\ k \in 1..(Len(sigs) - 1)
      BY <1>1
    <3>. QED
      BY <1>1, <2>2, <3>1
  <2>. QED
    BY <2>1, <2>2
<1>4. ASSUME NEW f \in Facts
      PROVE  (\E j \in 1..(i + 1) : /\ TurnsOn(sigs[j], d, f)
                                    /\ \A k \in (j + 1)..(i + 1) : ~Mentions(sigs[k], d, f))
             <=> LateOf(f) \/ (TurnsOn(sigs[1], d, f) /\ SilentOf(f))
  OBVIOUS
<1>5. ASSUME NEW f \in Facts
      PROVE  (\A k \in 1..(i + 1) : ~Mentions(sigs[k], d, f))
             <=> ~Mentions(sigs[1], d, f) /\ SilentOf(f)
  OBVIOUS
<1>6. ASSUME NEW f \in Facts
      PROVE  f \in Applied(first, d, facts)
             <=> TurnsOn(sigs[1], d, f) \/ (f \in facts /\ ~Mentions(sigs[1], d, f))
  BY <1>1 DEF Applied
<1>. HIDE DEF Late, LateOf, Silent, SilentOf
<1>7. ASSUME NEW f \in Facts
      PROVE  f \in Known(sigs, facts, i + 1, d)
             <=> \/ LateOf(f) \/ (TurnsOn(sigs[1], d, f) /\ SilentOf(f))
                 \/ f \in facts /\ ~Mentions(sigs[1], d, f) /\ SilentOf(f)
  BY <1>4, <1>5 DEF Known
<1>8. ASSUME NEW f \in Facts
      PROVE  f \in Known(rest, Applied(first, d, facts), i, d)
             <=> Late(f) \/ (f \in Applied(first, d, facts) /\ Silent(f))
  BY DEF Known, Late, Silent
<1>9. Known(rest, Applied(first, d, facts), i, d) \subseteq Facts
      /\ Known(sigs, facts, i + 1, d) \subseteq Facts
  BY DEF Known
<1>. QED
  BY <1>2, <1>3, <1>6, <1>7, <1>8, <1>9 DEF rest, first

\* Without a signal nothing changes.
LEMMA KnownAtFirst ==
    ASSUME NEW sigs, NEW facts \in SUBSET Facts, NEW d
    PROVE  Known(sigs, facts, 0, d) = facts
BY DEF Known

\* Whether a fact is known depends on what was known of this fact only.
LEMMA KnownFactwise ==
    ASSUME NEW sigs, NEW one, NEW other, NEW i, NEW d, NEW f, f \in one <=> f \in other
    PROVE  f \in Known(sigs, one, i, d) <=> f \in Known(sigs, other, i, d)
BY DEF Known

------------------------------------------------------------------------------
(* The order of starting, and the daemon without devices.                  *)

LEMMA InitOrder == Init => Order
BY DEF Init, Order

LEMMA NextOrder == TypeOK /\ Order /\ [Next]_vars => Order'
<1>. SUFFICES ASSUME TypeOK, Order, [Next]_vars PROVE Order'
  OBVIOUS
<1>. USE DEF Order, Change, watching, runner, backoff, surroundings, Runs, BackOff
<1>1. CASE BlueZ
  <2>1. \E s : Change(s)
    BY <1>1 DEF BlueZ, ObjectAdded, PropertiesChanged, ObjectRemoved, DaemonStops,
       DaemonStarts
  <2>2. CASE DaemonStops
    BY <2>1, <2>2 DEF DaemonStops
  <2>3. CASE DaemonStarts
    BY <2>1, <2>3 DEF DaemonStarts
  <2>4. CASE daemon' = TRUE
    BY <2>1, <2>4
  <2>5. DaemonStops \/ DaemonStarts \/ daemon' = TRUE
    BY <1>1 DEF BlueZ, ObjectAdded, PropertiesChanged, ObjectRemoved, TypeOK
  <2>. QED
    BY <2>2, <2>3, <2>4, <2>5
<1>2. CASE Watcher
  BY <1>2 DEF Watcher, Subscribe, FillCache, WatcherUnavailable, HandleChanged,
     HandleRemoved, HandleOwner, Handle
<1>3. CASE Runner
  BY <1>3 DEF Runner, TakeToken, Discover, ConnectFails, ConnectSucceeds, PollSucceeds,
     PollFails, Pause, WaitEnds
<1>4. CASE UNCHANGED vars
  BY <1>4 DEF vars
<1>. QED
  BY <1>1, <1>2, <1>3, <1>4 DEF Next

------------------------------------------------------------------------------
(* The signals lead to what BlueZ says.                                    *)

\* BlueZ's objects change as the signal says.
Announces(s) == Change(s) /\ \A d \in Devices : bluez'[d] = Applied(s, d, bluez[d])

LEMMA BlueZAnnounces ==
    ASSUME TypeOK, Order, BlueZ
    PROVE  \E s \in Signals : Announces(s)
<1>. USE DEF Applied, Mentions, TurnsOn
<1>1. \A d \in Devices : bluez[d] \in SUBSET Facts
  BY DEF TypeOK
<1>2. ASSUME NEW d \in Devices, NEW facts \in {{"named"}, {"named", "connected"}, Facts},
             ObjectAdded(d, facts)
      PROVE  \E s \in Signals : Announces(s)
  <2>. DEFINE s == [kind |-> "added", device |-> d, on |-> facts, off |-> Facts \ facts]
  <2>1. facts \in SUBSET Facts
    BY DEF Facts
  <2>2. s \in Signals /\ Change(s)
    BY <1>2, <2>1 DEF Signals, ObjectAdded
  <2>3. ASSUME NEW e \in Devices PROVE bluez'[e] = Applied(s, e, bluez[e])
    <3>1. CASE e = d BY <1>2, <2>1, <3>1 DEF ObjectAdded, TypeOK
    <3>2. CASE e # d BY <1>1, <1>2, <3>2 DEF ObjectAdded, TypeOK
    <3>. QED BY <3>1, <3>2
  <2>. QED
    BY <2>2, <2>3 DEF Announces
<1>3. ASSUME NEW d \in Devices, NEW on \in SUBSET {"connected", "resolved"},
             NEW off \in SUBSET {"connected", "resolved"}, PropertiesChanged(d, on, off)
      PROVE  \E s \in Signals : Announces(s)
  <2>. DEFINE s == [kind |-> "changed", device |-> d, on |-> on, off |-> off]
  <2>1. on \in SUBSET Facts /\ off \in SUBSET Facts
    BY DEF Facts
  <2>2. s \in Signals /\ Change(s)
    BY <1>3, <2>1 DEF Signals, PropertiesChanged
  <2>3. ASSUME NEW e \in Devices PROVE bluez'[e] = Applied(s, e, bluez[e])
    <3>1. CASE e = d BY <1>1, <1>3, <2>1, <3>1 DEF PropertiesChanged, TypeOK
    <3>2. CASE e # d BY <1>1, <1>3, <3>2 DEF PropertiesChanged, TypeOK
    <3>. QED BY <3>1, <3>2
  <2>. QED
    BY <2>2, <2>3 DEF Announces
<1>4. ASSUME NEW d \in Devices, ObjectRemoved(d) PROVE \E s \in Signals : Announces(s)
  <2>. DEFINE s == [kind |-> "removed", device |-> d]
  <2>1. s \in Signals /\ Change(s)
    BY <1>4 DEF Signals, ObjectRemoved
  <2>2. ASSUME NEW e \in Devices PROVE bluez'[e] = Applied(s, e, bluez[e])
    <3>1. CASE e = d BY <1>4, <3>1 DEF ObjectRemoved, TypeOK
    <3>2. CASE e # d BY <1>1, <1>4, <3>2 DEF ObjectRemoved, TypeOK
    <3>. QED BY <3>1, <3>2
  <2>. QED
    BY <2>1, <2>2 DEF Announces
<1>5. CASE DaemonStops \/ DaemonStarts
  <2>1. PICK new \in BOOLEAN : Change([kind |-> "owner", new |-> new])
    BY <1>5 DEF DaemonStops, DaemonStarts
  <2>2. [kind |-> "owner", new |-> new] \in Signals
    BY DEF Signals
  <2>3. bluez' = NoDevices
    BY <1>5 DEF DaemonStops, DaemonStarts, Order
  <2>4. ASSUME NEW e \in Devices
        PROVE  bluez'[e] = Applied([kind |-> "owner", new |-> new], e, bluez[e])
    BY <2>3 DEF NoDevices
  <2>. QED
    BY <2>1, <2>2, <2>4 DEF Announces
<1>. QED
  BY <1>2, <1>3, <1>4, <1>5 DEF BlueZ

\* The cache changes as the signal handled says.
LEMMA CacheApplies ==
    ASSUME TypeOK, HandleChanged \/ HandleRemoved \/ HandleOwner
    PROVE  /\ Handle({"changed", "added", "removed", "owner"})
           /\ \A d \in Devices : cache'[d] = Applied(Head(signals), d, cache[d])
<1>. USE DEF Applied, Mentions, TurnsOn
<1>. DEFINE s == Head(signals)
<1>1. signals # <<>> /\ Handle({"changed", "added", "removed", "owner"})
  BY DEF HandleChanged, HandleRemoved, HandleOwner, Handle
<1>2. s \in Signals /\ \A d \in Devices : cache[d] \in SUBSET Facts
  BY <1>1, HeadTyped DEF TypeOK
<1>3. CASE HandleChanged
  <2>1. s.on \in SUBSET Facts /\ s.off \in SUBSET Facts /\ s.kind \in {"changed", "added"}
        /\ cache' = [cache EXCEPT ![s.device] = (cache[s.device] \ s.off) \cup s.on]
    BY <1>2, <1>3 DEF HandleChanged, Handle, Signals
  <2>2. ASSUME NEW d \in Devices PROVE cache'[d] = Applied(s, d, cache[d])
    <3>1. CASE d = s.device BY <1>2, <2>1, <3>1 DEF TypeOK
    <3>2. CASE d # s.device BY <1>2, <2>1, <3>2 DEF TypeOK
    <3>. QED BY <3>1, <3>2
  <2>. QED
    BY <1>1, <2>2
<1>4. CASE HandleRemoved
  <2>1. s.kind = "removed" /\ cache' = [cache EXCEPT ![s.device] = {}]
    BY <1>4 DEF HandleRemoved, Handle
  <2>2. ASSUME NEW d \in Devices PROVE cache'[d] = Applied(s, d, cache[d])
    <3>1. CASE d = s.device BY <1>2, <2>1, <3>1 DEF TypeOK
    <3>2. CASE d # s.device BY <1>2, <2>1, <3>2 DEF TypeOK
    <3>. QED BY <3>1, <3>2
  <2>. QED
    BY <1>1, <2>2
<1>5. CASE HandleOwner
  BY <1>1, <1>5 DEF HandleOwner, Handle, NoDevices
<1>. QED
  BY <1>3, <1>4, <1>5

LEMMA InitFollows == Init => Follows
BY DEF Init, Follows

\* Before the cache is filled the signals are about what BlueZ already says; a signal
\* more is about what BlueZ says then.
LEMMA ChangeFollows ==
    ASSUME TypeOK, Follows, NEW s \in Signals, Announces(s)
    PROVE  Follows'
<1>. SUFFICES ASSUME NEW d \in Devices
              PROVE  /\ (watcher = "subscribed"
                            => Known(signals, bluez[d], Len(signals), d) = bluez[d])'
                     /\ (watcher = "running"
                            => Known(signals, cache[d], Len(signals), d) = bluez[d])'
  BY DEF Follows
<1>1. /\ watcher' = watcher /\ cache' = cache
      /\ watcher \in {"subscribed", "running"} => signals' = Append(signals, s)
      /\ bluez'[d] = Applied(s, d, bluez[d])
  BY DEF Announces, Change, watching
<1>2. bluez[d] \in SUBSET Facts /\ cache[d] \in SUBSET Facts /\ bluez'[d] \in SUBSET Facts
      /\ signals \in Seq(Signals)
  BY <1>1 DEF TypeOK, Applied
<1>. DEFINE n == Len(signals)
<1>3. n \in Nat /\ Len(Append(signals, s)) = n + 1
  BY <1>2, AppendProperties
<1>4. CASE watcher = "running"
  <2>1. Known(signals', cache[d], n + 1, d) = Applied(s, d, Known(signals, cache[d], n, d))
    <3>1. Known(Append(signals, s), cache[d], n + 1, d)
            = Applied(s, d, Known(signals, cache[d], n, d))
      BY <1>2, KnownAppended
    <3>2. signals' = Append(signals, s)
      BY <1>1, <1>4
    <3>. QED
      BY <3>1, <3>2
  <2>2. Known(signals, cache[d], n, d) = bluez[d]
    BY <1>4 DEF Follows
  <2>. QED
    BY <1>1, <1>3, <1>4, <2>1, <2>2
<1>5. CASE watcher = "subscribed"
  <2>. DEFINE now == bluez'[d]
  <2>1. Known(signals', now, n + 1, d) = Applied(s, d, Known(signals, now, n, d))
    <3>. HIDE DEF now
    <3>1. now \in SUBSET Facts
      BY <1>2 DEF now
    <3>2. Known(Append(signals, s), now, n + 1, d) = Applied(s, d, Known(signals, now, n, d))
      BY <1>2, <3>1, KnownAppended
    <3>3. signals' = Append(signals, s)
      BY <1>1, <1>5
    <3>. QED
      BY <3>2, <3>3
  <2>2. Known(signals, bluez[d], n, d) = bluez[d]
    BY <1>5 DEF Follows
  <2>3. ASSUME NEW f \in Facts
        PROVE  f \in Applied(s, d, Known(signals, now, n, d)) <=> f \in now
    <3>1. CASE Mentions(s, d, f)
      BY <1>1, <3>1 DEF Applied
    <3>2. CASE ~Mentions(s, d, f)
      <4>1. ~TurnsOn(s, d, f)
        BY <3>2 DEF Mentions, TurnsOn
      <4>2. f \in now <=> f \in bluez[d]
        BY <1>1, <3>2, <4>1 DEF Applied
      <4>3. f \in Known(signals, now, n, d) <=> f \in Known(signals, bluez[d], n, d)
        BY <4>2, KnownFactwise
      <4>. QED
        BY <2>2, <3>2, <4>1, <4>2, <4>3 DEF Applied
    <3>. QED
      BY <3>1, <3>2
  <2>4. Applied(s, d, Known(signals, now, n, d)) \subseteq Facts
    BY DEF Applied
  <2>5. Applied(s, d, Known(signals, now, n, d)) = now
    BY <1>2, <2>3, <2>4
  <2>. QED
    BY <1>1, <1>3, <1>5, <2>1, <2>5
<1>. QED
  BY <1>1, <1>4, <1>5

\* A signal is applied to the cache, and the others lead on from there.
LEMMA HandleFollows ==
    ASSUME TypeOK, Follows, HandleChanged \/ HandleRemoved \/ HandleOwner
    PROVE  Follows'
<1>1. /\ watcher = "running" /\ watcher' = watcher /\ bluez' = bluez
      /\ signals # <<>> /\ signals' = Tail(signals)
  BY CacheApplies DEF Handle, surroundings
<1>2. signals \in Seq(Signals) /\ Len(signals) \in Nat \ {0}
      /\ Len(signals') = Len(signals) - 1
  BY <1>1, HeadTailProperties, EmptySeq DEF TypeOK
<1>3. ASSUME NEW d \in Devices
      PROVE  Known(signals', cache'[d], Len(signals'), d) = bluez[d]
  <2>1. cache[d] \in SUBSET Facts /\ cache'[d] = Applied(Head(signals), d, cache[d])
    BY CacheApplies DEF TypeOK
  <2>2. Known(Tail(signals), Applied(Head(signals), d, cache[d]), Len(signals) - 1, d)
        = Known(signals, cache[d], (Len(signals) - 1) + 1, d)
    BY <1>1, <1>2, <2>1, KnownHandled
  <2>3. (Len(signals) - 1) + 1 = Len(signals)
    BY <1>2
  <2>. QED
    BY <1>1, <1>2, <2>1, <2>2, <2>3 DEF Follows
<1>. QED
  BY <1>1, <1>3 DEF Follows

LEMMA NextFollows == TypeOK /\ Order /\ Follows /\ [Next]_vars => Follows'
<1>. SUFFICES ASSUME TypeOK, Order, Follows, [Next]_vars PROVE Follows'
  OBVIOUS
<1>1. CASE BlueZ
  BY <1>1, BlueZAnnounces, ChangeFollows
<1>2. CASE Subscribe
  <2>1. signals' = <<>> /\ Len(signals') = 0 /\ watcher' = "subscribed" /\ bluez' = bluez
    BY <1>2 DEF Subscribe, Order, surroundings
  <2>2. \A d \in Devices : Known(signals', bluez[d], 0, d) = bluez[d]
    BY KnownAtFirst DEF TypeOK
  <2>. QED
    BY <2>1, <2>2 DEF Follows
<1>3. CASE FillCache
  BY <1>3 DEF FillCache, Follows, surroundings
<1>4. CASE WatcherUnavailable
  BY <1>4 DEF WatcherUnavailable, Follows
<1>5. CASE HandleChanged \/ HandleRemoved \/ HandleOwner
  BY <1>5, HandleFollows
<1>6. CASE Runner \/ UNCHANGED vars
  <2>1. UNCHANGED <<bluez, cache, watcher, signals>>
    BY <1>6 DEF Runner, TakeToken, Discover, ConnectFails, ConnectSucceeds, PollSucceeds,
       PollFails, Pause, WaitEnds, BackOff, surroundings, watching, vars
  <2>. QED
    BY <2>1 DEF Follows
<1>. QED
  BY <1>1, <1>2, <1>3, <1>4, <1>5, <1>6 DEF Next, Watcher

LEMMA AlwaysFollows == Spec => [](Order /\ Follows)
<1>1. Init => Order /\ Follows
  BY InitOrder, InitFollows
<1>2. TypeOK /\ (Order /\ Follows) /\ [Next]_vars => (Order /\ Follows)'
  BY NextOrder, NextFollows
<1>. QED
  BY <1>1, <1>2, TypeCorrect, PTL DEF Spec

\* The cache is filled by a call that overtakes signals sent before it, and is cleared
\* whenever bluetoothd comes or goes: once the signals are handled it is still what
\* BlueZ says, for any number of devices and changes.
THEOREM CacheStaysCoherent == Spec => []CacheCoherent
<1>1. TypeOK /\ Follows => CacheCoherent
  <2>. SUFFICES ASSUME TypeOK, Follows, watcher = "running", signals = <<>>
                PROVE  cache = bluez
    BY DEF CacheCoherent
  <2>1. Len(signals) = 0
    OBVIOUS
  <2>2. ASSUME NEW d \in Devices PROVE cache[d] = bluez[d]
    <3>1. cache[d] \in SUBSET Facts
      BY DEF TypeOK
    <3>. QED
      BY <2>1, <3>1, KnownAtFirst DEF Follows
  <2>. QED
    BY <2>2 DEF TypeOK
<1>. QED
  BY <1>1, AlwaysFollows, TypeCorrect, PTL

------------------------------------------------------------------------------
(* Arrivals are noticed.                                                   *)

LEMMA InitNoticed == Init => Noticed
BY DEF Init, Noticed

\* A change does not undo a hint on its way, and an arrival is one.
LEMMA ChangeNoticed ==
    ASSUME TypeOK, Follows, Noticed, NEW s \in Signals, Announces(s)
    PROVE  Noticed'
<1>. SUFFICES ASSUME watcher' = "running", rpc' # "loop",
                     NEW d \in arrivals' \cap OnePlus, generation' = token'
              PROVE  Hinted(d)'
  BY DEF Noticed
<1>1. /\ watcher = "running" /\ cache' = cache /\ rpc = rpc' /\ generation = token
      /\ signals' = Append(signals, s)
      /\ arrivals' = arrivals \cup (Compatible' \ Compatible)
  BY DEF Announces, Change, watching, runner
<1>2. d \in Devices /\ cache[d] \in SUBSET Facts /\ signals \in Seq(Signals)
  BY AvailabilityAssumption DEF TypeOK
<1>. DEFINE n == Len(signals)
            K(i) == Known(signals, cache[d], i, d)
            L(i) == Known(signals', cache[d], i, d)
<1>3. n \in Nat /\ Len(signals') = n + 1
  BY <1>1, <1>2, AppendProperties
<1>4. (\A i \in 0..n : L(i) = K(i)) /\ L(n + 1) = Applied(s, d, K(n))
  BY <1>1, <1>2, KnownAppended
<1>5. K(n) = bluez[d]
  BY <1>1, <1>2 DEF Follows
<1>. HIDE DEF K, L
<1>6. CASE d \in arrivals
  <2>1. Hinted(d)
    BY <1>1, <1>6 DEF Noticed
  <2>2. PICK i \in 1..n : K(i - 1) # Facts /\ K(i) = Facts
    BY <2>1 DEF Hinted, K
  <2>3. i \in 1..(n + 1) /\ L(i - 1) # Facts /\ L(i) = Facts
    BY <1>3, <1>4, <2>2
  <2>. QED
    BY <1>1, <1>3, <2>3 DEF Hinted, L
<1>7. CASE d \in Compatible' \ Compatible
  <2>1. bluez[d] # Facts /\ bluez'[d] = Facts
    BY <1>2, <1>7 DEF Compatible
  <2>2. bluez'[d] = Applied(s, d, bluez[d])
    BY <1>2 DEF Announces
  <2>3. n + 1 \in 1..(n + 1) /\ L((n + 1) - 1) # Facts /\ L(n + 1) = Facts
    BY <1>3, <1>4, <1>5, <2>1, <2>2
  <2>. QED
    BY <1>1, <1>3, <2>3 DEF Hinted, L
<1>. QED
  BY <1>1, <1>6, <1>7

\* The handler of the signal by which a device becomes eligible counts a generation.
LEMMA HandleNoticed ==
    ASSUME TypeOK, Counted, Noticed, HandleChanged \/ HandleRemoved \/ HandleOwner
    PROVE  Noticed'
<1>. SUFFICES ASSUME watcher' = "running", rpc' # "loop",
                     NEW d \in arrivals' \cap OnePlus, generation' = token'
              PROVE  Hinted(d)'
  BY DEF Noticed
<1>1. /\ watcher = "running" /\ arrivals' = arrivals /\ rpc' = rpc /\ token' = token
      /\ signals # <<>> /\ signals' = Tail(signals)
  BY CacheApplies DEF Handle, runner
<1>2. d \in Devices /\ cache[d] \in SUBSET Facts /\ signals \in Seq(Signals)
  BY AvailabilityAssumption DEF TypeOK
<1>3. generation = token /\ generation' = generation
  BY <1>1 DEF HandleChanged, HandleRemoved, HandleOwner, Counted, TypeOK
<1>4. Hinted(d)
  BY <1>1, <1>3 DEF Noticed
<1>. DEFINE n == Len(signals)
            s == Head(signals)
            K(i) == Known(signals, cache[d], i, d)
            L(i) == Known(signals', cache'[d], i, d)
<1>5. n \in Nat \ {0} /\ Len(signals') = n - 1
  BY <1>1, <1>2, HeadTailProperties, EmptySeq
<1>6. cache'[d] = Applied(s, d, cache[d])
  BY <1>2, CacheApplies
<1>7. \A i \in 0..(n - 1) : L(i) = K(i + 1)
  BY <1>1, <1>2, <1>6, KnownHandled
<1>8. K(0) = cache[d] /\ L(0) = cache'[d]
  BY <1>2, <1>6, KnownAtFirst DEF Applied
<1>9. PICK i \in 1..n : K(i - 1) # Facts /\ K(i) = Facts
  BY <1>4 DEF Hinted
<1>. HIDE DEF K, L
<1>10. i # 1
  <2>. SUFFICES ASSUME i = 1 PROVE FALSE
    OBVIOUS
  <2>1. cache[d] # Facts /\ cache'[d] = Facts
    BY <1>5, <1>7, <1>8, <1>9
  <2>2. s.kind \in {"changed", "added"} /\ s.device = d
    BY <1>2, <1>6, <2>1 DEF Applied, TurnsOn, Facts
  <2>3. HandleChanged
    BY <2>2 DEF HandleRemoved, HandleOwner, Handle
  <2>4. cache'[d] = (cache[d] \ s.off) \cup s.on
    BY <1>2, <2>2, <2>3 DEF HandleChanged, TypeOK
  <2>5. generation' = generation + 1
    BY <2>1, <2>2, <2>3, <2>4 DEF HandleChanged, Eligible
  <2>. QED
    BY <1>3, <2>5 DEF TypeOK
<1>11. i - 1 \in 1..(n - 1) /\ L((i - 1) - 1) # Facts /\ L(i - 1) = Facts
  BY <1>5, <1>7, <1>9, <1>10
<1>. QED
  BY <1>5, <1>11 DEF Hinted, L

LEMMA NextNoticed ==
    TypeOK /\ Order /\ Counted /\ Follows /\ Noticed /\ [Next]_vars => Noticed'
<1>. SUFFICES ASSUME TypeOK, Order, Counted, Follows, Noticed, [Next]_vars PROVE Noticed'
  OBVIOUS
<1>1. CASE BlueZ
  BY <1>1, BlueZAnnounces, ChangeNoticed
<1>2. CASE Subscribe \/ FillCache \/ WatcherUnavailable
  BY <1>2 DEF Subscribe, FillCache, WatcherUnavailable, Order, Noticed, runner
<1>3. CASE HandleChanged \/ HandleRemoved \/ HandleOwner
  BY <1>3, HandleNoticed
<1>4. CASE TakeToken
  BY <1>4 DEF TakeToken, Noticed
<1>5. CASE Pause \/ WaitEnds
  BY <1>5 DEF Pause, WaitEnds, Noticed
<1>6. CASE Discover \/ ConnectFails \/ ConnectSucceeds \/ PollSucceeds \/ PollFails
           \/ UNCHANGED vars
  <2>1. UNCHANGED <<cache, watcher, signals, arrivals, generation, token>>
        /\ (rpc' # "loop" => rpc # "loop")
    BY <1>6 DEF Discover, ConnectFails, ConnectSucceeds, PollSucceeds, PollFails, BackOff,
       Runs, surroundings, watching, runner, vars
  <2>. QED
    BY <2>1 DEF Noticed, Hinted
<1>. QED
  BY <1>1, <1>2, <1>3, <1>4, <1>5, <1>6 DEF Next, Watcher, Runner

\* Whenever the service thread is asleep without a hint, no OnePlus device became
\* available since its attempt started, whatever the delay of the signals, the order
\* of the properties, and restarts of bluetoothd.
THEOREM NoArrivalIsSleptThrough == Spec => []NoArrivalSleptThrough
<1>1. Init => Informed
  BY InitTyped, InitOrder, InitCounted, InitFollows, InitNoticed DEF Informed
<1>2. Informed /\ [Next]_vars => Informed'
  BY BlueZTyped, WatcherTyped, RunnerTyped, StutterTyped, NextOrder, NextCounted,
     NextFollows, NextNoticed DEF Informed, Next
<1>3. Informed => NoArrivalSleptThrough
  <2>. SUFFICES ASSUME Noticed, Asleep, NEW d \in arrivals \cap OnePlus PROVE FALSE
    BY DEF Informed, NoArrivalSleptThrough
  <2>1. Hinted(d) /\ Len(signals) = 0
    BY DEF Noticed, Asleep
  <2>. QED
    BY <2>1 DEF Hinted
<1>. QED
  BY <1>1, <1>2, <1>3, PTL DEF Spec
==============================================================================
