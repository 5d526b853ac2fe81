------------------------- MODULE SessionStartupProofs -------------------------
(***************************************************************************)
(* SessionStartup for every number of attempts, changes and frames.        *)
(***************************************************************************)
EXTENDS SessionStartup, SequenceTheorems, FiniteSetTheorems, TLAPS

Link == INSTANCE OpoWireProofs WITH LastSequence <- 1

------------------------------------------------------------------------------
(* Who has the channel.  OneOwner is not inductive: that an operation      *)
(* which opens a socket holds no session, and that a poll does, follows    *)
(* from its goal.                                                          *)

\* With the session held only a poll waits, and a poll waits only with it.
HeldByPolls ==
    /\ held /\ pc # "idle" => goal = "poll" /\ pc \in {"codes", "subscribe", "drain"}
    /\ goal = "poll" /\ pc # "idle" => held
    /\ pc = "drain" => goal = "poll"

Owned == goal \in Goals /\ OneOwner /\ HeldByPolls

LEMMA InitOwned == Init => Owned
  BY DEF Init, Owned, OneOwner, HeldByPolls, Goals, Waits

\* What the earbuds and other programs do.
LEMMA OutsideOwned ==
    ASSUME Owned, Outside \/ ChannelFreed
    PROVE  Owned'
<1> USE DEF Owned, OneOwner, HeldByPolls, op, ctl, earbuds
<1>1. ASSUME NEW k \in Kinds, Change(k) \/ Report(k) PROVE Owned'
  BY <1>1 DEF Change, Report
<1>2. CASE Reply BY <1>2 DEF Reply
<1>3. CASE OtherApplication BY <1>3 DEF OtherApplication
<1>4. CASE ChannelFreed BY <1>4 DEF ChannelFreed
<1> QED
  BY <1>1, <1>2, <1>3, <1>4 DEF Outside

\* What opens a socket, or closes one between operations.
LEMMA BeginsOwned ==
    ASSUME Owned, Begins
    PROVE  Owned'
<1> USE DEF Owned, OneOwner, HeldByPolls, op, ctl, earbuds, Goals, Waits
<1>1. CASE Start BY <1>1 DEF Start, Close, Cleared, Enter
<1>2. CASE Shutdown BY <1>2 DEF Shutdown, Close, Cleared, Idle
<1>3. CASE StrengthWrite BY <1>3 DEF StrengthWrite, Close, Enter
<1>4. CASE MainWriteReopens BY <1>4 DEF MainWriteReopens, Enter
<1>5. CASE PollBegins BY <1>5 DEF PollBegins
<1>6. CASE CommandFails BY <1>6 DEF CommandFails, Close
<1>7. ASSUME NEW n \in 1..Len(down), CommandReads(n) PROVE Owned'
  BY <1>7 DEF CommandReads
<1> QED
  BY <1>1, <1>2, <1>3, <1>4, <1>5, <1>6, <1>7 DEF Begins

LEMMA FailuresOwned ==
    ASSUME Owned, StartFails \/ PollFails \/ ReopenFails \/ StrengthWriteFails
    PROVE  Owned'
<1> USE DEF Owned, OneOwner, HeldByPolls, op, ctl, earbuds, Goals, Waits, MayFail, Close
<1>1. CASE StartFails BY <1>1 DEF StartFails, Cleared, Idle
<1>2. CASE PollFails BY <1>2 DEF PollFails, Cleared, Enter
<1>3. CASE ReopenFails BY <1>3 DEF ReopenFails, Idle
<1>4. CASE StrengthWriteFails BY <1>4 DEF StrengthWriteFails, Monitor, Enter, Idle
<1> QED
  BY <1>1, <1>2, <1>3, <1>4

\* Attempts to connect, and the sockets of a strength write.
LEMMA SocketsOwned ==
    ASSUME Owned, Connected \/ Busy \/ Unsupported \/ Written \/ Verified
    PROVE  Owned'
<1> USE DEF Owned, OneOwner, HeldByPolls, op, ctl, earbuds, Goals, Waits
<1>1. CASE Connected BY <1>1 DEF Connected, FirstWait
<1>2. CASE Busy BY <1>2 DEF Busy
<1>3. CASE Unsupported BY <1>3 DEF Unsupported, Close, Idle
<1>4. CASE Written BY <1>4 DEF Written, Close, Enter
<1>5. CASE Verified BY <1>5 DEF Verified, Close, Monitor, Enter, Idle
<1> QED
  BY <1>1, <1>2, <1>3, <1>4, <1>5

\* What is received, by bootstrap, by a poll, or by a reopening.
LEMMA ReceivesOwned ==
    ASSUME Owned, NEW n \in Nat,
           \/ Identify(n) \/ Authenticate(n) \/ ReceiveBattery(n) \/ ReceiveAnc(n)
           \/ ReceiveOthers(n) \/ NoCodes(n) \/ Codes(n) \/ Subscribed(n) \/ Drain(n)
    PROVE  Owned'
<1> USE DEF Owned, OneOwner, HeldByPolls, op, ctl, earbuds, Goals, Waits, Await
<1>1. CASE Identify(n) BY <1>1 DEF Identify
<1>2. CASE Authenticate(n) BY <1>2 DEF Authenticate
<1>3. CASE ReceiveBattery(n) BY <1>3 DEF ReceiveBattery
<1>4. CASE ReceiveAnc(n) BY <1>4 DEF ReceiveAnc, Usable, Idle
<1>5. CASE ReceiveOthers(n) BY <1>5 DEF ReceiveOthers, Essential
<1>6. CASE NoCodes(n) BY <1>6 DEF NoCodes, Resumed, Finish, Idle
<1>7. CASE Codes(n) BY <1>7 DEF Codes
<1>8. CASE Subscribed(n) BY <1>8 DEF Subscribed, Resumed, Finish, Idle
<1>9. CASE Drain(n) BY <1>9 DEF Drain, Finish, Idle
<1> QED
  BY <1>1, <1>2, <1>3, <1>4, <1>5, <1>6, <1>7, <1>8, <1>9

LEMMA StepOwned ==
    ASSUME Owned, [Next]_vars
    PROVE  Owned'
<1>1. CASE Outside \/ ChannelFreed BY <1>1, OutsideOwned
<1>2. CASE Begins BY <1>2, BeginsOwned
<1>3. CASE Proceeds
  <2>1. CASE Connected \/ Busy \/ Unsupported \/ Written \/ Verified BY <2>1, SocketsOwned
  <2>2. CASE StartFails \/ PollFails \/ ReopenFails \/ StrengthWriteFails BY <2>2, FailuresOwned
  <2>3. ASSUME NEW n \in 0..Len(down),
               \/ Identify(n) \/ Authenticate(n) \/ ReceiveBattery(n) \/ ReceiveAnc(n)
               \/ NoCodes(n) \/ Codes(n) \/ Subscribed(n) \/ Drain(n)
        PROVE  Owned'
    <3>1. n \in Nat OBVIOUS
    <3> QED BY <2>3, <3>1, ReceivesOwned
  <2> QED
    BY <1>3, <2>1, <2>2, <2>3 DEF Proceeds
<1>4. ASSUME NEW n \in 1..Len(down), ReceiveOthers(n) PROVE Owned'
  <2>1. n \in Nat OBVIOUS
  <2> QED BY <1>4, <2>1, ReceivesOwned
<1>5. ASSUME NEW n, PollRaises(n) PROVE Owned'
  BY <1>5 DEF PollRaises, Idle, earbuds, Owned, OneOwner, HeldByPolls, Goals, Waits
<1>6. CASE UNCHANGED vars
  BY <1>6 DEF vars, op, ctl, Owned, OneOwner, HeldByPolls
<1> QED
  BY <1>1, <1>2, <1>3, <1>4, <1>5, <1>6 DEF Next

\* No failure on any path leaves the channel taken, and no operation tries to
\* connect while the program itself holds the channel.
THEOREM AlwaysOneOwner == Spec => []OneOwner
<1>1. Owned => OneOwner
  BY DEF Owned
<1> QED
  BY <1>1, InitOwned, StepOwned, PTL DEF Spec

------------------------------------------------------------------------------
(* The frames on their way, and what is known after some of them.          *)

\* The first n frames, and those behind them.
LEMMA TakenFrames ==
    ASSUME down \in Seq(Frame), NEW n \in 0..Len(down)
    PROVE  /\ Taken(n) \in Seq(Frame)
           /\ DOMAIN Taken(n) = 1..n
           /\ \A i \in 1..n : Taken(n)[i] = down[i] /\ i \in DOMAIN down
BY Link!ChunkFrames, 1 \in Nat \ {0} DEF Link!Chunk, Taken

LEMMA LeftFrames ==
    ASSUME down \in Seq(Frame), NEW n \in 0..Len(down), Left(n)
    PROVE  /\ down' \in Seq(Frame)
           /\ DOMAIN down' = 1..(Len(down) - n)
           /\ \A i \in DOMAIN down' : down'[i] = down[n + i] /\ n + i \in DOMAIN down
BY Link!UnreadFrames, 1 \in Nat \ {0} DEF Link!Unread, Left

LEMMA LastOfThose ==
    ASSUME NEW n \in Nat, NEW indices \in SUBSET (1..n), indices # {}
    PROVE  Max(indices) \in indices /\ \A j \in indices : j <= Max(indices)
<1>1. \E i \in indices : \A j \in indices : j <= i
  BY Link!LastIndex, 1 \in Nat \ {0}
<1>2. \E i \in indices : \A j \in indices : i >= j
  BY <1>1
<1>3. Max(indices) \in indices /\ \A j \in indices : Max(indices) >= j
  BY <1>2 DEF Max
<1>. QED
  BY <1>3

\* What is known of a kind: the last chosen frame about it, or what was known before.
LEMMA KnownAfterThose ==
    ASSUME NEW frames, NEW chosen, NEW known, NEW k,
           frames \in Seq(Frame), chosen \subseteq DOMAIN frames
    PROVE  \/ k \notin DOMAIN known
           \/ \E i \in chosen :
                 /\ frames[i].kind = k
                 /\ AfterThose(known, frames, chosen)[k] = frames[i].value
                 /\ \A j \in chosen : frames[j].kind = k => j <= i
           \/ /\ \A i \in chosen : frames[i].kind # k
              /\ AfterThose(known, frames, chosen)[k] = known[k]
<1>. SUFFICES ASSUME k \in DOMAIN known
              PROVE  \/ \E i \in chosen :
                           /\ frames[i].kind = k
                           /\ AfterThose(known, frames, chosen)[k] = frames[i].value
                           /\ \A j \in chosen : frames[j].kind = k => j <= i
                     \/ /\ \A i \in chosen : frames[i].kind # k
                        /\ AfterThose(known, frames, chosen)[k] = known[k]
  OBVIOUS
<1>. DEFINE about == {i \in chosen : frames[i].kind = k}
<1>1. CASE about = {}
  BY <1>1 DEF AfterThose
<1>2. CASE about # {}
  <2>1. about \in SUBSET (1..Len(frames)) /\ Len(frames) \in Nat
    BY LenProperties
  <2>2. Max(about) \in about /\ \A j \in about : j <= Max(about)
    <3>. HIDE DEF about
    <3>. QED
      BY <1>2, <2>1, LastOfThose
  <2>5. AfterThose(known, frames, chosen)[k] = frames[Max(about)].value
    BY <1>2 DEF AfterThose, Newest
  <2>. QED
    BY <2>2, <2>5
<1>. QED
  BY <1>1, <1>2

LEMMA AfterThoseType ==
    ASSUME NEW frames \in Seq(Frame), NEW chosen \in SUBSET (DOMAIN frames),
           NEW D, NEW known \in [D -> Nat]
    PROVE  AfterThose(known, frames, chosen) \in [D -> Nat]
<1>1. ASSUME NEW k \in D PROVE AfterThose(known, frames, chosen)[k] \in Nat
  <2>1. \A i \in DOMAIN frames : frames[i].value \in Nat
    <3>1. \A i \in 1..Len(frames) : frames[i] \in Frame
      BY ElementOfSeq
    <3>. QED
      BY <3>1, LenProperties DEF Frame
  <2>2. k \in DOMAIN known /\ known[k] \in Nat
    OBVIOUS
  <2>. DEFINE value == AfterThose(known, frames, chosen)[k]
  <2>3. \/ \E i \in chosen :
              /\ frames[i].kind = k
              /\ value = frames[i].value
              /\ \A j \in chosen : frames[j].kind = k => j <= i
        \/ /\ \A i \in chosen : frames[i].kind # k
           /\ value = known[k]
    <3>. HIDE DEF Frame
    <3>. QED
      BY <2>2, KnownAfterThose
  <2>. HIDE DEF value
  <2>4. value \in Nat
    BY <2>1, <2>2, <2>3
  <2>. QED
    BY <2>4 DEF value
<1>2. AfterThose(known, frames, chosen)
        = [k \in D |-> AfterThose(known, frames, chosen)[k]]
  BY DEF AfterThose
<1>. QED
  BY <1>1, <1>2

\* Each frame says something about its kind.
LEMMA FrameTypes ==
    ASSUME down \in Seq(Frame)
    PROVE  /\ Len(down) \in Nat /\ DOMAIN down = 1..Len(down)
           /\ \A i \in DOMAIN down : /\ down[i] \in Frame
                                     /\ down[i].kind \in Kinds \cup {"version"}
                                     /\ down[i].value \in Nat /\ down[i].reply \in BOOLEAN
<1>1. Len(down) \in Nat /\ DOMAIN down = 1..Len(down)
  BY LenProperties
<1>2. \A i \in DOMAIN down : down[i] \in Frame
  BY <1>1, ElementOfSeq
<1>. QED
  BY <1>1, <1>2 DEF Frame

------------------------------------------------------------------------------
(* Types and stages: what an operation knows and shows while it waits.     *)

Starting == goal = "start" /\ pc # "idle"

Stages ==
    /\ pc # "connect" => tries = 0
    /\ pc \in {"idle", "connect", "identify", "write", "verify"} => setup = Nothing
    /\ pc \in {"identify", "battery", "anc"} => goal = "start"
    /\ pc \in {"codes", "subscribe", "drain"} => goal # "start"
    /\ goal \in {"write", "verify"} => pc \in {"idle", "connect", goal}
    /\ pc \in {"write", "verify"} => goal = pc
    /\ Starting => shown = Unread /\ ~codes
    /\ held /\ codes => session.codes

Typed == TypeOK /\ Owned /\ Stages

Known == [Kinds \cup {"version"} -> Nat]

LEMMA Constants ==
    /\ Unread \in [Kinds -> Nat] /\ Nothing \in Known
    /\ \A g \in Goals : Attempts[g] \in Nat /\ 0 < Attempts[g]
BY StartupAssumption DEF Unread, Nothing, Known

LEMMA WhatIsKnown ==
    ASSUME TypeOK
    PROVE  /\ \A n \in 0..Len(down) : /\ With(Taken(n)) \in Known
                                      /\ After(setup, Taken(n)) \in Known
                                      /\ After(Nothing, Taken(n)) \in Known
           /\ After(Nothing, down) \in Known
           /\ With(down) \in Known
<1>1. down \in Seq(Frame) /\ setup \in Known /\ Nothing \in Known
  BY Constants DEF TypeOK, Known
<1>2. ASSUME NEW frames \in Seq(Frame)
      PROVE  /\ With(frames) \in Known /\ After(setup, frames) \in Known
             /\ After(Nothing, frames) \in Known
  <2>1. Others(frames) \in SUBSET (DOMAIN frames) /\ DOMAIN frames \in SUBSET (DOMAIN frames)
    BY DEF Others
  <2>. QED
    BY <1>1, <2>1, AfterThoseType DEF With, After, Known
<1>3. ASSUME NEW n \in 0..Len(down) PROVE Taken(n) \in Seq(Frame)
  BY <1>1, TakenFrames
<1>. QED
  BY <1>1, <1>2, <1>3

\* Of a command that received too many events.
LEMMA CutKnown ==
    ASSUME TypeOK, NEW n \in 1..Len(down), NEW dropped \in 0..n
    PROVE  /\ AfterThose(Nothing, Taken(n), (dropped + 1)..n) \in Known
           /\ AfterThose(Nothing, Taken(n), 1..dropped) \in Known
<1>1. Nothing \in Known /\ n \in 0..Len(down)
  BY Constants, FrameTypes DEF TypeOK
<1>2. Taken(n) \in Seq(Frame) /\ DOMAIN Taken(n) = 1..n
  BY <1>1, TakenFrames DEF TypeOK
<1>3. (dropped + 1)..n \in SUBSET (1..n) /\ 1..dropped \in SUBSET (1..n)
  OBVIOUS
<1>. QED
  BY <1>1, <1>2, <1>3, AfterThoseType DEF Known

LEMMA AppliedType ==
    ASSUME NEW status \in [Kinds -> Nat], NEW news \in Known
    PROVE  Applied(status, news) \in [Kinds -> Nat]
BY DEF Applied, Known

LEMMA InitTyped == Init => Typed
<1>. SUFFICES ASSUME Init PROVE Typed
  OBVIOUS
<1>1. TypeOK
  <2>1. buds \in [Kinds -> Nat] /\ shown \in [Kinds -> Nat] /\ read \in [Kinds -> Nat]
        /\ setup \in Known
    BY Constants DEF Init
  <2>2. /\ subscribed \in BOOLEAN /\ running \in BOOLEAN /\ held \in BOOLEAN
        /\ codes \in BOOLEAN /\ firmware \in BOOLEAN
    BY DEF Init
  <2>3. 0 < Attempts["start"] /\ MaxChanges \in Nat
    BY Constants, StartupAssumption DEF Goals
  <2>. QED
    BY <2>1, <2>2, <2>3 DEF Init, TypeOK, Known, Goals, NoSession
<1>2. Stages
  BY DEF Init, Stages, Starting
<1>. QED
  BY <1>1, <1>2, InitOwned DEF Typed

\* Frames the earbuds send.
LEMMA FramesSent ==
    ASSUME TypeOK
    PROVE  /\ \A k \in Kinds :
                 LET news == News(k)
                     change == [News(k) EXCEPT !.value = @ + 1]
                     reply == [News(k) EXCEPT !.reply = TRUE]
                 IN
                 /\ {news, change, reply} \subseteq Frame
                 /\ news.kind = k /\ change.kind = k /\ reply.kind = k
                 /\ news.value = buds[k] /\ reply.value = buds[k]
                 /\ change.value = buds[k] + 1
                 /\ ~news.reply /\ ~change.reply
           /\ [kind |-> "version", value |-> 1, reply |-> TRUE] \in Frame
<1>1. ASSUME NEW k \in Kinds, NEW value \in Nat
      PROVE  LET news == [kind |-> k, value |-> value, reply |-> FALSE]
                 change == [news EXCEPT !.value = @ + 1]
                 reply == [news EXCEPT !.reply = TRUE]
             IN
             /\ news \in Frame /\ change \in Frame /\ reply \in Frame
             /\ news.kind = k /\ change.kind = k /\ reply.kind = k
             /\ news.value = value /\ reply.value = value
             /\ change.value = value + 1
             /\ ~news.reply /\ ~change.reply
  <2>. DEFINE news == [kind |-> k, value |-> value, reply |-> FALSE]
  <2>1. news \in Frame
    BY DEF Frame
  <2>2. [news EXCEPT !.value = @ + 1] \in Frame
    <3>1. \A next \in Nat : [news EXCEPT !.value = next] \in Frame
      BY DEF Frame
    <3>2. news.value + 1 \in Nat
      OBVIOUS
    <3>. QED
      BY <3>1, <3>2
  <2>3. [news EXCEPT !.reply = TRUE] \in Frame
    BY DEF Frame
  <2>. QED
    BY <2>1, <2>2, <2>3
<1>2. \A k \in Kinds : buds[k] \in Nat
  BY DEF TypeOK
<1>3. [kind |-> "version", value |-> 1, reply |-> TRUE] \in Frame
  BY DEF Frame
<1>. QED
  BY <1>1, <1>2, <1>3 DEF News

\* What the earbuds and other programs do.
LEMMA OutsideTyped ==
    ASSUME Typed, Outside \/ ChannelFreed
    PROVE  TypeOK' /\ Stages'
<1>. USE DEF Typed, op, ctl, earbuds, Starting
<1>0. \A frame \in Frame : Append(down, frame) \in Seq(Frame)
  <2>1. down \in Seq(Frame)
    BY DEF TypeOK
  <2>. QED
    BY <2>1, AppendProperties
<1>1. ASSUME NEW k \in Kinds, Change(k) PROVE TypeOK' /\ Stages'
  <2>1. [News(k) EXCEPT !.value = @ + 1] \in Frame
    BY FramesSent
  <2>2. down' \in Seq(Frame)
    BY <1>0, <1>1, <2>1 DEF Change, TypeOK
  <2>3. buds' \in [Kinds -> Nat]
    BY <1>1 DEF Change, TypeOK
  <2>4. changes' \in 0..MaxChanges /\ missed' \subseteq Kinds
    BY <1>1, StartupAssumption DEF Change, TypeOK
  <2>5. TypeOK'
    BY <1>1, <2>2, <2>3, <2>4 DEF Change, TypeOK
  <2>6. Stages'
    BY <1>1 DEF Change, Stages
  <2>. QED
    BY <2>5, <2>6
<1>2. ASSUME NEW k \in Kinds, Report(k) PROVE TypeOK' /\ Stages'
  <2>1. News(k) \in Frame
    BY FramesSent
  <2>2. down' \in Seq(Frame)
    BY <1>0, <1>2, <2>1 DEF Report, TypeOK
  <2>. QED
    BY <1>2, <2>2 DEF Report, TypeOK, Stages
<1>3. CASE Reply
  <2>1. [kind |-> "version", value |-> 1, reply |-> TRUE] \in Frame
    BY FramesSent
  <2>2. pc \in Essential => [News(pc) EXCEPT !.reply = TRUE] \in Frame
    BY FramesSent DEF Kinds
  <2>3. down' \in Seq(Frame)
    BY <1>0, <1>3, <2>1, <2>2 DEF Reply, TypeOK
  <2>. QED
    BY <1>3, <2>3 DEF Reply, TypeOK, Stages
<1>4. CASE OtherApplication BY <1>4 DEF OtherApplication, TypeOK, Stages
<1>5. CASE ChannelFreed BY <1>5 DEF ChannelFreed, TypeOK, Stages
<1>. QED
  BY <1>1, <1>2, <1>3, <1>4, <1>5 DEF Outside

\* A socket that is closed.
LEMMA ClosedType ==
    ASSUME TypeOK, Close
    PROVE  /\ channel' \in {"free", "ours", "closing", "other"} /\ subscribed' \in BOOLEAN
           /\ down' \in Seq(Frame) /\ buds' = buds /\ changes' = changes
<1>1. <<>> \in Seq(Frame)
  OBVIOUS
<1>2. subscribed' \in BOOLEAN
  BY DEF Close
<1>. QED
  BY <1>1, <1>2 DEF Close, TypeOK

\* What opens a socket, or closes one between operations.
LEMMA BeginsTyped ==
    ASSUME Typed, Begins
    PROVE  TypeOK' /\ Stages'
<1>. USE Constants, ClosedType
<1>. USE DEF Typed, op, ctl, earbuds, Starting, Known, NoSession, NowMissed
<1>1. CASE Start
  <2>1. TypeOK' BY <1>1 DEF Start, Cleared, Enter, TypeOK, Goals
  <2>2. Stages' BY <1>1 DEF Start, Cleared, Enter, Stages
  <2>. QED BY <2>1, <2>2
<1>2. CASE Shutdown
  <2>1. TypeOK' BY <1>2 DEF Shutdown, Cleared, Idle, TypeOK
  <2>2. Stages' BY <1>2 DEF Shutdown, Cleared, Idle, Stages
  <2>. QED BY <2>1, <2>2
<1>3. CASE StrengthWrite
  <2>1. TypeOK' BY <1>3 DEF StrengthWrite, Enter, TypeOK, Goals
  <2>2. Stages' BY <1>3 DEF StrengthWrite, Enter, Stages
  <2>. QED BY <2>1, <2>2
<1>4. CASE MainWriteReopens
  <2>1. TypeOK' BY <1>4 DEF MainWriteReopens, Enter, TypeOK, Goals
  <2>2. Stages' BY <1>4 DEF MainWriteReopens, Enter, Stages
  <2>. QED BY <2>1, <2>2
<1>5. CASE PollBegins
  <2>1. TypeOK' BY <1>5 DEF PollBegins, TypeOK, Goals, Waits, Stages
  <2>2. Stages' BY <1>5 DEF PollBegins, Stages, TypeOK
  <2>. QED BY <2>1, <2>2
<1>6. CASE CommandFails
  <2>0. shown' \in [Kinds -> Nat] BY <1>6 DEF CommandFails, TypeOK
  <2>1. TypeOK' BY <1>6, <2>0 DEF CommandFails, TypeOK
  <2>2. Stages' BY <1>6 DEF CommandFails, Stages
  <2>. QED BY <2>1, <2>2
<1>7. ASSUME NEW n \in 1..Len(down), CommandReads(n) PROVE TypeOK' /\ Stages'
  <2>1. down' \in Seq(Frame)
    BY <1>7, LeftFrames DEF CommandReads, TypeOK
  <2>2. PICK dropped \in 0..n :
           shown' = Applied(shown, AfterThose(Nothing, Taken(n), (dropped + 1)..n))
    BY <1>7 DEF CommandReads
  <2>3. shown' \in [Kinds -> Nat]
    <3>1. shown \in [Kinds -> Nat] BY DEF TypeOK
    <3>2. AfterThose(Nothing, Taken(n), (dropped + 1)..n) \in Known
      BY <1>7, CutKnown
    <3>3. Applied(shown, AfterThose(Nothing, Taken(n), (dropped + 1)..n)) \in [Kinds -> Nat]
      BY <3>1, <3>2, AppliedType
    <3>. QED BY <2>2, <3>3
  <2>4. firmware' \in BOOLEAN
    <3>1. \E dropped2 \in 0..n : firmware' = (firmware \/
             AfterThose(Nothing, Taken(n), (dropped2 + 1)..n)["version"] # 0)
      BY <1>7 DEF CommandReads
    <3>. QED BY <3>1
  <2>5. TypeOK' BY <1>7, <2>1, <2>3, <2>4, Constants DEF CommandReads, TypeOK, NowMissed
  <2>6. Stages' BY <1>7 DEF CommandReads, Stages
  <2>. QED BY <2>5, <2>6
<1>. QED
  BY <1>1, <1>2, <1>3, <1>4, <1>5, <1>6, <1>7 DEF Begins

LEMMA FailuresTyped ==
    ASSUME Typed, StartFails \/ PollFails \/ ReopenFails \/ StrengthWriteFails
    PROVE  TypeOK' /\ Stages'
<1>. USE Constants, ClosedType
<1>. USE DEF Typed, op, ctl, earbuds, Starting, Known, NoSession, NowMissed
<1>1. CASE StartFails
  <2>1. TypeOK' BY <1>1 DEF StartFails, Cleared, Idle, TypeOK
  <2>2. Stages' BY <1>1 DEF StartFails, Cleared, Idle, Stages
  <2>. QED BY <2>1, <2>2
<1>2. CASE PollFails
  <2>1. TypeOK' BY <1>2 DEF PollFails, Cleared, Enter, TypeOK, Goals
  <2>2. Stages' BY <1>2 DEF PollFails, Cleared, Enter, Stages
  <2>. QED BY <2>1, <2>2
<1>3. CASE ReopenFails
  <2>0. shown' \in [Kinds -> Nat] BY <1>3 DEF ReopenFails, TypeOK
  <2>1. TypeOK' BY <1>3, <2>0 DEF ReopenFails, Idle, TypeOK
  <2>2. ~held
    BY <1>3 DEF ReopenFails, MayFail, Owned, HeldByPolls, Waits
  <2>3. Stages' BY <1>3, <2>2 DEF ReopenFails, Idle, Stages
  <2>. QED BY <2>1, <2>3
<1>4. CASE StrengthWriteFails
  <2>1. TypeOK' BY <1>4 DEF StrengthWriteFails, Monitor, Enter, Idle, TypeOK, Goals
  <2>2. Stages' BY <1>4 DEF StrengthWriteFails, Monitor, Enter, Idle, Stages
  <2>. QED BY <2>1, <2>2
<1>. QED
  BY <1>1, <1>2, <1>3, <1>4

\* Attempts to connect, and the sockets of a strength write.
LEMMA SocketsTyped ==
    ASSUME Typed, Connected \/ Busy \/ Unsupported \/ Written \/ Verified
    PROVE  TypeOK' /\ Stages'
<1>. USE Constants, ClosedType
<1>. USE DEF Typed, op, ctl, earbuds, Starting, Known, NoSession, NowMissed
<1>1. CASE Connected
  <2>0. goal # "poll"
    BY <1>1 DEF Connected, Owned, OneOwner, HeldByPolls
  <2>1. TypeOK' BY <1>1, <2>0 DEF Connected, FirstWait, TypeOK, Goals, Waits
  <2>2. Stages' BY <1>1, <2>0 DEF Connected, FirstWait, Stages, TypeOK, Goals
  <2>. QED BY <2>1, <2>2
<1>2. CASE Busy
  <2>0. tries' < Attempts[goal]' BY <1>2 DEF Busy
  <2>1. TypeOK' BY <1>2, <2>0 DEF Busy, TypeOK
  <2>2. Stages' BY <1>2 DEF Busy, Stages
  <2>. QED BY <2>1, <2>2
<1>3. CASE Unsupported
  <2>1. TypeOK' BY <1>3 DEF Unsupported, Idle, TypeOK
  <2>2. Stages' BY <1>3 DEF Unsupported, Idle, Stages
  <2>. QED BY <2>1, <2>2
<1>4. CASE Written
  <2>1. TypeOK' BY <1>4 DEF Written, Enter, TypeOK, Goals
  <2>2. Stages' BY <1>4 DEF Written, Enter, Stages
  <2>. QED BY <2>1, <2>2
<1>5. CASE Verified
  <2>0. shown' \in [Kinds -> Nat]
    BY <1>5 DEF Verified, TypeOK, Kinds, Essential
  <2>1. TypeOK'
    <3>1. /\ setup' \in Known /\ goal' \in Goals /\ tries' < Attempts[goal]'
          /\ pc' \in {"idle", "connect"}
      BY <1>5 DEF Verified, Monitor, Enter, Idle, TypeOK, Goals
    <3>2. missed' \subseteq Kinds /\ UNCHANGED <<running, held, codes, firmware, session, read>>
      BY <1>5 DEF Verified, TypeOK
    <3>. QED BY <1>5, <2>0, <3>1, <3>2 DEF Verified, TypeOK
  <2>2. ~Starting BY <1>5 DEF Verified, Stages
  <2>3. Stages' BY <1>5, <2>2 DEF Verified, Monitor, Enter, Idle, Stages
  <2>. QED BY <2>1, <2>3
<1>. QED
  BY <1>1, <1>2, <1>3, <1>4, <1>5

\* The reply to an essential query is a reading.
LEMMA ReplyReceived ==
    ASSUME TypeOK, NEW n \in 0..Len(down), NEW kind \in Essential,
           \E i \in 1..n : down[i].reply /\ read' = [read EXCEPT ![kind] = down[i].value]
    PROVE  read' \in [Kinds -> Nat]
<1>1. down \in Seq(Frame) /\ read \in [Kinds -> Nat] /\ kind \in Kinds
  BY DEF TypeOK, Kinds
<1>2. \A i \in 1..n : down[i].value \in Nat
  BY <1>1, FrameTypes, TakenFrames
<1>. QED
  BY <1>1, <1>2

\* What is collected by an operation that goes on waiting.
LEMMA CollectsTyped ==
    ASSUME Typed, NEW n \in 0..Len(down), Collect(n), pc' \in Waits,
           UNCHANGED <<channel, buds, changes, goal, tries, running, held, shown, codes,
                       firmware, missed>>,
           subscribed' \in BOOLEAN, read' \in [Kinds -> Nat],
           session' \in [subscribe : BOOLEAN, version : {"none", "pending", "asked"},
                         codes : BOOLEAN]
    PROVE  TypeOK'
<1>1. down' \in Seq(Frame)
  BY LeftFrames DEF Collect, Typed, TypeOK
<1>2. setup' \in Known
  BY WhatIsKnown DEF Collect, Typed
<1>. QED
  BY <1>1, <1>2 DEF Typed, TypeOK, Known

LEMMA FinishTyped ==
    ASSUME Typed, NEW n \in 0..Len(down), NEW news \in Known, Finish(n, news),
           UNCHANGED <<channel, buds, changes, running, read>>,
           subscribed' \in BOOLEAN, codes' \in BOOLEAN, held' \in BOOLEAN,
           session' \in [subscribe : BOOLEAN, version : {"none", "pending", "asked"},
                         codes : BOOLEAN]
    PROVE  TypeOK'
<1>1. down' \in Seq(Frame)
  BY LeftFrames DEF Finish, Typed, TypeOK
<1>2. shown' \in [Kinds -> Nat]
  <2>1. shown \in [Kinds -> Nat]
    BY DEF Typed, TypeOK
  <2>. QED
    BY <2>1, AppliedType DEF Finish
<1>3. firmware' \in BOOLEAN
  BY DEF Finish
<1>4. setup' \in Known /\ tries' < Attempts[goal]' /\ pc' = "idle" /\ tries' \in Nat
      /\ goal' \in Goals /\ missed' \subseteq Kinds
  BY Constants DEF Finish, Idle, Typed, TypeOK, NowMissed
<1>. QED
  BY <1>1, <1>2, <1>3, <1>4 DEF Typed, TypeOK, Known

\* What is received, by bootstrap, by a poll, or by a reopening.
LEMMA ReceivesTyped ==
    ASSUME Typed, NEW n \in 0..Len(down),
           \/ Identify(n) \/ Authenticate(n) \/ ReceiveBattery(n) \/ ReceiveAnc(n)
           \/ ReceiveOthers(n) \/ NoCodes(n) \/ Codes(n) \/ Subscribed(n) \/ Drain(n)
    PROVE  TypeOK' /\ Stages'
<1>1. /\ subscribed \in BOOLEAN /\ codes \in BOOLEAN /\ held \in BOOLEAN
      /\ read \in [Kinds -> Nat] /\ shown \in [Kinds -> Nat] /\ down \in Seq(Frame)
      /\ session \in [subscribe : BOOLEAN, version : {"none", "pending", "asked"},
                      codes : BOOLEAN]
  BY DEF Typed, TypeOK
<1>. USE DEF op, ctl, earbuds, Starting, Waits
<1>2. CASE Identify(n)
  <2>1. down' \in Seq(Frame) BY <1>1, <1>2, LeftFrames DEF Identify
  <2>2. TypeOK' BY <1>2, <2>1 DEF Identify, Typed, TypeOK, NowMissed
  <2>3. Stages' BY <1>2 DEF Identify, Typed, Stages
  <2>. QED BY <2>2, <2>3
<1>3. CASE Authenticate(n)
  <2>1. TypeOK' BY <1>1, <1>3, CollectsTyped DEF Authenticate, Await
  <2>2. Stages' BY <1>3 DEF Authenticate, Await, Typed, Stages, Collect
  <2>. QED BY <2>1, <2>2
<1>4. CASE ReceiveBattery(n)
  <2>0. read' \in [Kinds -> Nat]
    BY <1>4, ReplyReceived DEF ReceiveBattery, Essential, Typed
  <2>1. TypeOK' BY <1>1, <1>4, <2>0, CollectsTyped DEF ReceiveBattery
  <2>2. Stages' BY <1>4 DEF ReceiveBattery, Typed, Stages, Collect
  <2>. QED BY <2>1, <2>2
<1>5. CASE ReceiveAnc(n)
  <2>1. read' \in [Kinds -> Nat]
    BY <1>5, ReplyReceived DEF ReceiveAnc, Essential, Typed
  <2>2. shown' \in [Kinds -> Nat]
    <3>1. With(Taken(n)) \in Known
      BY WhatIsKnown DEF Typed
    <3>. QED
      BY <1>5, <2>1, <3>1 DEF ReceiveAnc, Usable, Known
  <2>3. down' \in Seq(Frame) BY <1>1, <1>5, LeftFrames DEF ReceiveAnc
  <2>4. TypeOK' BY <1>5, <2>1, <2>2, <2>3, Constants
                DEF ReceiveAnc, Usable, Idle, Typed, TypeOK, NowMissed, Known
  <2>5. Stages' BY <1>5 DEF ReceiveAnc, Usable, Idle, Typed, Stages
  <2>. QED BY <2>4, <2>5
<1>6. CASE ReceiveOthers(n)
  <2>0. pc \in Waits BY <1>6 DEF ReceiveOthers, Essential
  <2>1. TypeOK' BY <1>1, <1>6, <2>0, CollectsTyped DEF ReceiveOthers, Await
  <2>2. Stages' BY <1>6 DEF ReceiveOthers, Await, Typed, Stages, Collect, Essential
  <2>. QED BY <2>1, <2>2
<1>7. CASE (NoCodes(n) \/ Subscribed(n)) /\ goal = "poll"
  <2>1. Collect(n) /\ Await("drain") /\ UNCHANGED subscribed
    BY <1>7 DEF NoCodes, Subscribed, Await
  <2>2. TypeOK'
    <3>1. /\ pc' \in Waits /\ read' \in [Kinds -> Nat] /\ subscribed' \in BOOLEAN
          /\ session' = session
          /\ UNCHANGED <<channel, buds, changes, goal, tries, running, held, shown, codes,
                         firmware, missed>>
      BY <1>1, <2>1 DEF Await
    <3>. QED BY <1>1, <2>1, <3>1, CollectsTyped
  <2>3. pc # "connect" BY <1>7 DEF NoCodes, Subscribed
  <2>4. Stages' BY <1>7, <2>1, <2>3 DEF Await, Typed, Stages
  <2>. QED BY <2>2, <2>4
<1>8. CASE (NoCodes(n) \/ Subscribed(n)) /\ goal # "poll"
  <2>1. PICK known \in BOOLEAN : Resumed(n, known) /\ UNCHANGED subscribed
    BY <1>8 DEF NoCodes, Subscribed
  <2>2. session' \in [subscribe : BOOLEAN, version : {"none", "pending", "asked"},
                      codes : BOOLEAN] /\ session'.codes = known
    BY <2>1 DEF Resumed, NoSession
  <2>3. After(setup, Taken(n)) \in Known BY WhatIsKnown DEF Typed
  <2>4. TypeOK'
    <3>1. /\ Finish(n, After(setup, Taken(n))) /\ held' = TRUE /\ codes' = known
          /\ UNCHANGED <<channel, buds, changes, running, read>>
      BY <2>1 DEF Resumed
    <3>. QED BY <1>1, <2>1, <2>2, <2>3, <3>1, FinishTyped
  <2>5. Stages' BY <2>1, <2>2 DEF Resumed, Finish, Idle, Typed, Stages
  <2>. QED BY <2>4, <2>5
<1>9. CASE Codes(n)
  <2>1. session' \in [subscribe : BOOLEAN, version : {"none", "pending", "asked"},
                      codes : BOOLEAN] /\ session'.codes = TRUE
    BY <1>1, <1>9 DEF Codes
  <2>2. TypeOK' BY <1>1, <1>9, <2>1, CollectsTyped DEF Codes
  <2>3. Stages' BY <1>9, <2>1 DEF Codes, Typed, Stages, Collect
  <2>. QED BY <2>2, <2>3
<1>10. CASE Drain(n)
  <2>1. session' \in [subscribe : BOOLEAN, version : {"none", "pending", "asked"},
                      codes : BOOLEAN] /\ session'.codes = session.codes
    BY <1>1, <1>10 DEF Drain
  <2>2. After(setup, Taken(n)) \in Known BY WhatIsKnown DEF Typed
  <2>3. TypeOK'
    <3>1. /\ Finish(n, After(setup, Taken(n))) /\ UNCHANGED <<held, codes, subscribed>>
          /\ UNCHANGED <<channel, buds, changes, running, read>>
      BY <1>10 DEF Drain
    <3>. QED BY <1>1, <2>1, <2>2, <3>1, FinishTyped
  <2>4. Stages' BY <1>10, <2>1 DEF Drain, Finish, Idle, Typed, Stages
  <2>. QED BY <2>3, <2>4
<1>. QED
  BY <1>2, <1>3, <1>4, <1>5, <1>6, <1>7, <1>8, <1>9, <1>10

LEMMA StepTyped ==
    ASSUME Typed, [Next]_vars
    PROVE  Typed'
<1>1. CASE Outside \/ ChannelFreed BY <1>1, OutsideTyped, StepOwned DEF Typed
<1>2. CASE Begins BY <1>2, BeginsTyped, StepOwned DEF Typed
<1>3. CASE Proceeds
  <2>1. CASE Connected \/ Busy \/ Unsupported \/ Written \/ Verified
    BY <2>1, SocketsTyped, StepOwned DEF Typed
  <2>2. CASE StartFails \/ PollFails \/ ReopenFails \/ StrengthWriteFails
    BY <2>2, FailuresTyped, StepOwned DEF Typed
  <2>3. ASSUME NEW n \in 0..Len(down),
               \/ Identify(n) \/ Authenticate(n) \/ ReceiveBattery(n) \/ ReceiveAnc(n)
               \/ NoCodes(n) \/ Codes(n) \/ Subscribed(n) \/ Drain(n)
        PROVE  Typed'
    BY <2>3, ReceivesTyped, StepOwned DEF Typed
  <2>. QED
    BY <1>3, <2>1, <2>2, <2>3 DEF Proceeds
<1>4. ASSUME NEW n \in 1..Len(down), ReceiveOthers(n) PROVE Typed'
  <2>1. Len(down) \in Nat
    BY FrameTypes DEF Typed, TypeOK
  <2>2. n \in 0..Len(down)
    BY <2>1
  <2>. QED
    BY <1>4, <2>2, ReceivesTyped, StepOwned DEF Typed
<1>5. ASSUME NEW n \in 0..Len(down), PollRaises(n) PROVE Typed'
  <2>1. down' \in Seq(Frame)
    BY <1>5, LeftFrames DEF PollRaises, Typed, TypeOK
  <2>2. /\ setup' \in Known /\ pc' = "idle" /\ tries' = 0 /\ 0 < Attempts[goal]
        /\ goal' = goal /\ goal \in Goals /\ missed' \subseteq Kinds
    BY <1>5, Constants DEF PollRaises, Idle, Typed, TypeOK, NowMissed
  <2>3. session' \in [subscribe : BOOLEAN, version : {"none", "pending", "asked"},
                      codes : BOOLEAN]
    BY <1>5 DEF PollRaises, Typed, TypeOK
  <2>4. TypeOK'
    BY <1>5, <2>1, <2>2, <2>3 DEF PollRaises, earbuds, Typed, TypeOK, Known
  <2>5. Stages'
    BY <1>5 DEF PollRaises, Idle, Typed, TypeOK, Stages, Starting
  <2>. QED
    BY <1>5, <2>4, <2>5, StepOwned DEF Typed, Next
<1>6. CASE UNCHANGED vars
  BY <1>6, StepOwned DEF vars, op, ctl, earbuds, Typed, TypeOK, Stages, Starting
<1>. QED
  BY <1>1, <1>2, <1>3, <1>4, <1>5, <1>6 DEF Next

\* Every variable keeps the type that the loops and the caches of the controller
\* rely on, and no goal is tried more often than its attempts allow.
THEOREM TypeCorrect == Spec => []TypeOK
<1>1. Typed => TypeOK
  BY DEF Typed
<1>. QED
  BY <1>1, InitTyped, StepTyped, PTL DEF Spec

\* The event codes shown while a session is held are that session's: they are cleared
\* whenever it is, and a reopened session brings its own or none.
THEOREM CodesAlwaysOfTheSession == Spec => []CodesAreOfTheSession
<1>1. Typed => CodesAreOfTheSession
  BY DEF Typed, Stages, CodesAreOfTheSession
<1>. QED
  BY <1>1, InitTyped, StepTyped, PTL DEF Spec

------------------------------------------------------------------------------
(* What is known of each kind.  Frames about it arrive in the order of the *)
(* changes, and none is older than what the operation has collected, what  *)
(* is shown, or what bootstrap has read; the last of them is current       *)
(* unless a change was missed; and with none on its way what the operation *)
(* knows, or else what is shown, is current unless a change was missed.    *)

IsAbout(i, k) == down[i].kind = k

\* A value that no frame after the first n contradicts.
Past(value, k, n) ==
    /\ value \in Nat
    /\ value <= buds[k]
    /\ \A i \in DOMAIN down : i > n /\ IsAbout(i, k) => value <= down[i].value

InOrder(k) ==
    /\ 1 <= buds[k]
    /\ Past(shown[k], k, 0) /\ Past(setup[k], k, 0) /\ Past(read[k], k, 0)
    /\ \A i \in DOMAIN down : IsAbout(i, k) =>
          1 <= down[i].value /\ Past(down[i].value, k, i)
    /\ k \in Essential => shown[k] = 0 \/ read[k] <= shown[k]
    /\ k \in Essential /\ ~Starting => setup[k] = 0 \/ read[k] <= setup[k]

IsLast(i, k) == IsAbout(i, k) /\ \A j \in DOMAIN down : j > i => ~IsAbout(j, k)

Arriving(k) ==
    \A i \in DOMAIN down : IsLast(i, k) => down[i].value = buds[k] \/ k \in missed

NoneAfter(n, k) == \A i \in DOMAIN down : i > n => ~IsAbout(i, k)

Arrived(k) ==
    NoneAfter(0, k) /\ ~(Starting /\ k \in Essential) =>
        \/ k \in missed
        \/ setup[k] = buds[k]
        \/ setup[k] = 0 /\ shown[k] \in {0, buds[k]}

Tracks(k) == InOrder(k) /\ Arriving(k) /\ Arrived(k)

\* A battery reading that the reply to the query is behind is dropped at the end of
\* bootstrap; until then it is among what was collected.
Replaced ==
    pc = "anc" =>
        \/ "battery" \in missed
        \/ ~NoneAfter(0, "battery")
        \/ setup["battery"] # 0
        \/ read["battery"] = buds["battery"]

\* One query is answered at a time.
OneReply == \A i, j \in DOMAIN down : down[i].reply /\ down[j].reply => i = j

Told == OneReply /\ Replaced /\ \A k \in Kinds : Tracks(k)

LEMMA Readings ==
    ASSUME TypeOK, NEW k \in Kinds
    PROVE  buds[k] \in Nat /\ shown[k] \in Nat /\ setup[k] \in Nat /\ read[k] \in Nat
BY DEF TypeOK

LEMMA InitTold == Init => Told
<1>. SUFFICES ASSUME Init PROVE Told
  OBVIOUS
<1>1. DOMAIN down = {} /\ pc = "idle"
  BY DEF Init
<1>2. \A k \in Kinds : buds[k] = 1 /\ shown[k] = 0 /\ setup[k] = 0 /\ read[k] = 0
  BY DEF Init, Unread, Nothing
<1>. QED
  BY <1>1, <1>2 DEF Told, OneReply, Replaced, Tracks, InOrder, Arriving, Arrived, Past

------------------------------------------------------------------------------
(* The earbuds send a frame.                                               *)

\* One frame more on its way, about the state as it is then.
Sends(frame) ==
    /\ down' = Append(down, frame)
    /\ DOMAIN down = 1..Len(down) /\ Len(down) \in Nat
    /\ DOMAIN down' = 1..(Len(down) + 1)
    /\ \A i \in DOMAIN down : down'[i] = down[i]
    /\ down'[Len(down) + 1] = frame

LEMMA FrameSent ==
    ASSUME TypeOK, NEW frame \in Frame, down' = Append(down, frame)
    PROVE  Sends(frame)
<1>1. down \in Seq(Frame)
  BY DEF TypeOK
<1>2. Len(down) \in Nat /\ DOMAIN down = 1..Len(down)
  BY <1>1, LenProperties
<1>. QED
  BY <1>1, <1>2, AppendProperties DEF Sends

LEMMA SentTracks ==
    ASSUME TypeOK, NEW k \in Kinds, Tracks(k), NEW frame \in Frame, Sends(frame),
           UNCHANGED <<shown, setup, read, missed, goal, pc>>,
           \/ frame.kind = k /\ buds'[k] \in Nat /\ frame.value = buds'[k] /\ buds[k] <= buds'[k]
           \/ frame.kind # k /\ buds'[k] = buds[k]
    PROVE  Tracks(k)'
<1>. DEFINE n == Len(down)
<1>1. /\ DOMAIN down = 1..n /\ n \in Nat /\ DOMAIN down' = 1..(n + 1)
      /\ \A i \in DOMAIN down : down'[i] = down[i]
      /\ down'[n + 1] = frame
  BY DEF Sends
<1>2. \A i \in DOMAIN down : down[i].value \in Nat
  BY FrameTypes DEF TypeOK
<1>3. frame.value \in Nat
  BY DEF Frame
<1>4. buds[k] \in Nat /\ shown[k] \in Nat /\ setup[k] \in Nat /\ read[k] \in Nat
  BY Readings
<1>. HIDE DEF n
<1>5. \A i \in DOMAIN down' : i = n + 1 \/ (i \in DOMAIN down /\ i < n + 1)
  <2>1. ASSUME NEW i \in 1..(n + 1) PROVE i = n + 1 \/ (i \in 1..n /\ i < n + 1)
    BY <1>1
  <2>. QED
    BY <1>1, <2>1
<1>6. buds'[k] \in Nat /\ buds[k] <= buds'[k] /\ Starting' = Starting
  BY <1>4 DEF Starting
<1>7. ASSUME NEW value, NEW m \in Nat, Past(value, k, m) PROVE Past(value, k, m)'
  BY <1>1, <1>3, <1>4, <1>5, <1>6, <1>7 DEF Past, IsAbout
<1>8. InOrder(k)'
  <2>1. Past(shown[k], k, 0)' /\ Past(setup[k], k, 0)' /\ Past(read[k], k, 0)'
    BY <1>7 DEF Tracks, InOrder
  <2>2. ASSUME NEW i \in DOMAIN down', IsAbout(i, k)'
        PROVE  (1 <= down[i].value /\ Past(down[i].value, k, i))'
    <3>1. CASE i \in DOMAIN down
      BY <1>1, <1>7, <2>2, <3>1 DEF Tracks, InOrder, IsAbout
    <3>2. CASE i = n + 1
      <4>1. frame.kind = k /\ frame.value = buds'[k] /\ 1 <= buds'[k]
        BY <1>1, <1>4, <1>6, <2>2, <3>2 DEF IsAbout, Tracks, InOrder
      <4>. QED
        BY <1>1, <1>3, <1>5, <1>6, <3>2, <4>1 DEF Past, IsAbout
    <3>. QED
      BY <1>5, <3>1, <3>2
  <2>3. 1 <= buds'[k]
    BY <1>4, <1>6 DEF Tracks, InOrder
  <2>4. /\ k \in Essential => shown'[k] = 0 \/ read'[k] <= shown'[k]
        /\ k \in Essential /\ ~Starting' => setup'[k] = 0 \/ read'[k] <= setup'[k]
    BY <1>6 DEF Tracks, InOrder
  <2>. QED
    BY <2>1, <2>2, <2>3, <2>4 DEF InOrder
<1>9. CASE frame.kind = k
  <2>1. Arriving(k)'
    BY <1>1, <1>5, <1>9 DEF Arriving, IsLast, IsAbout
  <2>2. Arrived(k)'
    BY <1>1, <1>9 DEF Arrived, NoneAfter, IsAbout
  <2>. QED
    BY <1>8, <2>1, <2>2 DEF Tracks
<1>10. CASE frame.kind # k
  <2>1. buds'[k] = buds[k]
    BY <1>10
  <2>2. \A i \in DOMAIN down' : IsLast(i, k)' => i \in DOMAIN down /\ IsLast(i, k)
    BY <1>1, <1>5, <1>10 DEF IsLast, IsAbout
  <2>3. Arriving(k)'
    BY <1>1, <2>1, <2>2 DEF Arriving, Tracks
  <2>4. NoneAfter(0, k)' => NoneAfter(0, k)
    BY <1>1, <1>5 DEF NoneAfter, IsAbout
  <2>5. Arrived(k)'
    BY <1>6, <2>1, <2>4 DEF Arrived, Tracks
  <2>. QED
    BY <1>8, <2>3, <2>5 DEF Tracks
<1>. QED
  BY <1>9, <1>10

------------------------------------------------------------------------------
(* Frames are taken, or lost with the socket.                              *)

\* The first n frames are no longer on their way.
Takes(n) ==
    /\ n \in Nat /\ n <= Len(down) /\ Len(down) \in Nat /\ DOMAIN down = 1..Len(down)
    /\ DOMAIN down' = 1..(Len(down) - n)
    /\ \A i \in DOMAIN down' : down'[i] = down[n + i] /\ n + i \in DOMAIN down

LEMMA LeftTakes ==
    ASSUME TypeOK, NEW n \in 0..Len(down), Left(n)
    PROVE  Takes(n)
<1>1. down \in Seq(Frame)
  BY DEF TypeOK
<1>2. Len(down) \in Nat /\ DOMAIN down = 1..Len(down)
  BY <1>1, LenProperties
<1>. QED
  BY <1>1, <1>2, LeftFrames DEF Takes

LEMMA CloseTakes ==
    ASSUME TypeOK, down' = <<>>
    PROVE  Takes(Len(down)) /\ DOMAIN down' = {}
<1>1. down \in Seq(Frame)
  BY DEF TypeOK
<1>2. Len(down) \in Nat /\ DOMAIN down = 1..Len(down)
  BY <1>1, LenProperties
<1>3. DOMAIN down' = {} /\ 1..(Len(down) - Len(down)) = {}
  BY <1>2
<1>. QED
  BY <1>2, <1>3 DEF Takes

\* Zero, the values known, and those of the frames taken are past.
LEMMA PastValues ==
    ASSUME TypeOK, NEW k \in Kinds, InOrder(k), NEW n \in Nat
    PROVE  /\ Past(0, k, n) /\ Past(shown[k], k, n) /\ Past(setup[k], k, n)
           /\ Past(read[k], k, n)
           /\ \A i \in DOMAIN down : i <= n /\ IsAbout(i, k) => Past(down[i].value, k, n)
<1>1. Len(down) \in Nat /\ DOMAIN down = 1..Len(down)
      /\ \A i \in DOMAIN down : down[i].value \in Nat
  BY FrameTypes DEF TypeOK
<1>2. buds[k] \in Nat
  BY Readings
<1>. QED
  BY <1>1, <1>2 DEF InOrder, Past

\* What is needed for the frames that are left and the values that are kept.
LEMMA TakenTracks ==
    ASSUME TypeOK, NEW k \in Kinds, Tracks(k), NEW n \in Nat, Takes(n), buds' = buds,
           Past(shown'[k], k, n), Past(setup'[k], k, n), Past(read'[k], k, n),
           k \in Essential => shown'[k] = 0 \/ read'[k] <= shown'[k],
           k \in Essential /\ ~Starting' => setup'[k] = 0 \/ read'[k] <= setup'[k],
           k \in missed => k \in missed' \/ shown'[k] = buds[k] \/ NoneAfter(n, k),
           NoneAfter(n, k) /\ ~(Starting' /\ k \in Essential) =>
               \/ k \in missed'
               \/ setup'[k] = buds[k]
               \/ setup'[k] = 0 /\ shown'[k] \in {0, buds[k]}
    PROVE  Tracks(k)'
<1>1. /\ n <= Len(down) /\ Len(down) \in Nat /\ DOMAIN down = 1..Len(down)
      /\ DOMAIN down' = 1..(Len(down) - n)
      /\ \A i \in DOMAIN down' : down'[i] = down[n + i] /\ n + i \in DOMAIN down
  BY DEF Takes
<1>2. /\ \A i \in DOMAIN down : down[i].value \in Nat
      /\ buds[k] \in Nat
  BY FrameTypes, Readings DEF TypeOK
<1>3. \A i \in DOMAIN down' : i \in Nat /\ i > 0 /\ n + i > n
  BY <1>1
<1>4. \A i \in DOMAIN down : i > n => i - n \in DOMAIN down' /\ down'[i - n] = down[i]
  <2>1. ASSUME NEW i \in DOMAIN down, i > n PROVE i - n \in DOMAIN down' /\ n + (i - n) = i
    BY <1>1, <2>1
  <2>. QED
    BY <1>1, <2>1
<1>5. ASSUME NEW value, Past(value, k, n) PROVE Past(value, k, 0)'
  BY <1>1, <1>3, <1>5 DEF Past, IsAbout
<1>6. InOrder(k)'
  <2>1. ASSUME NEW i \in DOMAIN down', IsAbout(i, k)'
        PROVE  (1 <= down[i].value /\ Past(down[i].value, k, i))'
    <3>1. n + i \in DOMAIN down /\ IsAbout(n + i, k) /\ down'[i] = down[n + i]
      BY <1>1, <2>1 DEF IsAbout
    <3>2. 1 <= down[n + i].value /\ Past(down[n + i].value, k, n + i)
      BY <3>1 DEF Tracks, InOrder
    <3>3. \A j \in DOMAIN down' : j > i => n + j > n + i
      BY <1>1, <1>3
    <3>4. Past(down[i].value, k, i)'
      BY <1>1, <3>1, <3>2, <3>3 DEF Past, IsAbout
    <3>. QED
      BY <3>1, <3>2, <3>4
  <2>2. 1 <= buds'[k]
    BY DEF Tracks, InOrder
  <2>3. Past(shown[k], k, 0)' /\ Past(setup[k], k, 0)' /\ Past(read[k], k, 0)'
    BY <1>5
  <2>. QED
    BY <2>1, <2>2, <2>3 DEF InOrder
<1>7. Arriving(k)'
  <2>. SUFFICES ASSUME NEW i \in DOMAIN down', IsLast(i, k)'
                PROVE  down'[i].value = buds[k] \/ k \in missed'
    BY DEF Arriving
  <2>1. n + i \in DOMAIN down /\ down'[i] = down[n + i]
    BY <1>1
  <2>2. IsLast(n + i, k)
    <3>1. ASSUME NEW j \in DOMAIN down, j > n + i PROVE ~IsAbout(j, k)
      <4>1. j > n /\ j - n > i
        BY <1>1, <1>3, <3>1
      <4>. QED
        BY <1>4, <4>1 DEF IsLast, IsAbout
    <3>. QED
      BY <2>1, <3>1 DEF IsLast, IsAbout
  <2>3. down[n + i].value = buds[k] \/ k \in missed
    BY <2>1, <2>2 DEF Tracks, Arriving
  <2>4. ASSUME shown'[k] = buds[k] PROVE down'[i].value = buds[k]
    <3>1. n + i > n /\ IsAbout(n + i, k)
      BY <1>3, <2>2 DEF IsLast
    <3>2. buds[k] <= down[n + i].value
      BY <2>1, <2>4, <3>1 DEF Past
    <3>3. down[n + i].value <= buds[k]
      BY <2>1, <3>1 DEF Tracks, InOrder, Past
    <3>. QED
      BY <1>2, <2>1, <3>2, <3>3
  <2>5. ~NoneAfter(n, k)
    BY <1>3, <2>1, <2>2 DEF IsLast, NoneAfter
  <2>. QED
    BY <2>1, <2>3, <2>4, <2>5
<1>8. Arrived(k)'
  <2>1. NoneAfter(0, k)' => NoneAfter(n, k)
    <3>1. \A i \in DOMAIN down : i > n => i - n > 0
      BY <1>1
    <3>. QED
      BY <1>4, <3>1 DEF NoneAfter, IsAbout
  <2>. QED
    BY <2>1 DEF Arrived
<1>. QED
  BY <1>6, <1>7, <1>8 DEF Tracks

\* The value is what is known of a kind after the first n frames.
Learnt(value, k, n) ==
    \/ \E i \in DOMAIN down :
          /\ i <= n
          /\ IsAbout(i, k)
          /\ value = down[i].value
          /\ \A j \in DOMAIN down : j <= n /\ IsAbout(j, k) => j <= i
    \/ /\ \A j \in DOMAIN down : j <= n => ~IsAbout(j, k)
       /\ value = setup[k]

LEMMA LearntAfter ==
    ASSUME TypeOK, NEW k \in Kinds, NEW n \in 0..Len(down),
           NEW frames, NEW chosen, NEW known,
           frames \in Seq(Frame), DOMAIN frames = 1..n, \A i \in 1..n : frames[i] = down[i],
           chosen \subseteq DOMAIN frames, \A i \in 1..n : IsAbout(i, k) => i \in chosen,
           known \in Known, known[k] = setup[k]
    PROVE  Learnt(AfterThose(known, frames, chosen)[k], k, n)
<1>. DEFINE value == AfterThose(known, frames, chosen)[k]
<1>1. DOMAIN down = 1..Len(down) /\ Len(down) \in Nat
  BY FrameTypes DEF TypeOK
<1>2. k \in DOMAIN known
  BY DEF Known
<1>3. \/ \E i \in chosen :
            /\ frames[i].kind = k
            /\ value = frames[i].value
            /\ \A j \in chosen : frames[j].kind = k => j <= i
      \/ /\ \A i \in chosen : frames[i].kind # k
         /\ value = known[k]
  BY <1>2, KnownAfterThose
<1>. HIDE DEF value
<1>4. \A j \in DOMAIN down : j <= n <=> j \in 1..n
  BY <1>1
<1>5. \A i \in chosen : i \in 1..n /\ i \in DOMAIN down /\ frames[i] = down[i]
  BY <1>1
<1>6. CASE \E i \in chosen : /\ frames[i].kind = k
                             /\ value = frames[i].value
                             /\ \A j \in chosen : frames[j].kind = k => j <= i
  <2>1. PICK i \in chosen : /\ frames[i].kind = k
                            /\ value = frames[i].value
                            /\ \A j \in chosen : frames[j].kind = k => j <= i
    BY <1>6
  <2>2. i \in DOMAIN down /\ i <= n /\ IsAbout(i, k) /\ value = down[i].value
    BY <1>4, <1>5, <2>1 DEF IsAbout
  <2>3. ASSUME NEW j \in DOMAIN down, j <= n, IsAbout(j, k) PROVE j <= i
    <3>1. j \in chosen
      BY <1>4, <2>3
    <3>2. frames[j].kind = k
      BY <1>5, <2>3, <3>1 DEF IsAbout
    <3>. QED
      BY <2>1, <3>1, <3>2
  <2>. QED
    BY <2>2, <2>3 DEF Learnt, value
<1>7. CASE value = known[k] /\ \A i \in chosen : frames[i].kind # k
  <2>1. \A j \in DOMAIN down : j <= n => ~IsAbout(j, k)
    BY <1>4, <1>5, <1>7 DEF IsAbout
  <2>. QED
    BY <1>7, <2>1 DEF Learnt, value
<1>. QED
  BY <1>3, <1>6, <1>7

LEMMA LearntByAll ==
    ASSUME Typed, NEW k \in Kinds, NEW n \in 0..Len(down)
    PROVE  /\ Learnt(After(setup, Taken(n))[k], k, n)
           /\ setup = Nothing => Learnt(After(Nothing, Taken(n))[k], k, n)
           /\ pc # k => Learnt(With(Taken(n))[k], k, n)
<1>. DEFINE frames == Taken(n)
<1>1. TypeOK /\ down \in Seq(Frame) /\ setup \in Known /\ Nothing \in Known
  BY Constants DEF Typed, TypeOK, Known
<1>2. /\ frames \in Seq(Frame) /\ DOMAIN frames = 1..n
      /\ \A i \in 1..n : frames[i] = down[i]
  BY <1>1, TakenFrames
<1>. HIDE DEF frames
<1>3. Learnt(AfterThose(setup, frames, DOMAIN frames)[k], k, n)
  BY <1>1, <1>2, LearntAfter
<1>4. setup = Nothing => Learnt(AfterThose(Nothing, frames, DOMAIN frames)[k], k, n)
  BY <1>3
<1>5. ASSUME pc # k PROVE Learnt(AfterThose(setup, frames, Others(frames))[k], k, n)
  <2>1. Others(frames) \subseteq DOMAIN frames
    BY DEF Others
  <2>2. \A i \in 1..n : IsAbout(i, k) => i \in Others(frames)
    BY <1>2, <1>5 DEF Others, IsAbout
  <2>. QED
    BY <1>1, <1>2, <2>1, <2>2, LearntAfter
<1>. QED
  BY <1>3, <1>4, <1>5 DEF After, With, frames

LEMMA AllTaken ==
    ASSUME TypeOK
    PROVE  Taken(Len(down)) = down /\ Len(down) \in 0..Len(down)
<1>1. down \in Seq(Frame)
  BY DEF TypeOK
<1>2. Len(down) \in Nat /\ Len(down) \in 0..Len(down) /\ DOMAIN down = 1..Len(down)
  BY <1>1, LenProperties
<1>3. DOMAIN Taken(Len(down)) = 1..Len(down)
      /\ Taken(Len(down)) \in Seq(Frame)
      /\ \A i \in 1..Len(down) : Taken(Len(down))[i] = down[i]
  BY <1>1, <1>2, TakenFrames
<1>4. Len(Taken(Len(down))) = Len(down)
  BY <1>2, <1>3, LenProperties
<1>. QED
  BY <1>1, <1>2, <1>3, <1>4, SeqEqual

LEMMA LearntValue ==
    ASSUME Typed, NEW k \in Kinds, Tracks(k), NEW n \in Nat, NEW value, Learnt(value, k, n)
    PROVE  /\ Past(value, k, n)
           /\ k \in Essential /\ ~Starting => value = 0 \/ read[k] <= value
           /\ value = 0 => setup[k] = 0
           /\ NoneAfter(n, k) /\ ~(Starting /\ k \in Essential) =>
                 k \in missed \/ value = buds[k] \/ (value = 0 /\ shown[k] \in {0, buds[k]})
<1>1. /\ Len(down) \in Nat /\ DOMAIN down = 1..Len(down)
      /\ \A i \in DOMAIN down : down[i].value \in Nat
  BY FrameTypes DEF Typed, TypeOK
<1>2. buds[k] \in Nat /\ setup[k] \in Nat /\ read[k] \in Nat
  BY Readings DEF Typed
<1>3. CASE \E i \in DOMAIN down :
              /\ i <= n
              /\ IsAbout(i, k)
              /\ value = down[i].value
              /\ \A j \in DOMAIN down : j <= n /\ IsAbout(j, k) => j <= i
  <2>1. PICK i \in DOMAIN down : /\ i <= n
                                 /\ IsAbout(i, k)
                                 /\ value = down[i].value
                                 /\ \A j \in DOMAIN down : j <= n /\ IsAbout(j, k) => j <= i
    BY <1>3
  <2>2. Past(value, k, n)
    BY <2>1, PastValues DEF Tracks, Typed
  <2>3. 1 <= value /\ value \in Nat /\ read[k] <= value
    BY <1>1, <2>1 DEF Tracks, InOrder, Past
  <2>4. ASSUME NoneAfter(n, k) PROVE k \in missed \/ value = buds[k]
    <3>1. IsLast(i, k)
      <4>1. ASSUME NEW j \in DOMAIN down, j > i PROVE ~IsAbout(j, k)
        BY <1>1, <2>1, <2>4, <4>1 DEF NoneAfter
      <4>. QED
        BY <2>1, <4>1 DEF IsLast
    <3>. QED
      BY <2>1, <3>1 DEF Tracks, Arriving
  <2>. QED
    BY <2>2, <2>3, <2>4
<1>4. CASE value = setup[k] /\ \A j \in DOMAIN down : j <= n => ~IsAbout(j, k)
  <2>1. Past(value, k, n)
    BY <1>4, PastValues DEF Tracks, Typed
  <2>2. NoneAfter(n, k) => NoneAfter(0, k)
    BY <1>1, <1>4 DEF NoneAfter
  <2>3. NoneAfter(n, k) /\ ~(Starting /\ k \in Essential) =>
           k \in missed \/ value = buds[k] \/ (value = 0 /\ shown[k] \in {0, buds[k]})
    BY <1>4, <2>2 DEF Tracks, Arrived
  <2>. QED
    BY <1>4, <2>1, <2>3 DEF Tracks, InOrder
<1>. QED
  BY <1>3, <1>4 DEF Learnt

\* What the taken frames say is collected, applied, or lost.
LEMMA CollectTracks ==
    ASSUME Typed, NEW k \in Kinds, Tracks(k), NEW n \in 0..Len(down), Collect(n),
           UNCHANGED <<buds, shown, missed, goal>>, pc # "idle", pc' # "idle",
           pc \in Essential => Starting,
           read'[k] = read[k] \/ (Starting /\ Past(read'[k], k, n))
    PROVE  Tracks(k)'
<1>1. TypeOK /\ n \in Nat /\ Takes(n) /\ setup'[k] = With(Taken(n))[k]
  BY LeftTakes DEF Typed, Collect
<1>2. Starting' = Starting /\ (Starting => shown[k] = 0)
  BY DEF Starting, Typed, Stages, Unread
<1>3. Past(shown'[k], k, n) /\ Past(read'[k], k, n)
  BY <1>1, PastValues DEF Tracks
<1>4. k \in Essential => shown'[k] = 0 \/ read'[k] <= shown'[k]
  BY <1>2 DEF Tracks, InOrder
<1>5. CASE pc # k
  <2>1. Learnt(setup'[k], k, n)
    BY <1>1, <1>5, LearntByAll
  <2>2. /\ Past(setup'[k], k, n)
        /\ k \in Essential /\ ~Starting => setup'[k] = 0 \/ read[k] <= setup'[k]
        /\ setup'[k] = 0 => setup[k] = 0
        /\ NoneAfter(n, k) /\ ~(Starting /\ k \in Essential) =>
             k \in missed \/ setup'[k] = buds[k] \/ (setup'[k] = 0 /\ shown[k] \in {0, buds[k]})
    BY <1>1, <2>1, LearntValue
  <2>. QED
    BY <1>1, <1>2, <1>3, <1>4, <2>2, TakenTracks
<1>6. CASE pc = k
  <2>1. k \in Essential /\ Starting
    BY <1>6 DEF Typed, TypeOK, Waits, Kinds
  <2>2. Past(setup'[k], k, n)
    <3>1. Taken(n) \in Seq(Frame) /\ DOMAIN Taken(n) = 1..n
          /\ \A i \in 1..n : Taken(n)[i] = down[i] /\ i \in DOMAIN down
      BY <1>1, TakenFrames DEF TypeOK
    <3>2. Others(Taken(n)) \subseteq DOMAIN Taken(n) /\ k \in DOMAIN setup
      BY <1>1 DEF Others, TypeOK
    <3>3. \/ \E i \in Others(Taken(n)) :
                /\ Taken(n)[i].kind = k
                /\ AfterThose(setup, Taken(n), Others(Taken(n)))[k] = Taken(n)[i].value
          \/ AfterThose(setup, Taken(n), Others(Taken(n)))[k] = setup[k]
      BY <3>1, <3>2, KnownAfterThose
    <3>4. \/ \E i \in 1..n : i \in DOMAIN down /\ IsAbout(i, k) /\ setup'[k] = down[i].value
          \/ setup'[k] = setup[k]
      BY <1>1, <3>1, <3>2, <3>3 DEF With, IsAbout
    <3>5. \A i \in 1..n : i <= n
      BY <1>1
    <3>. QED
      BY <1>1, <3>4, <3>5, PastValues DEF Tracks
  <2>. QED
    BY <1>1, <1>2, <1>3, <1>4, <2>1, <2>2, TakenTracks
<1>. QED
  BY <1>5, <1>6

LEMMA FinishTracks ==
    ASSUME Typed, NEW k \in Kinds, Tracks(k), NEW n \in 0..Len(down), NEW news,
           Finish(n, news), Learnt(news[k], k, n), ~Starting, UNCHANGED <<buds, read>>
    PROVE  Tracks(k)'
<1>1. TypeOK /\ n \in Nat /\ Takes(n) /\ buds[k] \in Nat /\ shown[k] \in Nat
  BY LeftTakes, Readings DEF Typed, Finish
<1>2. shown'[k] = (IF news[k] = 0 THEN shown[k] ELSE news[k]) /\ setup'[k] = 0
  BY DEF Finish, Applied, Idle, Nothing
<1>3. /\ Past(news[k], k, n)
      /\ k \in Essential => news[k] = 0 \/ read[k] <= news[k]
      /\ NoneAfter(n, k) =>
            k \in missed \/ news[k] = buds[k] \/ (news[k] = 0 /\ shown[k] \in {0, buds[k]})
  BY <1>1, LearntValue
<1>4. k \in missed => k \in missed' \/ shown'[k] = buds[k]
  BY DEF Finish, NowMissed
<1>5. Past(shown'[k], k, n) /\ Past(setup'[k], k, n) /\ Past(read'[k], k, n)
  BY <1>1, <1>2, <1>3, PastValues DEF Tracks
<1>6. k \in Essential => shown'[k] = 0 \/ read'[k] <= shown'[k]
  BY <1>2, <1>3 DEF Tracks, InOrder
<1>7. NoneAfter(n, k) =>
          k \in missed' \/ (setup'[k] = 0 /\ shown'[k] \in {0, buds[k]})
  <2>1. 1 <= buds[k]
    BY DEF Tracks, InOrder
  <2>. QED
    BY <1>1, <1>2, <1>3, <1>4, <2>1
<1>. QED
  BY <1>1, <1>2, <1>4, <1>5, <1>6, <1>7, TakenTracks

LEMMA LossTracks ==
    ASSUME Typed, NEW k \in Kinds, Tracks(k), NEW n \in Nat, Takes(n), NEW lost,
           NowMissed(lost, shown'), Learnt(lost[k], k, n),
           setup' = Nothing, UNCHANGED <<buds, read>>, Starting => Starting',
           \/ shown'[k] \in {0, shown[k]}
           \/ shown'[k] = buds[k] /\ NoneAfter(n, k)
    PROVE  Tracks(k)'
<1>1. TypeOK /\ buds[k] \in Nat /\ shown[k] \in Nat /\ setup'[k] = 0
  BY Readings DEF Typed, Nothing
<1>2. NoneAfter(n, k) /\ ~(Starting /\ k \in Essential) =>
          k \in missed \/ lost[k] = buds[k] \/ (lost[k] = 0 /\ shown[k] \in {0, buds[k]})
  BY LearntValue
<1>3. /\ k \in missed => k \in missed' \/ shown'[k] = buds[k]
      /\ lost[k] # 0 => k \in missed' \/ shown'[k] = buds[k]
  BY DEF NowMissed
<1>4. Past(shown'[k], k, n) /\ Past(setup'[k], k, n) /\ Past(read'[k], k, n)
  <2>1. NoneAfter(n, k) => Past(buds[k], k, n)
    BY <1>1 DEF Past, NoneAfter
  <2>. QED
    BY <1>1, <2>1, PastValues DEF Tracks
<1>5. k \in Essential => shown'[k] = 0 \/ read'[k] <= shown'[k]
  BY DEF Tracks, InOrder, Past
<1>6. 1 <= buds[k]
  BY DEF Tracks, InOrder
<1>7. NoneAfter(n, k) /\ ~(Starting' /\ k \in Essential) =>
          k \in missed' \/ (setup'[k] = 0 /\ shown'[k] \in {0, buds[k]})
  BY <1>1, <1>2, <1>3, <1>6
<1>. QED
  BY <1>1, <1>3, <1>4, <1>5, <1>7, TakenTracks

\* What is applied after a cut is the last of the taken frames about a kind, unless that
\* was cut off.
LEMMA CutLearnt ==
    ASSUME Typed, setup = Nothing, NEW k \in Kinds, NEW n \in 1..Len(down),
           NEW dropped \in 0..n, NEW news, NEW lost,
           news = AfterThose(Nothing, Taken(n), (dropped + 1)..n),
           lost = AfterThose(Nothing, Taken(n), 1..dropped)
    PROVE  Learnt(news[k], k, n) \/ (news[k] = 0 /\ Learnt(lost[k], k, n))
<1>. DEFINE frames == Taken(n)
            kept == (dropped + 1)..n
<1>1. /\ TypeOK /\ n \in 0..Len(down) /\ n \in Nat /\ DOMAIN down = 1..Len(down)
      /\ down \in Seq(Frame) /\ Nothing \in Known /\ k \in DOMAIN Nothing
      /\ setup[k] = 0 /\ Nothing[k] = 0
  BY Constants, FrameTypes DEF Typed, TypeOK, Nothing
<1>2. /\ frames \in Seq(Frame) /\ DOMAIN frames = 1..n
      /\ \A i \in 1..n : frames[i] = down[i] /\ i \in DOMAIN down
  BY <1>1, TakenFrames
<1>3. kept \subseteq DOMAIN frames /\ 1..dropped \subseteq DOMAIN frames
  BY <1>2
<1>. HIDE DEF frames
<1>4. \/ \E i \in kept : /\ frames[i].kind = k
                         /\ news[k] = frames[i].value
                         /\ \A j \in kept : frames[j].kind = k => j <= i
      \/ /\ \A i \in kept : frames[i].kind # k
         /\ news[k] = 0
  BY <1>1, <1>2, <1>3, KnownAfterThose DEF frames
<1>5. CASE \E i \in kept : /\ frames[i].kind = k
                          /\ news[k] = frames[i].value
                          /\ \A j \in kept : frames[j].kind = k => j <= i
  <2>1. PICK i \in kept : /\ frames[i].kind = k
                          /\ news[k] = frames[i].value
                          /\ \A j \in kept : frames[j].kind = k => j <= i
    BY <1>5
  <2>2. i \in DOMAIN down /\ i <= n /\ IsAbout(i, k) /\ news[k] = down[i].value
    BY <1>2, <2>1 DEF IsAbout
  <2>3. ASSUME NEW j \in DOMAIN down, j <= n, IsAbout(j, k) PROVE j <= i
    <3>1. CASE j \in kept
      BY <1>2, <2>1, <2>3, <3>1 DEF IsAbout
    <3>2. CASE j \notin kept
      BY <1>1, <2>1, <2>3, <3>2
    <3>. QED
      BY <3>1, <3>2
  <2>. QED
    BY <2>2, <2>3 DEF Learnt
<1>6. CASE news[k] = 0 /\ \A i \in kept : frames[i].kind # k
  <2>1. \A i \in 1..n : IsAbout(i, k) => i \in 1..dropped
    BY <1>2, <1>6 DEF IsAbout
  <2>2. Learnt(AfterThose(Nothing, frames, 1..dropped)[k], k, n)
    BY <1>1, <1>2, <1>3, <2>1, LearntAfter
  <2>. QED
    BY <1>6, <2>2 DEF frames
<1>. QED
  BY <1>4, <1>5, <1>6

LEMMA CutTracks ==
    ASSUME Typed, NEW k \in Kinds, Tracks(k), NEW n \in 0..Len(down), NEW news, NEW lost,
           Left(n), shown' = Applied(shown, news), NowMissed(lost, shown'), ~Starting,
           setup = Nothing, UNCHANGED <<buds, read, setup>>,
           Learnt(news[k], k, n) \/ (news[k] = 0 /\ Learnt(lost[k], k, n))
    PROVE  Tracks(k)'
<1>1. TypeOK /\ n \in Nat /\ Takes(n) /\ buds[k] \in Nat /\ shown[k] \in Nat
  BY LeftTakes, Readings DEF Typed
<1>2. shown'[k] = (IF news[k] = 0 THEN shown[k] ELSE news[k]) /\ setup'[k] = 0
  BY DEF Applied, Nothing
<1>3. CASE Learnt(news[k], k, n)
  <2>1. /\ Past(news[k], k, n)
        /\ k \in Essential => news[k] = 0 \/ read[k] <= news[k]
        /\ NoneAfter(n, k) =>
              k \in missed \/ news[k] = buds[k] \/ (news[k] = 0 /\ shown[k] \in {0, buds[k]})
    BY <1>1, <1>3, LearntValue
  <2>2. k \in missed => k \in missed' \/ shown'[k] = buds[k]
    BY DEF NowMissed
  <2>3. Past(shown'[k], k, n) /\ Past(setup'[k], k, n) /\ Past(read'[k], k, n)
    BY <1>1, <1>2, <2>1, PastValues DEF Tracks
  <2>4. k \in Essential => shown'[k] = 0 \/ read'[k] <= shown'[k]
    BY <1>2, <2>1 DEF Tracks, InOrder
  <2>5. NoneAfter(n, k) =>
            k \in missed' \/ (setup'[k] = 0 /\ shown'[k] \in {0, buds[k]})
    <3>1. 1 <= buds[k]
      BY DEF Tracks, InOrder
    <3>. QED
      BY <1>1, <1>2, <2>1, <2>2, <3>1
  <2>. QED
    BY <1>1, <1>2, <2>2, <2>3, <2>4, <2>5, TakenTracks
<1>4. CASE news[k] = 0 /\ Learnt(lost[k], k, n)
  BY <1>1, <1>2, <1>4, LossTracks
<1>. QED
  BY <1>3, <1>4

\* Everything is given up with the socket.
LEMMA ClearTracks ==
    ASSUME Typed, NEW k \in Kinds, Tracks(k), down' = <<>>, buds' = buds,
           shown' = Unread, setup' = Nothing, read' \in {read, Unread}
    PROVE  Tracks(k)'
<1>1. TypeOK /\ Takes(Len(down)) /\ Len(down) \in Nat
  BY CloseTakes, FrameTypes DEF Typed, TypeOK
<1>2. NoneAfter(Len(down), k)
  BY <1>1 DEF NoneAfter, Takes
<1>3. shown'[k] = 0 /\ setup'[k] = 0 /\ read'[k] \in {0, read[k]}
  BY DEF Unread, Nothing
<1>4. Past(0, k, Len(down)) /\ Past(read'[k], k, Len(down))
  BY <1>1, <1>3, PastValues DEF Tracks
<1>. QED
  BY <1>1, <1>2, <1>3, <1>4, TakenTracks

\* Nothing that is known or on its way changes.
LEMMA SameTracks ==
    ASSUME Typed, NEW k \in Kinds, Tracks(k),
           UNCHANGED <<buds, down, shown, setup, read, missed>>, ~Starting \/ Starting'
    PROVE  Tracks(k)'
BY DEF Tracks, InOrder, Past, Arriving, Arrived, IsLast, IsAbout, NoneAfter

\* The reply is the one frame of those taken that carries it.
LEMMA TheReply ==
    ASSUME Typed, OneReply, NEW n \in 0..Len(down), pc \in Essential, RepliedIn(n),
           \E i \in 1..n : down[i].reply /\ read' = [read EXCEPT ![pc] = down[i].value]
    PROVE  \E i \in DOMAIN down :
              /\ i <= n /\ IsAbout(i, pc) /\ down[i].reply
              /\ read'[pc] = down[i].value
              /\ \A k \in Kinds : k # pc => read'[k] = read[k]
<1>1. Len(down) \in Nat /\ DOMAIN down = 1..Len(down) /\ \A i \in 1..n : i \in DOMAIN down
  BY FrameTypes DEF Typed, TypeOK
<1>2. PICK i \in 1..n : down[i].reply /\ read' = [read EXCEPT ![pc] = down[i].value]
  OBVIOUS
<1>3. PICK j \in 1..n : down[j].reply /\ down[j].kind = pc
  BY DEF RepliedIn
<1>4. i = j
  BY <1>1, <1>2, <1>3 DEF OneReply
<1>5. pc \in Kinds /\ read \in [Kinds -> Nat]
  BY DEF Typed, TypeOK, Kinds
<1>. QED
  BY <1>1, <1>2, <1>3, <1>4, <1>5 DEF IsAbout

\* A bootstrap ends: what is shown of battery and ANC are the replies, even where
\* something newer was collected, and that is remembered as missed.
LEMMA ReceiveAncTracks ==
    ASSUME Typed, OneReply, Replaced, NEW k \in Kinds, Tracks(k),
           NEW n \in 0..Len(down), ReceiveAnc(n)
    PROVE  Tracks(k)'
<1>. DEFINE events == With(Taken(n))
<1>1. /\ TypeOK /\ n \in Nat /\ Takes(n) /\ buds[k] \in Nat /\ read[k] \in Nat
      /\ DOMAIN down = 1..Len(down) /\ Len(down) \in Nat
  BY LeftTakes, Readings, FrameTypes DEF Typed, ReceiveAnc, TypeOK
<1>2. pc = "anc" /\ Starting /\ shown[k] = 0 /\ ~Starting' /\ setup'[k] = 0 /\ buds' = buds
  BY DEF ReceiveAnc, Usable, Idle, Typed, Stages, Starting, Unread, Nothing, earbuds
<1>3. PICK i \in DOMAIN down :
              /\ i <= n /\ IsAbout(i, "anc") /\ down[i].reply
              /\ read'["anc"] = down[i].value
              /\ \A kind \in Kinds : kind # "anc" => read'[kind] = read[kind]
  BY <1>2, TheReply DEF ReceiveAnc, Essential
<1>4. shown'[k] = IF k \in Essential THEN read'[k] ELSE events[k]
  BY DEF ReceiveAnc, Usable
<1>. HIDE DEF events
<1>5. /\ k \in missed => k \in missed' \/ shown'[k] = buds[k]
      /\ events[k] # 0 => k \in missed' \/ shown'[k] = buds[k]
  BY DEF ReceiveAnc, NowMissed, events
<1>6. k # "anc" => Learnt(events[k], k, n)
  BY <1>2, LearntByAll DEF events
<1>7. Past(read'[k], k, n)
  BY <1>1, <1>3, PastValues DEF Tracks
<1>8. Past(shown'[k], k, n) /\ Past(setup'[k], k, n)
  <2>1. Past(setup'[k], k, n)
    BY <1>1, <1>2, PastValues DEF Tracks
  <2>2. k \notin Essential => k # "anc"
    BY DEF Essential
  <2>3. k \notin Essential => Past(shown'[k], k, n)
    BY <1>1, <1>4, <1>6, <2>2, LearntValue
  <2>. QED
    BY <1>4, <1>7, <2>1, <2>3
<1>9. k \in Essential => read'[k] <= shown'[k]
  BY <1>4, <1>7 DEF Past
<1>10. ASSUME NoneAfter(n, k)
       PROVE  k \in missed' \/ (setup'[k] = 0 /\ shown'[k] \in {0, buds[k]})
  <2>1. CASE k = "switches"
    <3>1. k \notin Essential /\ k # "anc"
      BY <2>1 DEF Essential
    <3>2. k \in missed \/ events[k] = buds[k] \/ events[k] = 0
      BY <1>1, <1>6, <1>10, <3>1, LearntValue
    <3>. QED
      BY <1>2, <1>4, <1>5, <3>1, <3>2
  <2>2. CASE k = "battery"
    <3>1. k \in Essential /\ k # "anc" /\ shown'[k] = read[k]
      BY <1>3, <1>4, <2>2 DEF Essential
    <3>2. k \in missed \/ events[k] # 0 \/ read[k] = buds[k]
      <4>1. k \in missed \/ ~NoneAfter(0, k) \/ setup[k] # 0 \/ read[k] = buds[k]
        BY <1>2, <2>2 DEF Replaced
      <4>2. ASSUME ~NoneAfter(0, k), events[k] = 0 PROVE FALSE
        <5>1. PICK j \in DOMAIN down : IsAbout(j, k)
          BY <4>2 DEF NoneAfter
        <5>2. j <= n
          BY <1>1, <1>10, <5>1 DEF NoneAfter
        <5>3. PICK l \in DOMAIN down : IsAbout(l, k) /\ events[k] = down[l].value
          BY <1>6, <3>1, <5>1, <5>2 DEF Learnt
        <5>. QED
          BY <4>2, <5>3 DEF Tracks, InOrder
      <4>3. events[k] = 0 => setup[k] = 0
        BY <1>1, <1>6, <3>1, LearntValue
      <4>. QED
        BY <4>1, <4>2, <4>3
    <3>. QED
      BY <1>2, <1>5, <3>1, <3>2
  <2>3. CASE k = "anc"
    <3>1. k \in Essential /\ shown'[k] = down[i].value /\ IsAbout(i, k)
      BY <1>3, <1>4, <2>3 DEF Essential
    <3>2. CASE IsLast(i, k)
      BY <1>2, <1>5, <3>1, <3>2 DEF Tracks, Arriving
    <3>3. CASE ~IsLast(i, k)
      <4>1. PICK j \in DOMAIN down : j > i /\ IsAbout(j, k)
        BY <3>1, <3>3 DEF IsLast
      <4>2. j <= n /\ j # i
        BY <1>1, <1>10, <4>1 DEF NoneAfter
      <4>3. ~down[j].reply
        BY <1>3, <4>1, <4>2 DEF OneReply
      <4>4. events[k] # 0
        <5>1. Taken(n) \in Seq(Frame) /\ DOMAIN Taken(n) = 1..n
              /\ \A l \in 1..n : Taken(n)[l] = down[l] /\ l \in DOMAIN down
          BY <1>1, TakenFrames DEF TypeOK
        <5>2. Others(Taken(n)) \subseteq DOMAIN Taken(n) /\ k \in DOMAIN setup
          BY <1>1 DEF Others, TypeOK
        <5>3. j \in Others(Taken(n)) /\ Taken(n)[j].kind = k
          BY <1>1, <4>1, <4>2, <4>3, <5>1 DEF Others, IsAbout
        <5>4. PICK l \in Others(Taken(n)) : Taken(n)[l].kind = k
                     /\ AfterThose(setup, Taken(n), Others(Taken(n)))[k] = Taken(n)[l].value
          BY <5>1, <5>2, <5>3, KnownAfterThose
        <5>5. l \in DOMAIN down /\ IsAbout(l, k) /\ events[k] = down[l].value
          BY <5>1, <5>2, <5>4 DEF With, events, IsAbout
        <5>. QED
          BY <5>5 DEF Tracks, InOrder
      <4>. QED
        BY <1>2, <1>5, <4>4
    <3>. QED
      BY <3>2, <3>3
  <2>. QED
    BY <2>1, <2>2, <2>3 DEF Kinds, Essential
<1>. QED
  BY <1>1, <1>2, <1>5, <1>7, <1>8, <1>9, <1>10, TakenTracks

------------------------------------------------------------------------------
(* Every step keeps what is told of each kind.                             *)

LEMMA TakesOneReply ==
    ASSUME OneReply, NEW n \in Nat, Takes(n)
    PROVE  OneReply'
<1>1. ASSUME NEW i \in DOMAIN down', NEW j \in DOMAIN down',
             (down[i].reply)', (down[j].reply)'
      PROVE  i = j
  <2>1. n + i = n + j
    BY <1>1 DEF Takes, OneReply
  <2>. QED
    BY <2>1 DEF Takes
<1>. QED
  BY <1>1 DEF OneReply

LEMMA OutsideTold ==
    ASSUME Typed, Told, Outside \/ ChannelFreed
    PROVE  Told'
<1>. USE DEF op, ctl, earbuds
<1>1. /\ TypeOK /\ \A k \in Kinds : Tracks(k) /\ buds[k] \in Nat
      /\ OneReply /\ Replaced
  BY Readings DEF Typed, Told
<1>2. ASSUME NEW kind \in Kinds, Change(kind), subscribed PROVE Told'
  <2>. DEFINE frame == [News(kind) EXCEPT !.value = @ + 1]
  <2>1. /\ frame \in Frame /\ frame.kind = kind /\ frame.value = buds[kind] + 1
        /\ ~frame.reply
    BY <1>1, FramesSent
  <2>2. /\ down' = Append(down, frame) /\ buds' = [buds EXCEPT ![kind] = @ + 1]
        /\ UNCHANGED <<shown, setup, read, missed, goal, pc>>
    BY <1>2 DEF Change
  <2>. HIDE DEF frame
  <2>3. Sends(frame)
    BY <1>1, <2>1, <2>2, FrameSent
  <2>4. ASSUME NEW k \in Kinds PROVE Tracks(k)'
    <3>1. \/ frame.kind = k /\ buds'[k] \in Nat /\ frame.value = buds'[k] /\ buds[k] <= buds'[k]
          \/ frame.kind # k /\ buds'[k] = buds[k]
      BY <1>1, <2>1, <2>2 DEF TypeOK
    <3>. QED
      BY <1>1, <2>1, <2>2, <2>3, <3>1, SentTracks
  <2>5. OneReply'
    BY <1>1, <2>1, <2>3 DEF Sends, OneReply
  <2>6. Replaced'
    <3>1. kind # "battery" => buds'["battery"] = buds["battery"]
      BY <2>2 DEF TypeOK, Kinds, Essential
    <3>2. NoneAfter(0, "battery")' => NoneAfter(0, "battery") /\ kind # "battery"
      BY <2>1, <2>3 DEF Sends, NoneAfter, IsAbout
    <3>. QED
      BY <1>1, <2>2, <3>1, <3>2 DEF Replaced
  <2>. QED
    BY <2>4, <2>5, <2>6 DEF Told
<1>3. ASSUME NEW kind \in Kinds, Change(kind), ~subscribed PROVE Told'
  <2>1. /\ down' = down /\ buds' = [buds EXCEPT ![kind] = @ + 1]
        /\ missed' = missed \cup {kind}
        /\ UNCHANGED <<shown, setup, read, goal, pc>>
    BY <1>3 DEF Change
  <2>2. ASSUME NEW k \in Kinds PROVE Tracks(k)'
    <3>1. buds[k] <= buds'[k] /\ buds'[k] \in Nat /\ (k \in missed' \/ buds'[k] = buds[k])
          /\ (k \in missed => k \in missed')
      BY <1>1, <2>1 DEF TypeOK
    <3>2. ASSUME NEW value, NEW m, Past(value, k, m) PROVE Past(value, k, m)'
      BY <1>1, <2>1, <3>1, <3>2 DEF Past, IsAbout
    <3>3. InOrder(k)'
      <4>1. Past(shown[k], k, 0)' /\ Past(setup[k], k, 0)' /\ Past(read[k], k, 0)'
        BY <1>1, <2>1, <3>2 DEF Tracks, InOrder
      <4>2. 1 <= buds'[k]
        BY <1>1, <3>1 DEF Tracks, InOrder
      <4>3. \A i \in DOMAIN down' : IsAbout(i, k)' =>
                (1 <= down[i].value /\ Past(down[i].value, k, i))'
        BY <1>1, <2>1, <3>2 DEF Tracks, InOrder, IsAbout
      <4>. QED
        BY <1>1, <2>1, <4>1, <4>2, <4>3 DEF Tracks, InOrder, Starting
    <3>4. Arriving(k)' /\ Arrived(k)'
      BY <1>1, <2>1, <3>1 DEF Tracks, Arriving, Arrived, IsLast, IsAbout, NoneAfter, Starting
    <3>. QED
      BY <3>3, <3>4 DEF Tracks
  <2>3. OneReply' /\ Replaced'
    BY <1>1, <2>1 DEF OneReply, Replaced, NoneAfter, IsAbout, TypeOK
  <2>. QED
    BY <2>2, <2>3 DEF Told
<1>4. ASSUME NEW frame \in Frame, down' = Append(down, frame), OneReply',
             frame.kind \in Kinds => frame.value = buds[frame.kind],
             UNCHANGED <<buds, shown, setup, read, missed, goal, pc>>
      PROVE  Told'
  <2>1. Sends(frame)
    BY <1>1, <1>4, FrameSent
  <2>2. ASSUME NEW k \in Kinds PROVE Tracks(k)'
    <3>1. \/ frame.kind = k /\ buds'[k] \in Nat /\ frame.value = buds'[k] /\ buds[k] <= buds'[k]
          \/ frame.kind # k /\ buds'[k] = buds[k]
      BY <1>1, <1>4
    <3>. QED
      BY <1>1, <1>4, <2>1, <3>1, SentTracks
  <2>3. Replaced'
    <3>1. NoneAfter(0, "battery")' => NoneAfter(0, "battery")
      BY <2>1 DEF Sends, NoneAfter, IsAbout
    <3>. QED
      BY <1>1, <1>4, <3>1 DEF Replaced
  <2>. QED
    BY <1>4, <2>2, <2>3 DEF Told
<1>5. ASSUME NEW kind \in Kinds, Report(kind) PROVE Told'
  <2>. DEFINE frame == News(kind)
  <2>1. frame \in Frame /\ frame.kind = kind /\ frame.value = buds[kind] /\ ~frame.reply
    BY <1>1, FramesSent
  <2>2. down' = Append(down, frame) /\ UNCHANGED <<buds, shown, setup, read, missed, goal, pc>>
    BY <1>5 DEF Report
  <2>. HIDE DEF frame
  <2>3. OneReply'
    <3>1. Sends(frame)
      BY <1>1, <2>1, <2>2, FrameSent
    <3>. QED
      BY <1>1, <2>1, <3>1 DEF Sends, OneReply
  <2>. QED
    BY <1>4, <2>1, <2>2, <2>3
<1>6. CASE Reply
  <2>1. PICK frame \in Frame : /\ down' = Append(down, frame)
                               /\ frame.kind \in Kinds => frame.value = buds[frame.kind]
    <3>1. CASE pc \in Essential /\ down' = Append(down, [News(pc) EXCEPT !.reply = TRUE])
      <4>. DEFINE reply == [News(pc) EXCEPT !.reply = TRUE]
      <4>1. pc \in Kinds
        BY <3>1 DEF Kinds
      <4>2. reply \in Frame /\ reply.kind = pc /\ reply.value = buds[pc]
        BY <1>1, <4>1, FramesSent
      <4>3. down' = Append(down, reply)
        BY <3>1
      <4>. HIDE DEF reply
      <4>. QED
        BY <4>2, <4>3
    <3>2. CASE down' = Append(down, [kind |-> "version", value |-> 1, reply |-> TRUE])
      BY <1>1, <3>2, FramesSent DEF Kinds, Essential
    <3>. QED
      BY <1>6, <3>1, <3>2 DEF Reply
  <2>2. UNCHANGED <<buds, shown, setup, read, missed, goal, pc>> /\ ~Replied
    BY <1>6 DEF Reply
  <2>3. OneReply'
    <3>1. Sends(frame)
      BY <1>1, <2>1, FrameSent
    <3>. QED
      BY <2>2, <3>1 DEF Sends, OneReply, Replied
  <2>. QED
    BY <1>4, <2>1, <2>2, <2>3
<1>7. CASE OtherApplication \/ ChannelFreed
  <2>1. UNCHANGED <<buds, down, shown, setup, read, missed, goal, pc>>
    BY <1>7 DEF OtherApplication, ChannelFreed
  <2>2. \A k \in Kinds : Tracks(k)'
    BY <1>1, <2>1, SameTracks DEF Starting
  <2>3. OneReply' /\ Replaced'
    BY <1>1, <2>1 DEF OneReply, Replaced, NoneAfter, IsAbout
  <2>. QED
    BY <2>2, <2>3 DEF Told
<1>. QED
  BY <1>2, <1>3, <1>5, <1>6, <1>7 DEF Outside, Change

\* A close that gives up what is on its way.
LEMMA LossTold ==
    ASSUME Typed, Told, Close, setup' = Nothing, pc' # "anc", UNCHANGED read,
           ~Starting, NEW lost, lost = With(down) \/ (setup = Nothing /\ lost = After(Nothing, down)),
           NowMissed(lost, shown'),
           \A k \in Kinds : shown'[k] \in {0, shown[k], buds[k]}
    PROVE  Told'
<1>1. /\ TypeOK /\ OneReply /\ \A k \in Kinds : Tracks(k)
      /\ down' = <<>> /\ buds' = buds
  BY DEF Typed, Told, Close
<1>2. Takes(Len(down)) /\ Len(down) \in Nat
  BY <1>1, CloseTakes DEF Takes
<1>3. \A k \in Kinds : NoneAfter(Len(down), k)
  BY <1>2 DEF NoneAfter, Takes
<1>4. ASSUME NEW k \in Kinds PROVE Learnt(lost[k], k, Len(down))
  <2>1. Taken(Len(down)) = down /\ Len(down) \in 0..Len(down)
    BY <1>1, AllTaken
  <2>2. pc \notin Essential
    BY DEF Typed, Stages, Starting, Essential
  <2>3. pc # k
    BY <2>2 DEF Kinds, Typed, TypeOK, Waits
  <2>4. /\ setup = Nothing => Learnt(After(Nothing, Taken(Len(down)))[k], k, Len(down))
        /\ Learnt(With(Taken(Len(down)))[k], k, Len(down))
    BY <2>1, <2>3, LearntByAll
  <2>. QED
    BY <2>1, <2>4
<1>5. \A k \in Kinds : Tracks(k)'
  BY <1>1, <1>2, <1>3, <1>4, LossTracks
<1>6. OneReply' /\ Replaced'
  BY <1>1, <1>2, TakesOneReply DEF Replaced
<1>. QED
  BY <1>5, <1>6 DEF Told

LEMMA ClearTold ==
    ASSUME Typed, Told, Close, setup' = Nothing, pc' # "anc", shown' = Unread,
           read' \in {read, Unread}
    PROVE  Told'
<1>1. /\ TypeOK /\ OneReply /\ \A k \in Kinds : Tracks(k)
      /\ down' = <<>> /\ buds' = buds
  BY DEF Typed, Told, Close
<1>2. \A k \in Kinds : Tracks(k)'
  BY <1>1, ClearTracks
<1>3. OneReply' /\ Replaced'
  BY <1>1, CloseTakes, TakesOneReply DEF Replaced, Takes
<1>. QED
  BY <1>2, <1>3 DEF Told

LEMMA SameTold ==
    ASSUME Typed, Told, UNCHANGED <<buds, down, shown, setup, read, missed>>,
           ~Starting \/ Starting', pc' # "anc"
    PROVE  Told'
<1>1. \A k \in Kinds : Tracks(k)'
  BY SameTracks DEF Told
<1>2. OneReply' /\ Replaced'
  BY DEF Told, OneReply, Replaced
<1>. QED
  BY <1>1, <1>2 DEF Told

LEMMA BeginsTold ==
    ASSUME Typed, Told, Begins
    PROVE  Told'
<1>. USE DEF op, ctl, earbuds, Starting
<1>1. pc = "idle" => setup = Nothing
  BY DEF Typed, Stages
<1>2. CASE Start \/ Shutdown
  BY <1>2, ClearTold DEF Start, Shutdown, Cleared, Enter, Idle
<1>3. CASE StrengthWrite
  BY <1>1, <1>3, LossTold DEF StrengthWrite, Enter
<1>4. CASE MainWriteReopens
  BY <1>1, <1>4, SameTold DEF MainWriteReopens, Enter
<1>5. CASE PollBegins
  BY <1>5, SameTold DEF PollBegins
<1>6. CASE CommandFails
  <2>1. \A k \in Kinds : shown'[k] \in {0, shown[k], buds[k]}
    BY <1>6 DEF CommandFails, Typed, TypeOK, Kinds, Essential
  <2>. QED
    BY <1>1, <1>6, <2>1, LossTold DEF CommandFails
<1>7. ASSUME NEW n \in 1..Len(down), CommandReads(n) PROVE Told'
  <2>1. /\ TypeOK /\ n \in Nat /\ n \in 0..Len(down) /\ setup = Nothing /\ pc = "idle"
        /\ Left(n) /\ Takes(n) /\ UNCHANGED <<buds, read, setup>> /\ ~Starting /\ pc' # "anc"
        /\ OneReply /\ \A k \in Kinds : Tracks(k)
    BY <1>1, <1>7, FrameTypes, LeftTakes DEF CommandReads, Told, Typed, TypeOK
  <2>2. PICK dropped \in 0..n :
           /\ shown' = Applied(shown, AfterThose(Nothing, Taken(n), (dropped + 1)..n))
           /\ NowMissed(AfterThose(Nothing, Taken(n), 1..dropped), shown')
    BY <1>7 DEF CommandReads
  <2>3. ASSUME NEW k \in Kinds PROVE Tracks(k)'
    BY <2>1, <2>2, CutLearnt, CutTracks
  <2>. QED
    BY <2>1, <2>3, TakesOneReply DEF Told, Replaced
<1>. QED
  BY <1>2, <1>3, <1>4, <1>5, <1>6, <1>7 DEF Begins

LEMMA FailuresTold ==
    ASSUME Typed, Told, StartFails \/ PollFails \/ ReopenFails \/ StrengthWriteFails
    PROVE  Told'
<1>. USE DEF op, ctl, earbuds, Starting
<1>1. CASE StartFails \/ PollFails
  BY <1>1, ClearTold DEF StartFails, PollFails, Cleared, Enter, Idle
<1>2. CASE ReopenFails
  <2>1. \A k \in Kinds : shown'[k] \in {0, shown[k], buds[k]}
    BY <1>2 DEF ReopenFails, Typed, TypeOK, Kinds, Essential
  <2>. QED
    BY <1>2, <2>1, LossTold DEF ReopenFails, Idle
<1>3. CASE StrengthWriteFails
  <2>1. setup = Nothing
    BY <1>3 DEF StrengthWriteFails, MayFail, Typed, Stages, Waits
  <2>. QED
    BY <1>3, <2>1, LossTold DEF StrengthWriteFails, Monitor, Enter, Idle
<1>. QED
  BY <1>1, <1>2, <1>3

LEMMA SocketsTold ==
    ASSUME Typed, Told, Connected \/ Busy \/ Unsupported \/ Written \/ Verified
    PROVE  Told'
<1>. USE DEF op, ctl, earbuds, Starting
<1>1. CASE Connected
  <2>1. goal # "poll"
    BY <1>1 DEF Connected, Typed, Owned, OneOwner, HeldByPolls
  <2>2. pc' \notin {"anc", "idle"}
    BY <1>1, <2>1 DEF Connected, FirstWait, Typed, TypeOK, Goals
  <2>. QED
    BY <1>1, <2>2, SameTold DEF Connected
<1>2. CASE Busy
  BY <1>2, SameTold DEF Busy
<1>3. CASE Unsupported
  <2>1. shown = Unread
    BY <1>3 DEF Unsupported, Typed, Stages
  <2>. QED
    BY <1>3, <2>1, ClearTold DEF Unsupported, Idle
<1>4. CASE Written
  BY <1>4, LossTold DEF Written, Enter, Typed, Stages
<1>5. CASE Verified
  <2>1. \A k \in Kinds : shown'[k] \in {0, shown[k], buds[k]}
    BY <1>5 DEF Verified, Typed, TypeOK, Kinds, Essential
  <2>2. setup = Nothing /\ ~Starting
    BY <1>5 DEF Verified, Typed, Stages
  <2>. QED
    BY <1>5, <2>1, <2>2, LossTold DEF Verified, Monitor, Enter, Idle
<1>. QED
  BY <1>1, <1>2, <1>3, <1>4, <1>5

\* Between the two replies of bootstrap, what the frames say of the battery is collected.
LEMMA CollectReplaces ==
    ASSUME Typed, Told, NEW n \in 0..Len(down), Collect(n), pc' = "anc",
           UNCHANGED <<buds, missed>>,
           \/ pc = "anc" /\ read' = read
           \/ /\ pc = "battery"
              /\ \E i \in DOMAIN down :
                    /\ i <= n /\ IsAbout(i, pc) /\ down[i].reply
                    /\ read'[pc] = down[i].value
    PROVE  Replaced'
<1>. DEFINE k == "battery"
<1>1. /\ TypeOK /\ n \in Nat /\ Takes(n) /\ k \in Kinds /\ Tracks(k) /\ OneReply
      /\ DOMAIN down = 1..Len(down) /\ Len(down) \in Nat
  BY LeftTakes, FrameTypes DEF Typed, TypeOK, Told, Collect, Kinds, Essential
<1>2. Taken(n) \in Seq(Frame) /\ DOMAIN Taken(n) = 1..n
      /\ \A l \in 1..n : Taken(n)[l] = down[l] /\ l \in DOMAIN down
  BY <1>1, TakenFrames DEF TypeOK
<1>3. Others(Taken(n)) \subseteq DOMAIN Taken(n) /\ k \in DOMAIN setup
  BY <1>1 DEF Others, TypeOK
<1>4. setup'[k] = AfterThose(setup, Taken(n), Others(Taken(n)))[k]
  BY DEF Collect, With
<1>. HIDE DEF k
<1>5. ASSUME NEW j \in Others(Taken(n)), IsAbout(j, k) PROVE setup'[k] # 0
  <2>1. Taken(n)[j].kind = k
    BY <1>2, <1>3, <1>5 DEF IsAbout
  <2>2. PICK l \in Others(Taken(n)) : Taken(n)[l].kind = k /\ setup'[k] = Taken(n)[l].value
    BY <1>2, <1>3, <1>4, <2>1, KnownAfterThose
  <2>3. l \in DOMAIN down /\ IsAbout(l, k) /\ setup'[k] = down[l].value
    BY <1>2, <1>3, <2>2 DEF IsAbout
  <2>. QED
    BY <2>3, <1>1 DEF Tracks, InOrder
<1>6. NoneAfter(0, k)' => NoneAfter(n, k)
  <2>1. ASSUME NEW i \in DOMAIN down, i > n, IsAbout(i, k) PROVE ~NoneAfter(0, k)'
    <3>1. i - n \in DOMAIN down' /\ i - n > 0 /\ n + (i - n) = i
      BY <1>1, <2>1 DEF Takes
    <3>2. down'[i - n] = down[i]
      BY <1>1, <3>1 DEF Takes
    <3>. QED
      BY <2>1, <3>1, <3>2 DEF NoneAfter, IsAbout
  <2>. QED
    BY <2>1 DEF NoneAfter
<1>7. CASE pc = "anc" /\ read' = read
  <2>. SUFFICES ASSUME NoneAfter(0, k)', k \notin missed, setup'[k] = 0
                PROVE  read[k] = buds[k]
    BY <1>7 DEF Replaced, k
  <2>1. NoneAfter(n, k) /\ k # pc
    BY <1>6, <1>7 DEF k
  <2>3. NoneAfter(0, k)
    <3>1. \A j \in DOMAIN down : j > n \/ j \in 1..n
      BY <1>1
    <3>2. \A j \in 1..n : IsAbout(j, k) => j \in Others(Taken(n))
      BY <1>2, <2>1 DEF Others, IsAbout
    <3>. QED
      BY <1>5, <2>1, <3>1, <3>2 DEF NoneAfter
  <2>4. Learnt(setup'[k], k, n)
    BY <1>1, <2>1, LearntByAll DEF Collect
  <2>5. setup[k] = 0
    BY <1>1, <2>4, LearntValue
  <2>. QED
    BY <1>7, <2>3, <2>5 DEF Told, Replaced, k
<1>8. ASSUME pc = k, NEW i \in DOMAIN down, i <= n, IsAbout(i, k), down[i].reply,
             read'[k] = down[i].value
      PROVE  Replaced'
  <2>. SUFFICES ASSUME NoneAfter(0, k)', k \notin missed, setup'[k] = 0
                PROVE  read'[k] = buds[k]
    BY DEF Replaced, k
  <2>1. IsLast(i, k)
    <3>1. ASSUME NEW j \in DOMAIN down, j > i, IsAbout(j, k) PROVE FALSE
      <4>1. j <= n /\ j # i /\ j \in 1..n
        BY <1>1, <1>6, <3>1 DEF NoneAfter
      <4>2. ~down[j].reply
        BY <1>1, <1>8, <4>1 DEF OneReply
      <4>3. j \in Others(Taken(n))
        BY <1>2, <4>1, <4>2 DEF Others
      <4>. QED
        BY <1>5, <3>1, <4>3
    <3>. QED
      BY <1>8, <3>1 DEF IsLast
  <2>. QED
    BY <1>1, <1>8, <2>1 DEF Tracks, Arriving
<1>. QED
  BY <1>7, <1>8 DEF k

LEMMA ReceivesTold ==
    ASSUME Typed, Told, NEW n \in 0..Len(down),
           \/ Identify(n) \/ Authenticate(n) \/ ReceiveBattery(n) \/ ReceiveAnc(n)
           \/ ReceiveOthers(n) \/ NoCodes(n) \/ Codes(n) \/ Subscribed(n) \/ Drain(n)
    PROVE  Told'
<1>. USE DEF op, ctl, earbuds, Starting
<1>1. /\ TypeOK /\ n \in Nat /\ OneReply /\ Replaced /\ \A k \in Kinds : Tracks(k)
  BY FrameTypes DEF Typed, TypeOK, Told
<1>2. ASSUME Collect(n), UNCHANGED <<buds, shown, missed, goal, read>>, pc # "idle",
             pc' \notin {"idle", "anc"}, pc \in Essential => Starting
      PROVE  Told'
  <2>1. \A k \in Kinds : Tracks(k)'
    BY <1>1, <1>2, CollectTracks
  <2>. QED
    BY <1>1, <1>2, <2>1, LeftTakes, TakesOneReply DEF Told, Replaced, Collect
<1>3. ASSUME Finish(n, After(setup, Taken(n))), ~Starting, UNCHANGED <<buds, read>>
      PROVE  Told'
  <2>1. \A k \in Kinds : Tracks(k)'
    BY <1>1, <1>3, LearntByAll, FinishTracks
  <2>. QED
    BY <1>1, <1>3, <2>1, LeftTakes, TakesOneReply DEF Told, Replaced, Finish, Idle
<1>4. CASE Identify(n)
  <2>1. /\ Left(n) /\ setup = Nothing /\ setup' = setup /\ shown = Unread /\ shown' = shown
        /\ UNCHANGED <<buds, read>> /\ NowMissed(After(Nothing, Taken(n)), shown')
        /\ Starting' /\ pc' # "anc"
    BY <1>4 DEF Identify, Typed, Stages
  <2>2. Takes(n) /\ OneReply'
    BY <1>1, <2>1, LeftTakes, TakesOneReply
  <2>3. \A k \in Kinds : Learnt(After(Nothing, Taken(n))[k], k, n)
    BY <2>1, LearntByAll
  <2>4. \A k \in Kinds : Tracks(k)'
    BY <1>1, <2>1, <2>2, <2>3, LossTracks
  <2>. QED
    BY <2>1, <2>2, <2>4 DEF Told, Replaced
<1>5. CASE Authenticate(n)
  BY <1>2, <1>5 DEF Authenticate, Await, Essential
<1>6. CASE ReceiveBattery(n)
  <2>1. /\ Collect(n) /\ pc = "battery" /\ pc' = "anc" /\ pc \in Essential /\ Starting
        /\ UNCHANGED <<buds, shown, missed, goal>>
    BY <1>6 DEF ReceiveBattery, Typed, Stages, Essential
  <2>2. PICK i \in DOMAIN down :
                /\ i <= n /\ IsAbout(i, pc) /\ down[i].reply
                /\ read'[pc] = down[i].value
                /\ \A k \in Kinds : k # pc => read'[k] = read[k]
    BY <1>1, <1>6, <2>1, TheReply DEF ReceiveBattery
  <2>3. \A k \in Kinds : read'[k] = read[k] \/ (Starting /\ Past(read'[k], k, n))
    BY <1>1, <2>1, <2>2, PastValues DEF Tracks
  <2>4. \A k \in Kinds : Tracks(k)'
    BY <1>1, <2>1, <2>3, CollectTracks
  <2>5. Replaced'
    BY <2>1, <2>2, CollectReplaces
  <2>. QED
    BY <1>1, <2>1, <2>4, <2>5, LeftTakes, TakesOneReply DEF Told, Collect
<1>7. CASE ReceiveAnc(n)
  <2>1. \A k \in Kinds : Tracks(k)'
    BY <1>1, <1>7, ReceiveAncTracks
  <2>. QED
    BY <1>1, <1>7, <2>1, LeftTakes, TakesOneReply DEF Told, Replaced, ReceiveAnc, Usable, Idle
<1>8. CASE ReceiveOthers(n)
  <2>1. /\ Collect(n) /\ pc \in Essential /\ pc' = pc /\ Starting
        /\ UNCHANGED <<buds, shown, missed, goal, read>>
    BY <1>8 DEF ReceiveOthers, Await, Typed, Stages, Essential
  <2>2. CASE pc = "battery"
    BY <1>2, <2>1, <2>2
  <2>3. CASE pc = "anc"
    <3>1. \A k \in Kinds : Tracks(k)'
      BY <1>1, <2>1, CollectTracks
    <3>2. Replaced'
      BY <2>1, <2>3, CollectReplaces
    <3>. QED
      BY <1>1, <2>1, <3>1, <3>2, LeftTakes, TakesOneReply DEF Told, Collect
  <2>. QED
    BY <2>1, <2>2, <2>3 DEF Essential
<1>9. CASE NoCodes(n) \/ Subscribed(n)
  <2>1. pc \in {"codes", "subscribe"} /\ ~Starting /\ pc \notin Essential
    BY <1>9 DEF NoCodes, Subscribed, Typed, Stages, Essential
  <2>2. CASE Collect(n) /\ Await("drain")
    BY <1>2, <2>1, <2>2 DEF Await
  <2>3. ASSUME NEW known, Resumed(n, known), UNCHANGED subscribed PROVE Told'
    BY <1>3, <2>1, <2>3 DEF Resumed
  <2>. QED
    BY <1>9, <2>2, <2>3 DEF NoCodes, Subscribed
<1>10. CASE Codes(n)
  BY <1>2, <1>10 DEF Codes, Essential
<1>11. CASE Drain(n)
  <2>1. ~Starting
    BY <1>11 DEF Drain, Typed, Stages
  <2>. QED
    BY <1>3, <1>11, <2>1 DEF Drain
<1>. QED
  BY <1>4, <1>5, <1>6, <1>7, <1>8, <1>9, <1>10, <1>11

LEMMA StepTold ==
    ASSUME Typed, Told, [Next]_vars
    PROVE  Told'
<1>1. CASE Outside \/ ChannelFreed BY <1>1, OutsideTold
<1>2. CASE Begins BY <1>2, BeginsTold
<1>3. CASE Proceeds
  <2>1. CASE Connected \/ Busy \/ Unsupported \/ Written \/ Verified BY <2>1, SocketsTold
  <2>2. CASE StartFails \/ PollFails \/ ReopenFails \/ StrengthWriteFails BY <2>2, FailuresTold
  <2>3. ASSUME NEW n \in 0..Len(down),
               \/ Identify(n) \/ Authenticate(n) \/ ReceiveBattery(n) \/ ReceiveAnc(n)
               \/ NoCodes(n) \/ Codes(n) \/ Subscribed(n) \/ Drain(n)
        PROVE  Told'
    BY <2>3, ReceivesTold
  <2>. QED
    BY <1>3, <2>1, <2>2, <2>3 DEF Proceeds
<1>4. ASSUME NEW n \in 1..Len(down), ReceiveOthers(n) PROVE Told'
  <2>1. Len(down) \in Nat
    BY FrameTypes DEF Typed, TypeOK
  <2>2. n \in 0..Len(down)
    BY <2>1
  <2>. QED
    BY <1>4, <2>2, ReceivesTold
<1>5. ASSUME NEW n \in 0..Len(down), PollRaises(n) PROVE Told'
  <2>1. /\ TypeOK /\ n \in Nat /\ Takes(n) /\ OneReply /\ \A k \in Kinds : Tracks(k)
        /\ UNCHANGED <<buds, read, shown>> /\ setup' = Nothing /\ pc' = "idle" /\ ~Starting
        /\ NowMissed(After(setup, Taken(n)), shown')
    BY <1>5, LeftTakes DEF PollRaises, Idle, earbuds, NowMissed, Told, Typed, Starting
  <2>2. ASSUME NEW k \in Kinds PROVE Tracks(k)'
    BY <2>1, LearntByAll, LossTracks
  <2>. QED
    BY <2>1, <2>2, TakesOneReply DEF Told, Replaced
<1>6. CASE UNCHANGED vars
  <2>1. UNCHANGED <<buds, down, shown, setup, read, missed, goal, pc>>
    BY <1>6 DEF vars, op, ctl, earbuds
  <2>2. \A k \in Kinds : Tracks(k)'
    BY <2>1, SameTracks DEF Told, Starting
  <2>3. OneReply' /\ Replaced'
    BY <2>1 DEF Told, OneReply, Replaced, NoneAfter, IsAbout
  <2>. QED
    BY <2>2, <2>3 DEF Told
<1>. QED
  BY <1>1, <1>2, <1>3, <1>4, <1>5, <1>6 DEF Next

LEMMA AlwaysTold == Spec => [](Typed /\ Told)
<1>1. Init => Typed /\ Told
  BY InitTyped, InitTold
<1>2. Typed /\ Told /\ [Next]_vars => (Typed /\ Told)'
  BY StepTyped, StepTold
<1>. QED
  BY <1>1, <1>2, PTL DEF Spec

\* Whatever order replies, setup notifications and later reports come in, the battery
\* and the ANC shown are never older than the replies the session began with.
THEOREM NeverOlderThanRead == Spec => []NotOlderThanRead
<1>1. Typed /\ Told => NotOlderThanRead
  <2>. SUFFICES ASSUME Typed, Told, NEW k \in Essential
                PROVE  shown[k] >= read[k] \/ shown[k] = 0
    BY DEF NotOlderThanRead
  <2>1. k \in Kinds
    BY DEF Kinds
  <2>2. shown[k] \in Nat /\ read[k] \in Nat
    BY <2>1, Readings DEF Typed
  <2>. QED
    BY <2>1, <2>2 DEF Told, Tracks, InOrder
<1>. QED
  BY <1>1, AlwaysTold, PTL

\* With nothing about it on its way, a value shown is the earbuds' own, or a change
\* of it was missed: no frame is forgotten between a socket and what is shown.
THEOREM StaleStatusAlwaysHasCause == Spec => []StaleStatusHasCause
<1>1. Typed /\ Told => StaleStatusHasCause
  <2>. SUFFICES ASSUME Typed, Told, pc = "idle", About(down) \cap Kinds = {}, NEW k \in Kinds
                PROVE  shown[k] \in {0, buds[k]} \/ k \in missed
    BY DEF StaleStatusHasCause
  <2>1. NoneAfter(0, k)
    BY DEF NoneAfter, IsAbout, About
  <2>2. setup[k] = 0 /\ 1 <= buds[k] /\ buds[k] \in Nat
    BY Readings DEF Typed, Stages, Nothing, Told, Tracks, InOrder
  <2>. QED
    BY <2>1, <2>2 DEF Told, Tracks, Arrived, Starting
<1>. QED
  BY <1>1, AlwaysTold, PTL

===============================================================================
