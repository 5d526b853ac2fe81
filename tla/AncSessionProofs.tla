--------------------------- MODULE AncSessionProofs ---------------------------
(***************************************************************************)
(* AncSession for any modes, states, sequence numbers and bounds.          *)
(*                                                                         *)
(* That a write is verified by a fresh read rests on the order of the      *)
(* link: there is at most one query or reply to one, and a reply that      *)
(* comes has the write behind it, as has every frame after it.             *)
(***************************************************************************)
EXTENDS AncSession, OpoWireProofs

\* A frame that answers some query; reports have sequence 0.
Reply(frame) == frame.command = "RESPONSE_ANC" /\ frame.sequence # 0

------------------------------------------------------------------------------
(* The inductive invariant.                                                *)

\* At most one SET and behind it at most one query.
Requests ==
    /\ pc = "idle" => up = <<>>
    /\ pc = "ack" => queries = 0
    /\ \A i \in DOMAIN up :
          /\ up[i].command = "SET_ANC" => i = 1 /\ writes > 0
          /\ up[i].command = "QUERY_ANC" => i = Len(up) /\ pc = "verify"

\* At most one reply; it, and what comes after it, was sent after the last write.
Replies ==
    \A i \in DOMAIN down :
        Reply(down[i]) =>
            /\ pc = "verify"
            /\ up = <<>>
            /\ \A j \in DOMAIN down :
                  /\ Reply(down[j]) => j = i
                  /\ i <= j /\ down[j].command = "RESPONSE_ANC" => down[j].asOf = writes

\* Between commands every state on its way is of after the last write.
Reports ==
    pc = "idle" =>
        \A i \in DOMAIN down : down[i].command = "RESPONSE_ANC" => down[i].asOf = writes

Link == TypeOK /\ Requests /\ Replies /\ Reports

\* Only a running controller has a session, waits on it, or has a cached ANC.
Cached ==
    /\ pc # "idle" => running
    /\ session = "open" => running
    /\ ~running => anc = NoState
    /\ ShownAncNotOlderThanWrite

------------------------------------------------------------------------------
(* Types.                                                                  *)

LEMMA InitTyped == Init => TypeOK /\ Requests
<1>. SUFFICES ASSUME Init PROVE TypeOK /\ Requests
  OBVIOUS
<1>1. running \in BOOLEAN /\ strengthFailed \in BOOLEAN
  BY Zenon DEF Init
<1>2. up \in Seq(SetRequest \cup QueryRequest) /\ down \in Seq(AckFrame \cup StateFrame)
      /\ DOMAIN up = {}
  BY DEF Init
<1>3. sequence \in SequenceNumbers /\ awaited \in SequenceNumbers /\ queries \in 0..MaxQueries
  BY LastSequenceAssumption, AncAssumption DEF Init, SequenceNumbers
<1>. QED
  BY <1>1, <1>2, <1>3 DEF Init, TypeOK, Requests

\* What the earbuds count as handled, and what they answer.
LEMMA ReplyTyped ==
    ASSUME TypeOK, Requests, NEW seq \in {0} \cup SequenceNumbers,
           NEW state \in States \cup {NoState}
    PROVE  StateReply(seq, state) \in StateFrame
<1>1. HandledWrites \in Nat
  BY DEF TypeOK, Requests, HandledWrites, SetPending
<1>. QED
  BY <1>1 DEF StateReply, StateFrame

LEMMA EarbudsTyped == TypeOK /\ Requests /\ Earbuds => TypeOK'
<1>. SUFFICES ASSUME TypeOK, Requests, Earbuds PROVE TypeOK'
  OBVIOUS
<1>0. running' \in BOOLEAN /\ strengthFailed' \in BOOLEAN
  <2>1. UNCHANGED <<host, shown>>
    BY DEF Earbuds, EarbudsHandleSet, EarbudsHandleQuery, EarbudsSettle, WearerTouches,
       EarbudsReport
  <2>. QED
    BY <2>1 DEF TypeOK, host, shown
<1>. USE <1>0 DEF host, shown, result
<1>1. CASE EarbudsHandleSet
  <2>1. Head(up) \in SetRequest /\ up' \in Seq(SetRequest \cup QueryRequest)
    BY <1>1, OneFrameLess DEF EarbudsHandleSet, TypeOK, QueryRequest
  <2>2. target' \in States
    BY <1>1, <2>1, AncAssumption DEF EarbudsHandleSet, TypeOK, SetRequest
  <2>3. down' \in Seq(AckFrame \cup StateFrame)
    <3>1. [command |-> "RESPONSE_SET_ANC", sequence |-> Head(up).sequence] \in AckFrame
      BY <2>1 DEF AckFrame, SetRequest
    <3>2. Append(down, [command |-> "RESPONSE_SET_ANC", sequence |-> Head(up).sequence])
          \in Seq(AckFrame \cup StateFrame)
      BY <3>1, OneMoreFrame DEF TypeOK
    <3>. QED
      BY <1>1, <3>2 DEF EarbudsHandleSet, TypeOK
  <2>. QED
    BY <1>1, <2>1, <2>2, <2>3 DEF EarbudsHandleSet, TypeOK
<1>2. CASE EarbudsHandleQuery
  <2>1. Head(up) \in QueryRequest /\ up' \in Seq(SetRequest \cup QueryRequest)
    BY <1>2, OneFrameLess DEF EarbudsHandleQuery, TypeOK, SetRequest
  <2>2. down' \in Seq(AckFrame \cup StateFrame)
    <3>1. \A state \in {actual, NoState} :
             StateReply(Head(up).sequence, state) \in AckFrame \cup StateFrame
      BY <2>1, ReplyTyped DEF QueryRequest, TypeOK
    <3>2. \A state \in {actual, NoState} :
             Append(down, StateReply(Head(up).sequence, state)) \in Seq(AckFrame \cup StateFrame)
      BY <3>1, OneMoreFrame DEF TypeOK
    <3>. QED
      BY <1>2, <3>2 DEF EarbudsHandleQuery, TypeOK
  <2>. QED
    BY <1>2, <2>1, <2>2 DEF EarbudsHandleQuery, TypeOK, device
<1>3. CASE EarbudsSettle
  BY <1>3 DEF EarbudsSettle, TypeOK
<1>4. CASE WearerTouches
  BY <1>4 DEF WearerTouches, TypeOK
<1>5. CASE EarbudsReport
  <2>1. StateReply(0, actual) \in AckFrame \cup StateFrame
    BY ReplyTyped DEF TypeOK
  <2>2. down' \in Seq(AckFrame \cup StateFrame)
    BY <1>5, <2>1, OneMoreFrame DEF EarbudsReport, TypeOK
  <2>. QED
    BY <1>5, <2>2 DEF EarbudsReport, TypeOK, device
<1>. QED
  BY <1>1, <1>2, <1>3, <1>4, <1>5 DEF Earbuds

\* The running and lapse flags of the host's steps.
LEMMA FlagsTyped ==
    ASSUME TypeOK, Transaction \/ OneShot \/ Monitoring
    PROVE  running' \in BOOLEAN /\ strengthFailed' \in BOOLEAN
<1>. USE DEF TypeOK, host, shown
<1>1. CASE Transaction
  <2>1. running' = running
    BY <1>1 DEF Transaction, SetMainAnc, ReopenFails, ReceiveAck, ReceiveState, AckTimeout,
       TransactionFails, Fail, Succeed, QueryAgain
  <2>2. strengthFailed' = strengthFailed \/ strengthFailed' = FALSE
    BY <1>1 DEF Transaction, SetMainAnc, ReopenFails, ReceiveAck, ReceiveState, AckTimeout,
       TransactionFails, Fail, Succeed, QueryAgain
  <2>. QED
    BY <2>1, <2>2
<1>2. CASE OneShot
  <2>1. running' = running
    BY <1>2 DEF OneShot, OneShotVerified, OneShotUncertain, OneShotRefused
  <2>2. strengthFailed' = strengthFailed \/ strengthFailed' = FALSE \/ strengthFailed' = TRUE
    BY <1>2 DEF OneShot, OneShotVerified, OneShotUncertain, OneShotRefused
  <2>. QED
    BY <2>1, <2>2
<1>3. CASE Monitoring
  <2>1. running' = running \/ running' = TRUE \/ running' = FALSE
    BY <1>3 DEF Monitoring, Poll, EqCommand, RefreshSucceeds, RefreshFails
  <2>2. strengthFailed' = strengthFailed \/ strengthFailed' = FALSE
    BY <1>3 DEF Monitoring, Poll, EqCommand, RefreshSucceeds, RefreshFails
  <2>. QED
    BY <2>1, <2>2
<1>. QED
  BY <1>1, <1>2, <1>3

\* What the last of the states received is, if there is one.
LEMMA LastStateTyped ==
    ASSUME TypeOK, NEW n \in 0..Len(down)
    PROVE  LastState(Chunk(down, n)) \in States \cup {NoState}
<1>. DEFINE chunk == Chunk(down, n)
            reports == StateReports(chunk)
<1>1. /\ DOMAIN chunk = 1..n
      /\ \A i \in 1..n : chunk[i] \in AckFrame \cup StateFrame
  <2>1. down \in Seq(AckFrame \cup StateFrame)
    BY DEF TypeOK
  <2>2. DOMAIN chunk = 1..n /\ \A i \in 1..n : chunk[i] = down[i] /\ i \in DOMAIN down
    BY <2>1, ChunkFrames
  <2>3. \A i \in DOMAIN down : down[i] \in AckFrame \cup StateFrame
    BY <2>1, ElementOfSeq, LenProperties
  <2>. QED
    BY <2>2, <2>3
<1>2. \A i \in reports : chunk[i].state \in States
  BY <1>1 DEF StateReports, AckFrame, StateFrame
<1>. QED
  <2>1. CASE reports = {}
    BY <2>1 DEF LastState, TypeOK
  <2>2. CASE reports # {}
    <3>1. Max(reports) \in reports
      <4>1. reports \in SUBSET (1..n) /\ n \in Nat
        BY <1>1 DEF StateReports
      <4>. HIDE DEF reports
      <4>. QED
        BY <2>2, <4>1, LastIndex
    <3>. QED
      BY <1>2, <2>2, <3>1 DEF LastState
  <2>. QED
    BY <2>1, <2>2

\* The chunk of a receive, and what it leaves.
LEMMA ReceiveTyped ==
    ASSUME TypeOK, NEW n \in 0..Len(down)
    PROVE  /\ Unread(down, n) \in Seq(AckFrame \cup StateFrame)
           /\ DOMAIN Chunk(down, n) = 1..n
           /\ \A i \in 1..n : /\ Chunk(down, n)[i] = down[i]
                              /\ down[i] \in AckFrame \cup StateFrame
                              /\ i \in DOMAIN down
           /\ DOMAIN Unread(down, n) = 1..(Len(down) - n)
           /\ \A i \in 1..(Len(down) - n) : /\ Unread(down, n)[i] = down[n + i]
                                            /\ n + i \in DOMAIN down
<1>1. down \in Seq(AckFrame \cup StateFrame)
  BY DEF TypeOK
<1>2. \A i \in DOMAIN down : down[i] \in AckFrame \cup StateFrame
  BY <1>1, ElementOfSeq, LenProperties
<1>3. /\ DOMAIN Chunk(down, n) = 1..n
      /\ \A i \in 1..n : Chunk(down, n)[i] = down[i] /\ i \in DOMAIN down
  BY <1>1, ChunkFrames
<1>4. /\ Unread(down, n) \in Seq(AckFrame \cup StateFrame)
      /\ DOMAIN Unread(down, n) = 1..(Len(down) - n)
      /\ \A i \in 1..(Len(down) - n) :
            Unread(down, n)[i] = down[n + i] /\ n + i \in DOMAIN down
  BY <1>1, UnreadFrames
<1>. QED
  BY <1>2, <1>3, <1>4

LEMMA QueryTyped ==
    ASSUME TypeOK, Requests, Query, pc = "ack" \/ queries < MaxQueries
    PROVE  /\ up' \in Seq(SetRequest \cup QueryRequest)
           /\ awaited' \in SequenceNumbers /\ sequence' \in SequenceNumbers
           /\ queries' \in 0..MaxQueries /\ pc' = "verify"
<1>1. [command |-> "QUERY_ANC", sequence |-> sequence] \in SetRequest \cup QueryRequest
  BY DEF TypeOK, QueryRequest
<1>2. Append(up, [command |-> "QUERY_ANC", sequence |-> sequence])
      \in Seq(SetRequest \cup QueryRequest)
  BY <1>1, OneMoreFrame DEF TypeOK
<1>. QED
  BY <1>2, SequenceCounts, AncAssumption DEF TypeOK, Requests, Query

\* The reply of a receive that is met.
LEMMA MetReply ==
    ASSUME TypeOK, NEW n \in 0..Len(down), NEW i \in DOMAIN Chunk(down, n),
           IsReplyAt(Chunk(down, n), StateWanted, i)
    PROVE  /\ Chunk(down, n)[i] = down[i] /\ i \in 1..n /\ i \in DOMAIN down
           /\ Reply(down[i]) /\ down[i] \in StateFrame
<1>1. i \in 1..n /\ Chunk(down, n)[i] = down[i] /\ down[i] \in AckFrame \cup StateFrame
      /\ i \in DOMAIN down
  BY ReceiveTyped
<1>2. down[i].command = "RESPONSE_ANC" /\ down[i].sequence = awaited
  BY <1>1 DEF IsReplyAt, Answers, StateWanted
<1>3. awaited # 0
  BY SequenceCounts DEF TypeOK
<1>. QED
  BY <1>1, <1>2, <1>3 DEF Reply, AckFrame

\* What a session is told while it is opened, if it is told anything.
LEMMA OpeningTyped ==
    ASSUME TypeOK, NEW asOf \in Nat, OpeningReports(asOf)
    PROVE  /\ anc' \in States \cup {NoState} /\ newest' \in States \cup {NoState}
           /\ ancAsOf' \in Nat
BY DEF TypeOK, OpeningReports

LEMMA TransactionTyped == TypeOK /\ Requests /\ Transaction => TypeOK'
<1>. SUFFICES ASSUME TypeOK, Requests, Transaction PROVE TypeOK'
  OBVIOUS
<1>0. running' \in BOOLEAN /\ strengthFailed' \in BOOLEAN
  BY FlagsTyped
<1>. USE <1>0
<1>1. ASSUME NEW mode \in MainModes, SetMainAnc(mode) PROVE TypeOK'
  <2>1. mode \in Modes /\ SetSequence[mode] \in SequenceNumbers
    BY AncAssumption DEF Modes
  <2>2. [command |-> "SET_ANC", sequence |-> SetSequence[mode], mode |-> mode]
        \in SetRequest \cup QueryRequest
    BY <2>1 DEF SetRequest
  <2>3. up' \in Seq(SetRequest \cup QueryRequest)
    BY <1>1, <2>2, OneMoreFrame DEF SetMainAnc, TypeOK
  <2>4. sequence' \in SequenceNumbers /\ down' \in Seq(AckFrame \cup StateFrame)
    <3>1. 1 \in SequenceNumbers
      BY LastSequenceAssumption DEF SequenceNumbers
    <3>2. sequence' \in {sequence, 1} /\ (down' = down \/ down' = <<>>)
      BY <1>1 DEF SetMainAnc
    <3>3. /\ sequence \in SequenceNumbers /\ down \in Seq(AckFrame \cup StateFrame)
          /\ <<>> \in Seq(AckFrame \cup StateFrame)
      BY EmptySeq DEF TypeOK
    <3>. QED
      BY <3>1, <3>2, <3>3
  <2>5. /\ anc' \in States \cup {NoState} /\ newest' \in States \cup {NoState}
        /\ ancAsOf' \in Nat
    <3>1. UNCHANGED <<anc, ancAsOf, newest>> \/ OpeningReports(writes)
      BY <1>1 DEF SetMainAnc
    <3>. QED
      BY <3>1, OpeningTyped DEF TypeOK
  <2>. QED
    BY <1>1, <2>1, <2>3, <2>4, <2>5, AncAssumption DEF SetMainAnc, TypeOK, device
<1>2. ASSUME NEW mode \in MainModes, ReopenFails(mode) PROVE TypeOK'
  BY <1>2 DEF ReopenFails, TypeOK, device, Modes
<1>3. ASSUME NEW n \in 1..Len(down), ReceiveAck(n) PROVE TypeOK'
  <2>1. n \in 0..Len(down)
    BY OneMoreFrame DEF TypeOK
  <2>2. down' \in Seq(AckFrame \cup StateFrame) /\ newest' \in States \cup {NoState}
    BY <1>3, <2>1, ReceiveTyped, LastStateTyped DEF ReceiveAck
  <2>3. CASE HasReply(Chunk(down, n), AckWanted)
    BY <1>3, <2>2, <2>3, QueryTyped DEF ReceiveAck, TypeOK, device, shown, result
  <2>4. CASE ~HasReply(Chunk(down, n), AckWanted)
    BY <1>3, <2>2, <2>4 DEF ReceiveAck, TypeOK, device, shown, result
  <2>. QED
    BY <2>3, <2>4
<1>4. ASSUME NEW n \in 1..Len(down), ReceiveState(n) PROVE TypeOK'
  <2>1. n \in 0..Len(down)
    BY OneMoreFrame DEF TypeOK
  <2>2. down' \in Seq(AckFrame \cup StateFrame) /\ newest' \in States \cup {NoState}
    BY <1>4, <2>1, ReceiveTyped, LastStateTyped DEF ReceiveState
  <2>3. CASE UNCHANGED <<device, up, host, shown, result, writes>>
    BY <2>2, <2>3 DEF TypeOK, device, host, shown, result
  <2>4. CASE QueryAgain
    BY <2>2, <2>4, QueryTyped DEF QueryAgain, TypeOK, device, shown, result
  <2>5. ASSUME NEW i \in DOMAIN Chunk(down, n), IsReplyAt(Chunk(down, n), StateWanted, i),
               Succeed(Chunk(down, n)[i])
        PROVE  TypeOK'
    <3>1. Chunk(down, n)[i] \in StateFrame
      BY <2>1, <2>5, MetReply
    <3>. HIDE DEF Chunk
    <3>2. Chunk(down, n)[i].state \in States \cup {NoState} /\ Chunk(down, n)[i].asOf \in Nat
      BY <3>1 DEF StateFrame
    <3>. QED
      BY <2>2, <2>5, <3>2 DEF Succeed, TypeOK
  <2>. QED
    BY <1>4, <2>3, <2>4, <2>5 DEF ReceiveState
<1>5. CASE AckTimeout
  BY <1>5, QueryTyped DEF AckTimeout, TypeOK, device, shown, result
<1>6. CASE TransactionFails
  <2>1. target' \in States
    BY <1>6, AncAssumption DEF TransactionFails, Fail, CloseSocket, TypeOK
  <2>. QED
    BY <1>6, <2>1 DEF TransactionFails, Fail, CloseSocket, TypeOK
<1>. QED
  BY <1>1, <1>2, <1>3, <1>4, <1>5, <1>6 DEF Transaction

LEMMA OneShotTyped == TypeOK /\ Requests /\ OneShot => TypeOK'
<1>. SUFFICES ASSUME TypeOK, Requests, NEW mode \in Modes,
                     OneShotVerified(mode) \/ OneShotUncertain(mode) \/ OneShotRefused(mode)
              PROVE  TypeOK'
  BY DEF OneShot
<1>0. running' \in BOOLEAN /\ strengthFailed' \in BOOLEAN
  BY FlagsTyped DEF OneShot
<1>1. /\ sequence' \in SequenceNumbers /\ session' \in {"open", "closed"}
      /\ down' \in Seq(AckFrame \cup StateFrame)
  <2>1. ReopenedOrNot
    BY DEF OneShotVerified, OneShotUncertain, OneShotRefused
  <2>2. 1 \in SequenceNumbers
    BY LastSequenceAssumption DEF SequenceNumbers
  <2>. QED
    BY <2>1, <2>2 DEF ReopenedOrNot
<1>2. Meets[mode] \subseteq States
  BY AncAssumption
<1>3. CASE OneShotVerified(mode)
  <2>1. actual' \in States /\ target' \in States /\ writes' \in Nat
    BY <1>2, <1>3 DEF OneShotVerified, TypeOK
  <2>2. /\ anc' \in States \cup {NoState} /\ newest' \in States \cup {NoState}
        /\ ancAsOf' \in Nat /\ outcome' \in {"none", "verified", "failed"}
    BY <1>3, <2>1 DEF OneShotVerified, TypeOK
  <2>. QED
    BY <1>0, <1>1, <1>3, <2>1, <2>2 DEF OneShotVerified, TypeOK
<1>4. CASE OneShotUncertain(mode)
  <2>1. target' \in States /\ writes' \in Nat
    BY <1>2, <1>4 DEF OneShotUncertain, TypeOK
  <2>2. OpeningReports(writes')
    BY <1>4 DEF OneShotUncertain
  <2>3. /\ anc' \in States \cup {NoState} /\ newest' \in States \cup {NoState}
        /\ ancAsOf' \in Nat
    BY <2>1, <2>2, OpeningTyped
  <2>. QED
    BY <1>0, <1>1, <1>4, <2>1, <2>3 DEF OneShotUncertain, TypeOK
<1>5. CASE OneShotRefused(mode)
  <2>1. writes \in Nat /\ OpeningReports(writes)
    BY <1>5 DEF OneShotRefused, TypeOK
  <2>2. /\ anc' \in States \cup {NoState} /\ newest' \in States \cup {NoState}
        /\ ancAsOf' \in Nat
    BY <2>1, OpeningTyped
  <2>. QED
    BY <1>0, <1>1, <1>5, <2>2 DEF OneShotRefused, TypeOK, device
<1>. QED
  BY <1>3, <1>4, <1>5

\* The last report of a poll, which exists.
LEMMA PolledTyped ==
    ASSUME TypeOK, NEW n \in 0..Len(down), NEW i \in StateReports(Chunk(down, n))
    PROVE  /\ i \in 1..n /\ i \in DOMAIN down /\ Chunk(down, n)[i] = down[i]
           /\ down[i] \in StateFrame /\ down[i].state \in States
           /\ down[i].command = "RESPONSE_ANC"
<1>1. i \in 1..n /\ Chunk(down, n)[i] = down[i] /\ down[i] \in AckFrame \cup StateFrame
      /\ i \in DOMAIN down
  BY ReceiveTyped DEF StateReports
<1>. QED
  BY <1>1 DEF StateReports, AckFrame, StateFrame

LEMMA MonitoringTyped == TypeOK /\ Requests /\ Monitoring => TypeOK'
<1>. SUFFICES ASSUME TypeOK, Requests, Monitoring PROVE TypeOK'
  OBVIOUS
<1>0. running' \in BOOLEAN /\ strengthFailed' \in BOOLEAN
  BY FlagsTyped
<1>1. ASSUME NEW n \in 0..Len(down), Poll(n) PROVE TypeOK'
  <2>1. down' \in Seq(AckFrame \cup StateFrame) /\ newest' \in States \cup {NoState}
    BY <1>1, ReceiveTyped, LastStateTyped DEF Poll
  <2>2. anc' \in States \cup {NoState} /\ ancAsOf' \in Nat
    <3>1. CASE StateReports(Chunk(down, n)) = {}
      BY <1>1, <3>1 DEF Poll, TypeOK
    <3>2. CASE StateReports(Chunk(down, n)) # {}
      <4>1. PICK i \in StateReports(Chunk(down, n)) :
               /\ anc' = Chunk(down, n)[i].state
               /\ ancAsOf' = Chunk(down, n)[i].asOf
        BY <1>1, <3>2 DEF Poll
      <4>2. anc' = down[i].state /\ ancAsOf' = down[i].asOf /\ down[i] \in StateFrame
            /\ down[i].state \in States
        BY <4>1, PolledTyped
      <4>. QED
        BY <4>2 DEF StateFrame
    <3>. QED
      BY <3>1, <3>2
  <2>. QED
    BY <1>0, <1>1, <2>1, <2>2 DEF Poll, TypeOK, device, host, result
<1>2. CASE RefreshSucceeds
  BY <1>0, <1>2, LastSequenceAssumption
     DEF RefreshSucceeds, TypeOK, device, result, SequenceNumbers
<1>3. CASE RefreshFails
  BY <1>0, <1>3 DEF RefreshFails, TypeOK, device, result
<1>4. CASE EqCommand
  <2>1. down' = down \/ down' = <<>>
    BY <1>4 DEF EqCommand
  <2>2. down' \in Seq(AckFrame \cup StateFrame)
    BY <2>1, EmptySeq DEF TypeOK
  <2>3. sequence' \in SequenceNumbers /\ session' \in {"open", "closed"}
    BY <1>4, SequenceCounts DEF EqCommand, TypeOK
  <2>. QED
    BY <1>0, <1>4, <2>2, <2>3 DEF EqCommand, TypeOK, device, shown, result
<1>. QED
  BY <1>1, <1>2, <1>3, <1>4 DEF Monitoring

LEMMA StutterTyped == TypeOK /\ UNCHANGED vars => TypeOK'
BY DEF TypeOK, vars, device, host, shown, result

\* Every variable keeps its type.
LEMMA NextTyped == TypeOK /\ Requests /\ [Next]_vars => TypeOK'
BY EarbudsTyped, TransactionTyped, OneShotTyped, MonitoringTyped, StutterTyped DEF Next

------------------------------------------------------------------------------
(* The order of the link.                                                  *)

LEMMA InitLink == Init => Link
<1>1. Init => Replies /\ Reports
  BY DEF Init, Replies, Reports
<1>. QED
  BY <1>1, InitTyped DEF Link

\* Without a request on its way to the earbuds all writes are handled.
LEMMA AllHandled == up = <<>> => HandledWrites = writes
BY DEF HandledWrites, SetPending

\* No frame answers a query that has yet to be sent or handled.
LEMMA NoReplyYet == Replies /\ (pc # "verify" \/ up # <<>>) =>
                        \A i \in DOMAIN down : ~Reply(down[i])
BY DEF Replies

LEMMA EarbudsLink == Link /\ Earbuds => (Requests /\ Replies /\ Reports)'
<1>. SUFFICES ASSUME Link, Earbuds PROVE (Requests /\ Replies /\ Reports)'
  OBVIOUS
<1>. USE DEF Link, host
<1>0. up \in Seq(SetRequest \cup QueryRequest) /\ down \in Seq(AckFrame \cup StateFrame)
  BY DEF TypeOK
<1>1. CASE EarbudsHandleSet
  <2>1. UNCHANGED <<pc, queries, writes>> /\ up # <<>> /\ up' = Tail(up)
    BY <1>1 DEF EarbudsHandleSet
  <2>2. Requests'
    BY <1>0, <2>1, OneFrameLess DEF Requests
  <2>3. \A i \in DOMAIN down : ~Reply(down[i])
    BY <2>1, NoReplyYet
  <2>4. \A i \in DOMAIN down' : ~Reply(down'[i])
    <3>. DEFINE ack == [command |-> "RESPONSE_SET_ANC", sequence |-> Head(up).sequence]
    <3>1. ack \in AckFrame \cup StateFrame /\ ~Reply(ack)
      <4>1. Head(up) \in SetRequest
        BY <1>0, <1>1, OneFrameLess DEF EarbudsHandleSet, QueryRequest
      <4>. QED
        BY <4>1 DEF AckFrame, SetRequest, Reply
    <3>. HIDE DEF ack
    <3>2. down' = down \/ down' = Append(down, ack)
      BY <1>1 DEF EarbudsHandleSet, ack
    <3>3. \A i \in DOMAIN Append(down, ack) : i \in DOMAIN down \/ i = Len(down) + 1
      BY <1>0, <3>1, OneMoreFrame
    <3>4. \A i \in DOMAIN Append(down, ack) : ~Reply(Append(down, ack)[i])
      BY <1>0, <2>3, <3>1, <3>3, OneMoreFrame
    <3>. QED
      BY <2>3, <3>2, <3>4
  <2>. QED
    BY <2>1, <2>2, <2>4 DEF Replies, Reports, Requests
<1>2. CASE EarbudsHandleQuery
  <2>1. /\ UNCHANGED <<pc, queries, writes>> /\ up # <<>> /\ up' = Tail(up)
        /\ Head(up).command = "QUERY_ANC"
    BY <1>2 DEF EarbudsHandleQuery
  <2>2. Head(up) = up[1] /\ 1 \in DOMAIN up /\ Head(up) \in QueryRequest
    BY <1>0, <2>1, OneFrameLess DEF SetRequest
  <2>3. Len(up) = 1 /\ pc = "verify"
    BY <2>1, <2>2 DEF Requests
  <2>4. up' = <<>>
    <3>1. Len(Tail(up)) = 0 /\ Tail(up) \in Seq(SetRequest \cup QueryRequest)
      BY <1>0, <2>1, <2>3, OneFrameLess
    <3>. QED
      BY <2>1, <3>1, EmptySeq
  <2>5. DOMAIN up = 1..1
    BY <1>0, <2>3, LenProperties
  <2>6. HandledWrites = writes
    BY <2>1, <2>2, <2>5 DEF HandledWrites, SetPending
  <2>7. \A i \in DOMAIN down : ~Reply(down[i])
    BY <2>1, NoReplyYet
  <2>8. CASE down' = down
    BY <2>1, <2>3, <2>4, <2>7, <2>8 DEF Requests, Replies, Reports
  <2>9. ASSUME NEW state \in {actual, NoState},
               down' = Append(down, StateReply(Head(up).sequence, state))
        PROVE  (Requests /\ Replies /\ Reports)'
    <3>. DEFINE reply == StateReply(Head(up).sequence, state)
    <3>1. reply \in AckFrame \cup StateFrame /\ reply.asOf = writes
      <4>1. state \in States \cup {NoState} /\ Head(up).sequence \in SequenceNumbers
        BY <2>2 DEF TypeOK, QueryRequest
      <4>. QED
        BY <2>6, <4>1, ReplyTyped DEF StateReply
    <3>2. /\ DOMAIN down' = 1..(Len(down) + 1) /\ DOMAIN down = 1..Len(down)
          /\ Len(down) \in Nat /\ down'[Len(down) + 1] = reply
          /\ \A i \in DOMAIN down : down'[i] = down[i]
      BY <1>0, <2>9, <3>1, OneMoreFrame
    <3>. HIDE DEF reply
    <3>3. Replies'
      <4>1. ASSUME NEW i \in DOMAIN down', Reply(down'[i]) PROVE i = Len(down) + 1
        BY <2>7, <3>2, <4>1
      <4>. QED
        BY <2>1, <2>3, <2>4, <3>1, <3>2, <4>1 DEF Replies
    <3>. QED
      BY <2>1, <2>3, <2>4, <3>3 DEF Requests, Reports
  <2>. QED
    BY <1>2, <2>8, <2>9 DEF EarbudsHandleQuery
<1>3. CASE EarbudsSettle \/ WearerTouches
  BY <1>3 DEF EarbudsSettle, WearerTouches, Requests, Replies, Reports
<1>4. CASE EarbudsReport
  <2>. DEFINE report == StateReply(0, actual)
  <2>1. /\ UNCHANGED <<pc, up, queries, writes>> /\ down' = Append(down, report)
    BY <1>4 DEF EarbudsReport
  <2>2. report \in AckFrame \cup StateFrame
    BY ReplyTyped DEF TypeOK
  <2>3. ~Reply(report) /\ (up = <<>> => report.asOf = writes)
    BY AllHandled DEF Reply, StateReply
  <2>. HIDE DEF report
  <2>4. /\ DOMAIN down' = 1..(Len(down) + 1) /\ DOMAIN down = 1..Len(down)
        /\ Len(down) \in Nat /\ down'[Len(down) + 1] = report
        /\ \A i \in DOMAIN down : down'[i] = down[i]
    BY <1>0, <2>1, <2>2, OneMoreFrame
  <2>5. Replies'
    <3>. SUFFICES ASSUME NEW i \in DOMAIN down', Reply(down'[i]), NEW j \in DOMAIN down'
                  PROVE  /\ pc = "verify" /\ up = <<>>
                         /\ Reply(down'[j]) => j = i
                         /\ i <= j /\ down'[j].command = "RESPONSE_ANC"
                            => down'[j].asOf = writes
      BY <2>1 DEF Replies
    <3>1. i \in DOMAIN down /\ Reply(down[i])
      BY <2>3, <2>4
    <3>2. CASE j \in DOMAIN down
      BY <2>4, <3>1, <3>2 DEF Replies
    <3>3. CASE j = Len(down) + 1
      BY <2>3, <2>4, <3>1, <3>3 DEF Replies
    <3>. QED
      BY <2>4, <3>2, <3>3
  <2>6. Reports'
    BY <2>1, <2>3, <2>4 DEF Reports, Requests
  <2>. QED
    BY <2>1, <2>5, <2>6 DEF Requests
<1>. QED
  BY <1>1, <1>2, <1>3, <1>4 DEF Earbuds

\* A query goes behind what is still on its way, which is no query.
LEMMA QueryLink ==
    ASSUME Link, Query, writes' = writes,
           pc = "ack" \/ up = <<>>,
           \A i \in DOMAIN down' : ~Reply(down'[i])
    PROVE  (Requests /\ Replies /\ Reports)'
<1>. DEFINE query == [command |-> "QUERY_ANC", sequence |-> sequence]
<1>1. query \in SetRequest \cup QueryRequest /\ query.command = "QUERY_ANC"
  BY DEF Link, TypeOK, QueryRequest
<1>2. up' = Append(up, query) /\ pc' = "verify"
  BY DEF Query
<1>. HIDE DEF query
<1>3. /\ DOMAIN up' = 1..(Len(up) + 1) /\ Len(up') = Len(up) + 1
      /\ DOMAIN up = 1..Len(up) /\ Len(up) \in Nat /\ up'[Len(up) + 1] = query
      /\ \A i \in DOMAIN up : up'[i] = up[i]
  BY <1>1, <1>2, OneMoreFrame DEF Link, TypeOK
<1>4. \A i \in DOMAIN up : up[i].command # "QUERY_ANC"
  BY DEF Link, Requests
<1>5. Requests'
  BY <1>1, <1>2, <1>3, <1>4 DEF Link, Requests
<1>. QED
  BY <1>2, <1>5 DEF Replies, Reports

LEMMA TransactionLink == Link /\ Transaction => (Requests /\ Replies /\ Reports)'
<1>. SUFFICES ASSUME Link, Transaction PROVE (Requests /\ Replies /\ Reports)'
  OBVIOUS
<1>. USE DEF Link, host
<1>1. ASSUME NEW mode \in MainModes, SetMainAnc(mode) PROVE (Requests /\ Replies /\ Reports)'
  <2>. DEFINE set == [command |-> "SET_ANC", sequence |-> SetSequence[mode], mode |-> mode]
  <2>1. /\ pc = "idle" /\ up' = Append(up, set) /\ pc' = "ack" /\ queries' = 0
        /\ writes' = writes + 1 /\ (down' = down \/ down' = <<>>)
    BY <1>1 DEF SetMainAnc
  <2>2. up = <<>> /\ set.command = "SET_ANC"
    BY <2>1 DEF Requests
  <2>. HIDE DEF set
  <2>3. DOMAIN up' = {1} /\ up'[1] = set
    BY <2>1, <2>2
  <2>4. Requests'
    BY <2>1, <2>2, <2>3 DEF Requests, TypeOK
  <2>5. \A i \in DOMAIN down' : ~Reply(down'[i])
    BY <2>1, NoReplyYet
  <2>. QED
    BY <2>1, <2>4, <2>5 DEF Replies, Reports
<1>2. ASSUME NEW mode \in MainModes, ReopenFails(mode) PROVE (Requests /\ Replies /\ Reports)'
  BY <1>2 DEF ReopenFails, Requests, Replies, Reports
<1>3. ASSUME NEW n \in 1..Len(down), ReceiveAck(n) PROVE (Requests /\ Replies /\ Reports)'
  <2>1. n \in 0..Len(down)
    BY OneMoreFrame DEF TypeOK
  <2>2. pc = "ack" /\ down' = Unread(down, n) /\ writes' = writes
    BY <1>3 DEF ReceiveAck
  <2>3. \A i \in DOMAIN down' : ~Reply(down'[i])
    BY <2>1, <2>2, ReceiveTyped, NoReplyYet
  <2>4. CASE Query
    BY <2>2, <2>3, <2>4, QueryLink
  <2>5. CASE UNCHANGED <<up, awaited, sequence, queries, pc>>
    BY <2>2, <2>3, <2>5 DEF Requests, Replies, Reports
  <2>. QED
    BY <1>3, <2>4, <2>5 DEF ReceiveAck
<1>4. ASSUME NEW n \in 1..Len(down), ReceiveState(n) PROVE (Requests /\ Replies /\ Reports)'
  <2>1. n \in 0..Len(down) /\ Len(down) \in Nat
    BY OneMoreFrame DEF TypeOK
  <2>2. pc = "verify" /\ down' = Unread(down, n)
    BY <1>4 DEF ReceiveState
  <2>3. /\ DOMAIN down' = 1..(Len(down) - n)
        /\ \A i \in DOMAIN down' : down'[i] = down[n + i] /\ n + i \in DOMAIN down
    BY <2>1, <2>2, ReceiveTyped
  <2>4. CASE UNCHANGED <<device, up, host, shown, result, writes>>
    <3>1. Replies'
      <4>. SUFFICES ASSUME NEW i \in DOMAIN down', Reply(down'[i]), NEW j \in DOMAIN down'
                    PROVE  /\ pc = "verify" /\ up = <<>>
                           /\ Reply(down'[j]) => j = i
                           /\ i <= j /\ down'[j].command = "RESPONSE_ANC"
                              => down'[j].asOf = writes
        BY <2>4 DEF Replies
      <4>1. n + i \in DOMAIN down /\ n + j \in DOMAIN down
            /\ (n + i = n + j => i = j) /\ (i <= j => n + i <= n + j)
        BY <2>1, <2>3
      <4>. QED
        BY <2>3, <4>1 DEF Replies
    <3>. QED
      BY <2>2, <2>4, <3>1 DEF Requests, Reports
  <2>5. ASSUME NEW i \in DOMAIN Chunk(down, n), IsReplyAt(Chunk(down, n), StateWanted, i),
               QueryAgain \/ Succeed(Chunk(down, n)[i])
        PROVE  (Requests /\ Replies /\ Reports)'
    <3>1. i \in 1..n /\ i \in DOMAIN down /\ Reply(down[i])
      BY <2>1, <2>5, MetReply
    <3>2. /\ up = <<>>
          /\ \A j \in DOMAIN down :
                /\ Reply(down[j]) => j = i
                /\ i <= j /\ down[j].command = "RESPONSE_ANC" => down[j].asOf = writes
      BY <3>1 DEF Replies
    <3>3. \A j \in DOMAIN down' : n + j \in DOMAIN down /\ n + j # i /\ i <= n + j
      BY <2>1, <2>3, <3>1
    <3>4. \A j \in DOMAIN down' : ~Reply(down'[j])
      BY <2>3, <3>2, <3>3
    <3>5. CASE QueryAgain
      BY <3>2, <3>4, <3>5, QueryLink DEF QueryAgain
    <3>6. CASE Succeed(Chunk(down, n)[i])
      <4>1. pc' = "idle" /\ up' = <<>> /\ writes' = writes
        BY <3>2, <3>6 DEF Succeed
      <4>2. \A j \in DOMAIN down' :
               down'[j].command = "RESPONSE_ANC" => down'[j].asOf = writes
        BY <2>3, <3>2, <3>3
      <4>. QED
        BY <3>4, <4>1, <4>2 DEF Requests, Replies, Reports
    <3>. QED
      BY <2>5, <3>5, <3>6
  <2>. QED
    BY <1>4, <2>4, <2>5 DEF ReceiveState
<1>5. CASE AckTimeout
  <2>1. pc = "ack" /\ Query /\ UNCHANGED <<down, writes>>
    BY <1>5 DEF AckTimeout
  <2>2. \A i \in DOMAIN down' : ~Reply(down'[i])
    BY <2>1, NoReplyYet
  <2>. QED
    BY <2>1, <2>2, QueryLink
<1>6. CASE TransactionFails
  BY <1>6 DEF TransactionFails, Fail, CloseSocket, Requests, Replies, Reports
<1>. QED
  BY <1>1, <1>2, <1>3, <1>4, <1>5, <1>6 DEF Transaction

LEMMA OneShotLink == Link /\ OneShot => (Requests /\ Replies /\ Reports)'
<1>. SUFFICES ASSUME Link, OneShot PROVE (Requests /\ Replies /\ Reports)'
  OBVIOUS
<1>1. pc = "idle" /\ UNCHANGED <<up, pc, queries>> /\ down' = <<>>
  BY DEF OneShot, OneShotVerified, OneShotUncertain, OneShotRefused, OneShotGuard,
     ReopenedOrNot
<1>. QED
  BY <1>1 DEF Link, Requests, Replies, Reports

LEMMA MonitoringLink == Link /\ Monitoring => (Requests /\ Replies /\ Reports)'
<1>. SUFFICES ASSUME Link, Monitoring PROVE (Requests /\ Replies /\ Reports)'
  OBVIOUS
<1>. USE DEF Link, host
<1>1. ASSUME NEW n \in 0..Len(down), Poll(n) PROVE (Requests /\ Replies /\ Reports)'
  <2>1. pc = "idle" /\ UNCHANGED <<up, pc, queries, writes>> /\ down' = Unread(down, n)
    BY <1>1 DEF Poll
  <2>2. \A i \in DOMAIN down : ~Reply(down[i])
    BY <2>1, NoReplyYet
  <2>3. \A i \in DOMAIN down' : n + i \in DOMAIN down /\ down'[i] = down[n + i]
    BY <2>1, ReceiveTyped
  <2>. QED
    BY <2>1, <2>2, <2>3 DEF Requests, Replies, Reports
<1>2. CASE RefreshSucceeds \/ RefreshFails
  BY <1>2 DEF RefreshSucceeds, RefreshFails, Requests, Replies, Reports
<1>3. CASE EqCommand
  <2>1. UNCHANGED <<up, pc, queries, writes>> /\ (down' = down \/ down' = <<>>)
    BY <1>3 DEF EqCommand
  <2>. QED
    BY <2>1 DEF Requests, Replies, Reports
<1>. QED
  BY <1>1, <1>2, <1>3 DEF Monitoring

LEMMA NextLink == Link /\ [Next]_vars => Link'
<1>1. Link /\ UNCHANGED vars => (Requests /\ Replies /\ Reports)'
  BY DEF Link, Requests, Replies, Reports, vars, host
<1>. QED
  BY <1>1, NextTyped, EarbudsLink, TransactionLink, OneShotLink, MonitoringLink
     DEF Link, Next

LEMMA AlwaysLink == Spec => []Link
BY InitLink, NextLink, PTL DEF Spec

\* Every variable keeps its type: no count of the earbuds goes below zero, and the
\* queries of a command stay within their limit.
THEOREM TypeCorrect == Spec => []TypeOK
BY AlwaysLink, PTL DEF Link

\* When a command has ended, in whatever way, nothing on the link could be mistaken
\* for the reply to a later query.
THEOREM NoReplyIsLeftBehind == Spec => []NoReplyLeftBehind
<1>1. Link => NoReplyLeftBehind
  BY DEF Link, Requests, Replies, Reply, NoReplyLeftBehind
<1>. QED
  BY <1>1, AlwaysLink, PTL

------------------------------------------------------------------------------
(* What a write is verified by, and what is cached.                        *)

\* The reply by which a command succeeds, or which it has to ask for again, was sent
\* after its write.
LEMMA FreshReply ==
    ASSUME Link, NEW n \in 1..Len(down), NEW i \in DOMAIN Chunk(down, n),
           IsReplyAt(Chunk(down, n), StateWanted, i)
    PROVE  Chunk(down, n)[i].asOf = writes
<1>1. n \in 0..Len(down)
  BY OneMoreFrame DEF Link, TypeOK
<1>2. Chunk(down, n)[i] = down[i] /\ i \in DOMAIN down /\ Reply(down[i]) /\ i \in 1..n
      /\ down[i].command = "RESPONSE_ANC"
  BY <1>1, MetReply DEF Link, Reply
<1>. QED
  BY <1>2 DEF Link, Replies

\* So was every state that a poll can find.
LEMMA FreshReport ==
    ASSUME Link, NEW n \in 0..Len(down), Poll(n), StateReports(Chunk(down, n)) # {}
    PROVE  anc' \in States /\ ancAsOf' = writes
<1>1. PICK i \in StateReports(Chunk(down, n)) :
         anc' = Chunk(down, n)[i].state /\ ancAsOf' = Chunk(down, n)[i].asOf
  BY DEF Poll
<1>2. /\ i \in DOMAIN down /\ anc' = down[i].state /\ ancAsOf' = down[i].asOf
      /\ down[i].state \in States /\ down[i].command = "RESPONSE_ANC"
  BY <1>1, PolledTyped DEF Link
<1>. QED
  BY <1>2 DEF Link, Reports, Poll

\* The outcome of a command stands until the next.
LEMMA VerifiedStep ==
    ASSUME Link, VerifiedByFreshRead, [Next]_vars
    PROVE  VerifiedByFreshRead'
<1>. USE DEF VerifiedByFreshRead
<1>1. CASE Earbuds \/ UNCHANGED vars
  BY <1>1 DEF Earbuds, EarbudsHandleSet, EarbudsHandleQuery, EarbudsSettle, WearerTouches,
     EarbudsReport, host, result, vars
<1>2. ASSUME NEW n \in 1..Len(down), ReceiveState(n) PROVE VerifiedByFreshRead'
  <2>1. CASE UNCHANGED <<device, up, host, shown, result, writes>>
    BY <2>1 DEF host, result
  <2>2. ASSUME NEW i \in DOMAIN Chunk(down, n), IsReplyAt(Chunk(down, n), StateWanted, i),
               Chunk(down, n)[i].state \in Meets[command], Succeed(Chunk(down, n)[i])
        PROVE  VerifiedByFreshRead'
    BY <2>2, FreshReply DEF Succeed
  <2>3. CASE QueryAgain
    BY <2>3 DEF QueryAgain, result
  <2>. QED
    BY <1>2, <2>1, <2>2, <2>3 DEF ReceiveState
<1>3. CASE Transaction
  <2>1. ASSUME NEW mode \in MainModes, SetMainAnc(mode) \/ ReopenFails(mode)
        PROVE  VerifiedByFreshRead'
    BY <2>1 DEF SetMainAnc, ReopenFails
  <2>2. ASSUME NEW n \in 1..Len(down), ReceiveAck(n) PROVE VerifiedByFreshRead'
    BY <2>2 DEF ReceiveAck, result
  <2>3. CASE AckTimeout
    BY <2>3 DEF AckTimeout, result
  <2>4. CASE TransactionFails
    BY <2>4 DEF TransactionFails, Fail
  <2>. QED
    BY <1>2, <1>3, <2>1, <2>2, <2>3, <2>4 DEF Transaction
<1>4. CASE OneShot
  BY <1>4 DEF OneShot, OneShotVerified, OneShotUncertain, OneShotRefused
<1>5. CASE Monitoring
  BY <1>5 DEF Monitoring, Poll, EqCommand, RefreshSucceeds, RefreshFails, host, result
<1>. QED
  BY <1>1, <1>3, <1>4, <1>5 DEF Next

\* A write is reported as verified only on the strength of a state that meets it and
\* that the earbuds gave after they had handled it, for any modes, delays, chunks and
\* numbers of queries, and whatever the sequence numbers are once they have wrapped.
THEOREM AlwaysVerifiedByFreshRead == Spec => []VerifiedByFreshRead
<1>1. Init => VerifiedByFreshRead
  BY DEF Init, VerifiedByFreshRead
<1>2. Link /\ VerifiedByFreshRead /\ [Next]_vars => VerifiedByFreshRead'
  BY VerifiedStep
<1>. QED
  BY <1>1, <1>2, AlwaysLink, PTL DEF Spec

\* What is cached by then is never older than the write.
LEMMA CachedStep ==
    ASSUME Link, Cached, [Next]_vars
    PROVE  Cached'
<1>. USE DEF Cached, ShownAncNotOlderThanWrite
<1>1. CASE Earbuds \/ UNCHANGED vars
  <2>1. UNCHANGED <<pc, session, running, anc, strengthFailed, ancAsOf, writes>>
    BY <1>1 DEF Earbuds, EarbudsHandleSet, EarbudsHandleQuery, EarbudsSettle,
       WearerTouches, EarbudsReport, host, shown, vars
  <2>. QED
    BY <2>1
<1>2. ASSUME NEW n \in 1..Len(down), ReceiveState(n) PROVE Cached'
  <2>1. CASE UNCHANGED <<device, up, host, shown, result, writes>>
    BY <2>1 DEF host, shown
  <2>2. ASSUME NEW i \in DOMAIN Chunk(down, n), IsReplyAt(Chunk(down, n), StateWanted, i),
               Succeed(Chunk(down, n)[i])
        PROVE  Cached'
    <3>1. ancAsOf' = writes /\ writes' = writes /\ pc' = "idle" /\ running' = running
          /\ session' = session
      BY <2>2, FreshReply DEF Succeed
    <3>2. running
      BY <1>2 DEF ReceiveState
    <3>. QED
      BY <3>1, <3>2
  <2>3. CASE QueryAgain
    <3>1. pc = "verify" /\ pc' = "verify" /\ UNCHANGED <<running, session, anc>>
      BY <1>2, <2>3 DEF ReceiveState, QueryAgain, Query, shown
    <3>. QED
      BY <3>1
  <2>. QED
    BY <1>2, <2>1, <2>2, <2>3 DEF ReceiveState
<1>3. CASE Transaction
  <2>1. ASSUME NEW mode \in MainModes, SetMainAnc(mode) PROVE Cached'
    <3>1. pc' = "ack" /\ running' = running /\ running
      BY <2>1 DEF SetMainAnc
    <3>. QED
      BY <3>1
  <2>2. ASSUME NEW mode \in MainModes, ReopenFails(mode) PROVE Cached'
    BY <2>2 DEF ReopenFails
  <2>3. ASSUME NEW n \in 1..Len(down), ReceiveAck(n) PROVE Cached'
    <3>1. pc = "ack" /\ pc' \in {"ack", "verify"} /\ UNCHANGED <<running, session, anc>>
      BY <2>3 DEF ReceiveAck, Query, shown
    <3>. QED
      BY <3>1
  <2>4. CASE AckTimeout
    <3>1. pc = "ack" /\ pc' = "verify" /\ UNCHANGED <<running, session, anc>>
      BY <2>4 DEF AckTimeout, Query, shown
    <3>. QED
      BY <3>1
  <2>5. CASE TransactionFails
    BY <2>5 DEF TransactionFails, Fail
  <2>. QED
    BY <1>2, <1>3, <2>1, <2>2, <2>3, <2>4, <2>5 DEF Transaction
<1>4. CASE OneShot
  <2>1. PICK mode \in Modes :
           OneShotVerified(mode) \/ OneShotUncertain(mode) \/ OneShotRefused(mode)
    BY <1>4 DEF OneShot
  <2>2. UNCHANGED <<running, pc>>
    BY <2>1 DEF OneShotVerified, OneShotUncertain, OneShotRefused
  <2>7. session' = "open" => running
    <3>1. ReopenedOrNot
      BY <2>1 DEF OneShotVerified, OneShotUncertain, OneShotRefused
    <3>. QED
      BY <3>1 DEF ReopenedOrNot
  <2>3. CASE OneShotVerified(mode) /\ running
    BY <2>2, <2>3, <2>7 DEF OneShotVerified
  <2>4. CASE OneShotVerified(mode) /\ ~running
    BY <2>2, <2>4, <2>7 DEF OneShotVerified
  <2>5. CASE OneShotUncertain(mode)
    <3>1. strengthFailed' = TRUE /\ OpeningReports(writes')
      BY <2>5 DEF OneShotUncertain
    <3>2. ~running => anc' = anc
      BY <2>7, <3>1 DEF OpeningReports
    <3>. QED
      BY <2>2, <2>7, <3>1, <3>2
  <2>6. CASE OneShotRefused(mode)
    <3>1. UNCHANGED <<strengthFailed, writes>> /\ OpeningReports(writes) /\ pc = "idle"
      BY <2>6 DEF OneShotRefused
    <3>2. ~running => anc' = anc
      BY <2>7, <3>1 DEF OpeningReports
    <3>3. UNCHANGED <<anc, ancAsOf>> \/ ancAsOf' = writes
      BY <3>1 DEF OpeningReports
    <3>. QED
      BY <2>2, <2>7, <3>1, <3>2, <3>3
  <2>. QED
    BY <2>1, <2>3, <2>4, <2>5, <2>6
<1>5. CASE Monitoring
  <2>1. ASSUME NEW n \in 0..Len(down), Poll(n), StateReports(Chunk(down, n)) = {}
        PROVE  Cached'
    <3>1. UNCHANGED <<pc, session, running, anc, strengthFailed, ancAsOf, writes>>
      BY <2>1 DEF Poll, host
    <3>. QED
      BY <3>1
  <2>2. ASSUME NEW n \in 0..Len(down), Poll(n), StateReports(Chunk(down, n)) # {}
        PROVE  Cached'
    <3>1. ancAsOf' = writes
      BY <2>2, FreshReport
    <3>2. UNCHANGED <<pc, session, running, writes>> /\ session = "open"
      BY <2>2 DEF Poll, host
    <3>. QED
      BY <3>1, <3>2
  <2>3. CASE RefreshSucceeds
    BY <2>3 DEF RefreshSucceeds
  <2>4. CASE RefreshFails
    BY <2>4 DEF RefreshFails
  <2>5. CASE EqCommand
    <3>1. /\ UNCHANGED <<pc, running, anc, strengthFailed, ancAsOf, writes>>
          /\ session = "open"
      BY <2>5 DEF EqCommand, shown
    <3>. QED
      BY <3>1
  <2>. QED
    BY <1>5, <2>1, <2>2, <2>3, <2>4, <2>5 DEF Monitoring
<1>. QED
  BY <1>1, <1>3, <1>4, <1>5 DEF Next

LEMMA AlwaysCached == Spec => []Cached
<1>1. Init => Cached
  BY DEF Init, Cached, ShownAncNotOlderThanWrite
<1>. QED
  BY <1>1, CachedStep, AlwaysLink, PTL DEF Spec

\* Whenever another thread can see the cached ANC it was read after the last write
\* that may have reached the earbuds, except after a failed strength write.
THEOREM ShownAncIsCurrent == Spec => []ShownAncNotOlderThanWrite
<1>1. Cached => ShownAncNotOlderThanWrite
  BY DEF Cached
<1>. QED
  BY <1>1, AlwaysCached, PTL

------------------------------------------------------------------------------
(* What a step may do.                                                     *)

\* SET_ANC goes out at the start of a command, once, and never again in it.
THEOREM NeverReplayed == Spec => SetIsNeverReplayed
<1>1. [Next]_vars => [writes' # writes => pc = "idle" /\ writes' = writes + 1]_vars
  <2>. SUFFICES ASSUME Next, writes' # writes
                PROVE  pc = "idle" /\ writes' = writes + 1
    OBVIOUS
  <2>1. CASE Earbuds
    BY <2>1 DEF Earbuds, EarbudsHandleSet, EarbudsHandleQuery, EarbudsSettle,
       WearerTouches, EarbudsReport
  <2>2. CASE Transaction
    BY <2>2 DEF Transaction, SetMainAnc, ReopenFails, ReceiveAck, ReceiveState, AckTimeout,
       TransactionFails, Fail, Succeed, QueryAgain
  <2>3. CASE OneShot
    BY <2>3 DEF OneShot, OneShotVerified, OneShotUncertain, OneShotRefused, OneShotGuard
  <2>4. CASE Monitoring
    BY <2>4 DEF Monitoring, Poll, EqCommand, RefreshSucceeds, RefreshFails
  <2>. QED
    BY <2>1, <2>2, <2>3, <2>4 DEF Next
<1>. QED
  BY <1>1, PTL DEF Spec, SetIsNeverReplayed

EventStep ==
    pc' = "idle" /\ anc' # NoState =>
        \/ anc' = newest'
        \/ UNCHANGED <<anc, newest>>
        \/ pc = "verify" /\ anc' = verifiedBy'.state

\* Of the states that a poll receives the last is cached, and it is the newest.
LEMMA PollCachesNewest ==
    ASSUME Link, NEW n \in 0..Len(down), Poll(n)
    PROVE  EventStep
<1>. DEFINE frames == Chunk(down, n)
            reports == StateReports(frames)
<1>1. CASE reports = {}
  BY <1>1 DEF Poll, LastState, EventStep
<1>2. CASE reports # {}
  <2>1. reports \in SUBSET (1..n) /\ n \in Nat
    BY ReceiveTyped DEF StateReports, Link
  <2>2. Max(reports) \in reports /\ \A j \in reports : j <= Max(reports)
    <3>. HIDE DEF reports
    <3>. QED
      BY <1>2, <2>1, LastIndex
  <2>3. PICK i \in reports : (\A j \in reports : j <= i) /\ anc' = frames[i].state
    BY <1>2 DEF Poll
  <2>4. i = Max(reports)
    BY <2>1, <2>2, <2>3
  <2>5. newest' = frames[Max(reports)].state
    BY <1>2 DEF Poll, LastState
  <2>. QED
    BY <2>3, <2>4, <2>5 DEF EventStep
<1>. QED
  BY <1>1, <1>2

\* The cached ANC follows what the session receives, in its order.
THEOREM EventsAlwaysUpdateAnc == Spec => EventsUpdateAnc
<1>1. Link /\ [Next]_vars => [EventStep]_vars
  <2>. SUFFICES ASSUME Link, Next PROVE EventStep
    OBVIOUS
  <2>1. CASE Earbuds
    BY <2>1 DEF Earbuds, EarbudsHandleSet, EarbudsHandleQuery, EarbudsSettle,
       WearerTouches, EarbudsReport, shown, EventStep
  <2>2. CASE Transaction
    <3>1. ASSUME NEW mode \in MainModes, SetMainAnc(mode) \/ ReopenFails(mode)
          PROVE  EventStep
      BY <3>1 DEF SetMainAnc, ReopenFails, EventStep
    <3>2. ASSUME NEW n \in 1..Len(down), ReceiveAck(n) PROVE EventStep
      BY <3>2 DEF ReceiveAck, Query, EventStep
    <3>3. ASSUME NEW n \in 1..Len(down), ReceiveState(n) PROVE EventStep
      BY <3>3 DEF ReceiveState, QueryAgain, Query, Succeed, host, EventStep
    <3>4. CASE AckTimeout \/ TransactionFails
      BY <3>4 DEF AckTimeout, Query, TransactionFails, Fail, EventStep
    <3>. QED
      BY <2>2, <3>1, <3>2, <3>3, <3>4 DEF Transaction
  <2>3. CASE OneShot
    BY <2>3 DEF OneShot, OneShotVerified, OneShotUncertain, OneShotRefused, OpeningReports,
       EventStep
  <2>4. CASE Monitoring
    <3>1. ASSUME NEW n \in 0..Len(down), Poll(n) PROVE EventStep
      BY <3>1, PollCachesNewest
    <3>2. CASE EqCommand
      BY <3>2 DEF EqCommand, shown, EventStep
    <3>3. CASE RefreshSucceeds \/ RefreshFails
      BY <3>3 DEF RefreshSucceeds, RefreshFails, EventStep
    <3>. QED
      BY <2>4, <3>1, <3>2, <3>3 DEF Monitoring
  <2>. QED
    BY <2>1, <2>2, <2>3, <2>4 DEF Next
<1>. QED
  BY <1>1, AlwaysLink, PTL DEF Spec, EventsUpdateAnc, EventStep

------------------------------------------------------------------------------
(* The register that other threads meet.                                   *)

LEMMA InitRegister == Init => Register!Init
BY DEF Init, Register!Init

\* A step of the frames that other threads do not see.
Unseen == UNCHANGED <<pc, writes, anc, ancAsOf, outcome, strengthFailed>>

Waiting == pc # "idle" /\ pc' # "idle" /\ UNCHANGED <<writes, anc, ancAsOf, outcome,
                                                      strengthFailed>>

LEMMA UnseenStutters == Unseen \/ Waiting => UNCHANGED Register!vars
BY DEF Unseen, Waiting, Register!vars

\* The reports that a session is opened with are heard by the register.
LEMMA OpeningHeard ==
    ASSUME Link, NEW asOf, OpeningReports(asOf)
    PROVE  Register!Hears(asOf)
<1>1. CASE UNCHANGED <<anc, ancAsOf, newest>>
  BY <1>1 DEF Register!Hears
<1>2. CASE anc' = actual /\ ancAsOf' = asOf
  <2>1. anc' # NoState
    BY <1>2, AncAssumption DEF Link, TypeOK
  <2>. QED
    BY <1>2, <2>1 DEF Register!Hears
<1>. QED
  BY <1>1, <1>2 DEF OpeningReports

LEMMA TransactionImplements ==
    ASSUME Link, Transaction
    PROVE  Register!Next \/ UNCHANGED Register!vars
<1>. USE DEF Register!EndsWith, Register!Settles, Register!Hears
<1>1. ASSUME NEW mode \in MainModes, SetMainAnc(mode) PROVE Register!Write
  <2>1. UNCHANGED <<anc, ancAsOf, newest>> \/ OpeningReports(writes)
    BY <1>1 DEF SetMainAnc
  <2>2. Register!Hears(writes)
    BY <2>1, OpeningHeard
  <2>. HIDE DEF Register!Hears
  <2>. QED
    BY <1>1, <2>2 DEF SetMainAnc, Register!Write
<1>2. ASSUME NEW mode \in MainModes, ReopenFails(mode) PROVE Register!Rejected
  BY <1>2 DEF ReopenFails, Register!Rejected
<1>3. ASSUME NEW n \in 1..Len(down), ReceiveAck(n) PROVE Waiting
  BY <1>3 DEF ReceiveAck, Query, shown, result, Waiting
<1>4. CASE AckTimeout
  BY <1>4, UnseenStutters DEF AckTimeout, Query, shown, result, Waiting
<1>5. ASSUME NEW n \in 1..Len(down), ReceiveState(n)
      PROVE  Register!WriteSucceeds \/ Unseen \/ Waiting
  <2>1. CASE UNCHANGED <<device, up, host, shown, result, writes>>
    BY <2>1 DEF host, shown, result, Unseen
  <2>2. CASE QueryAgain
    BY <1>5, <2>2 DEF ReceiveState, QueryAgain, Query, shown, result, Waiting
  <2>3. ASSUME NEW i \in DOMAIN Chunk(down, n), IsReplyAt(Chunk(down, n), StateWanted, i),
               Chunk(down, n)[i].state \in Meets[command], Succeed(Chunk(down, n)[i])
        PROVE  Register!WriteSucceeds
    <3>1. anc' # NoState
      BY <2>3, AncAssumption DEF Succeed, Link, TypeOK
    <3>2. ancAsOf' = writes
      BY <2>3, FreshReply DEF Succeed
    <3>. QED
      BY <1>5, <2>3, <3>1, <3>2 DEF ReceiveState, Succeed, Register!WriteSucceeds
  <2>. QED
    BY <1>5, <2>1, <2>2, <2>3 DEF ReceiveState
<1>6. CASE TransactionFails
  <2>1. Register!Fails
    BY <1>6 DEF TransactionFails, Fail, Register!Fails
  <2>. QED
    BY <2>1 DEF Register!Next
<1>. QED
  BY <1>1, <1>2, <1>3, <1>4, <1>5, <1>6, UnseenStutters DEF Transaction, Register!Next

LEMMA OneShotImplements ==
    ASSUME Link, Cached, OneShot
    PROVE  Register!OneShot \/ Register!Rejected
<1>. USE DEF Register!EndsWith, Register!Settles, Register!Hears
<1>1. PICK mode \in Modes :
         OneShotVerified(mode) \/ OneShotUncertain(mode) \/ OneShotRefused(mode)
  BY DEF OneShot
<1>2. CASE OneShotVerified(mode)
  <2>1. actual' # NoState
    BY <1>2, AncAssumption DEF OneShotVerified
  <2>2. /\ pc = "idle" /\ pc' = "idle" /\ writes' = writes + 1 /\ strengthFailed' = FALSE
        /\ outcome' = "verified" \/ outcome' = "failed"
    BY <1>2 DEF OneShotVerified, OneShotGuard
  <2>3. (anc' # NoState /\ ancAsOf' = writes')
        \/ (anc = NoState /\ anc' = NoState /\ ancAsOf' = ancAsOf)
    <3>1. CASE running
      BY <1>2, <2>1, <3>1 DEF OneShotVerified
    <3>2. CASE ~running
      BY <1>2, <3>2 DEF OneShotVerified, Cached
    <3>. QED
      BY <3>1, <3>2
  <2>. QED
    BY <2>2, <2>3 DEF Register!OneShot
<1>3. CASE OneShotUncertain(mode)
  <2>1. Register!Hears(writes')
    BY <1>3, OpeningHeard DEF OneShotUncertain
  <2>. HIDE DEF Register!Hears
  <2>. QED
    BY <1>3, <2>1 DEF OneShotUncertain, OneShotGuard, Register!OneShot
<1>4. CASE OneShotRefused(mode)
  <2>1. Register!Hears(writes)
    BY <1>4, OpeningHeard DEF OneShotRefused
  <2>. HIDE DEF Register!Hears
  <2>. QED
    BY <1>4, <2>1 DEF OneShotRefused, Register!Rejected
<1>. QED
  BY <1>1, <1>2, <1>3, <1>4

LEMMA MonitoringImplements ==
    ASSUME Link, Monitoring
    PROVE  Register!Refreshes \/ UNCHANGED Register!vars
<1>. USE DEF Register!Settles
<1>1. ASSUME NEW n \in 0..Len(down), Poll(n) PROVE Register!Refreshes \/ Unseen
  <2>1. CASE StateReports(Chunk(down, n)) = {}
    BY <1>1, <2>1 DEF Poll, host, result, Unseen
  <2>2. CASE StateReports(Chunk(down, n)) # {}
    <3>1. anc' # NoState /\ ancAsOf' = writes
      BY <1>1, <2>2, FreshReport, AncAssumption
    <3>. QED
      BY <1>1, <3>1 DEF Poll, host, result, Register!Refreshes
  <2>. QED
    BY <2>1, <2>2
<1>2. CASE RefreshSucceeds
  BY <1>2, AncAssumption DEF RefreshSucceeds, result, Link, TypeOK, Register!Refreshes
<1>3. CASE RefreshFails
  BY <1>3 DEF RefreshFails, result, Register!Refreshes
<1>4. CASE EqCommand
  <2>1. Unseen
    BY <1>4 DEF EqCommand, shown, result, Unseen
  <2>. QED
    BY <2>1, UnseenStutters
<1>. QED
  BY <1>1, <1>2, <1>3, <1>4, UnseenStutters DEF Monitoring

\* Each step of the frames is one of the register, or is not seen.
LEMMA NextImplements ==
    ASSUME Link, Cached, [Next]_vars
    PROVE  [Register!Next]_Register!vars
<1>1. CASE Earbuds \/ UNCHANGED vars
  <2>1. Unseen
    BY <1>1 DEF Earbuds, EarbudsHandleSet, EarbudsHandleQuery, EarbudsSettle,
       WearerTouches, EarbudsReport, host, shown, result, vars, Unseen
  <2>. QED
    BY <2>1, UnseenStutters
<1>2. CASE Transaction
  BY <1>2, TransactionImplements
<1>3. CASE OneShot
  BY <1>3, OneShotImplements DEF Register!Next
<1>4. CASE Monitoring
  BY <1>4, MonitoringImplements DEF Register!Next
<1>. QED
  BY <1>1, <1>2, <1>3, <1>4 DEF Next

\* However frames, queries and sockets come and go, for any number of them, other
\* threads meet one register: a write is verified, or leaves nothing older cached, or
\* lapses where the code lets it.
THEOREM ImplementsRegister == Spec => ImplementsVerifiedWrite
<1>1. Link /\ Cached /\ [Next]_vars => [Register!Next]_Register!vars
  BY NextImplements
<1>. QED
  BY <1>1, InitRegister, AlwaysLink, AlwaysCached, PTL
     DEF Spec, ImplementsVerifiedWrite, Register!Spec

------------------------------------------------------------------------------
(* The register by itself, whatever implements it: what it promises to the *)
(* threads that share the controller.                                      *)

VARIABLES phase, sent, known, ended, lapsed

Promise == INSTANCE VerifiedWrite WITH writes <- sent, outcome <- ended

LEMMA PromiseInitTyped == Promise!Init => Promise!TypeOK
<1>. SUFFICES ASSUME Promise!Init PROVE Promise!TypeOK
  OBVIOUS
<1>1. lapsed \in BOOLEAN
  BY Zenon DEF Promise!Init
<1>. QED
  BY <1>1 DEF Promise!Init, Promise!TypeOK

\* Every variable of the register keeps its type, for any number of writes.
THEOREM PromiseTypeCorrect == Promise!Spec => []Promise!TypeOK
<1>1. Promise!TypeOK /\ [Promise!Next]_Promise!vars => Promise!TypeOK'
  <2>. SUFFICES ASSUME Promise!TypeOK, [Promise!Next]_Promise!vars PROVE Promise!TypeOK'
    OBVIOUS
  <2>1. lapsed' \in BOOLEAN
    BY Zenon DEF Promise!TypeOK, Promise!vars, Promise!Next, Promise!Begin, Promise!Write,
       Promise!WriteSucceeds, Promise!ReadSucceeds, Promise!Fails, Promise!Rejected,
       Promise!Lapses, Promise!OneShot, Promise!Refreshes, Promise!Settles
  <2>. DEFINE Typed == /\ phase \in {"idle", "reading", "written"}
                       /\ sent \in Nat
                       /\ known \in SUBSET Nat
                       /\ ended \in {"none", "success", "failure"}
  <2>2. Typed'
    <3>. USE DEF Promise!TypeOK, Promise!EndsWith, Promise!Hears
    <3>1. CASE Promise!Begin
      BY <3>1 DEF Promise!Begin
    <3>2. CASE Promise!Write
      BY <3>2 DEF Promise!Write
    <3>3. CASE Promise!WriteSucceeds \/ Promise!ReadSucceeds
      BY <3>3 DEF Promise!WriteSucceeds, Promise!ReadSucceeds
    <3>4. CASE Promise!Fails \/ Promise!Rejected \/ Promise!Lapses
      BY <3>4 DEF Promise!Fails, Promise!Rejected, Promise!Lapses
    <3>5. CASE Promise!OneShot
      <4>1. sent' \in Nat /\ phase' = "idle" /\ ended' \in {"success", "failure"}
        BY <3>5 DEF Promise!OneShot
      <4>2. known' = {sent'} \/ known' = known
        BY <3>5 DEF Promise!OneShot
      <4>. QED
        BY <4>1, <4>2
    <3>6. CASE Promise!Refreshes
      BY <3>6 DEF Promise!Refreshes
    <3>7. CASE UNCHANGED Promise!vars
      BY <3>7 DEF Promise!vars
    <3>. QED
      BY <3>1, <3>2, <3>3, <3>4, <3>5, <3>6, <3>7 DEF Promise!Next
  <2>. QED
    BY <2>1, <2>2 DEF Promise!TypeOK
<1>. QED
  BY <1>1, PromiseInitTyped, PTL DEF Promise!Spec

\* Whatever ends a command, the state that other threads can see cached was read
\* after the last write, unless that command lapsed.  (While a write is under way
\* the cached state is older than it, and the lock hides it.)
THEOREM PromiseAlwaysCurrent == Promise!Spec => []Promise!KnownIsCurrent
<1>. DEFINE UpToDate == ~lapsed => known \subseteq {sent}
            Inv == Promise!TypeOK /\ (phase # "written" => UpToDate)
<1>1. Promise!Init => Inv
  BY PromiseInitTyped DEF Promise!Init
<1>2. Inv /\ Promise!TypeOK' /\ [Promise!Next]_Promise!vars => Inv'
  <2>. SUFFICES ASSUME Inv, Promise!TypeOK', [Promise!Next]_Promise!vars
                PROVE  (phase # "written" => UpToDate)'
    OBVIOUS
  <2>. USE DEF Promise!EndsWith, Promise!Settles, Promise!Hears
  <2>1. CASE Promise!Begin
    BY <2>1 DEF Promise!Begin
  <2>2. CASE Promise!Write
    BY <2>2 DEF Promise!Write
  <2>3. CASE Promise!WriteSucceeds \/ Promise!ReadSucceeds
    BY <2>3 DEF Promise!WriteSucceeds, Promise!ReadSucceeds
  <2>4. CASE Promise!Fails \/ Promise!Rejected \/ Promise!Lapses
    BY <2>4 DEF Promise!Fails, Promise!Rejected, Promise!Lapses
  <2>5. CASE Promise!OneShot
    BY <2>5 DEF Promise!OneShot, Promise!TypeOK
  <2>6. CASE Promise!Refreshes
    BY <2>6 DEF Promise!Refreshes
  <2>7. CASE UNCHANGED Promise!vars
    BY <2>7 DEF Promise!vars
  <2>. QED
    BY <2>1, <2>2, <2>3, <2>4, <2>5, <2>6, <2>7 DEF Promise!Next
<1>3. Inv => Promise!KnownIsCurrent
  BY DEF Promise!KnownIsCurrent
<1>. QED
  BY <1>1, <1>2, <1>3, PromiseTypeCorrect, PTL DEF Promise!Spec
==============================================================================
