------------------------------ MODULE CodecProofs ------------------------------
(***************************************************************************)
(* Proofs about FrameStream and EqCatalogue, for every header byte, every  *)
(* payload, stream and catalogue.                                          *)
(*                                                                         *)
(* Scan, FlattenSeq and Reading are recursive functions: that they have    *)
(* the values their definitions say is itself proved, because every step   *)
(* goes on with fewer bytes, sequences or rounds.  What the theorems about *)
(* the stream rest on is ScanGoesOn: to scan bytes with more behind them   *)
(* is to scan those left over with the others behind them.  What those     *)
(* about the catalogue rest on is that EntryReads and EntryMeans are each  *)
(* other's converse: the fields of an entry are read as that entry, and    *)
(* what is read as an entry is that entry's fields.                        *)
(***************************************************************************)
EXTENDS FrameStream, EqCatalogue, SequenceTheorems, TLAPS

\* First and last indices, induction and recursion.
Link == INSTANCE OpoWireProofs WITH LastSequence <- 1

------------------------------------------------------------------------------
(* Sequences.                                                              *)

\* A sequence cut in two, and put together again.
LEMMA Split ==
    ASSUME NEW S, NEW s \in Seq(S), NEW n \in 0..Len(s)
    PROVE  /\ SubSeq(s, 1, n) \in Seq(S) /\ Len(SubSeq(s, 1, n)) = n
           /\ SubSeq(s, n + 1, Len(s)) \in Seq(S)
           /\ Len(SubSeq(s, n + 1, Len(s))) = Len(s) - n
           /\ s = SubSeq(s, 1, n) \o SubSeq(s, n + 1, Len(s))
<1>1. Len(s) \in Nat /\ n \in Int /\ n + 1 \in Int /\ 1 \in Int /\ Len(s) \in Int
  BY LenProperties
<1>2. (\A i \in 1..n : s[i] \in S) /\ (\A i \in (n + 1)..Len(s) : s[i] \in S)
  BY <1>1, ElementOfSeq
<1>3. /\ SubSeq(s, 1, n) \in Seq(S)
      /\ Len(SubSeq(s, 1, n)) = IF 1 <= n THEN n - 1 + 1 ELSE 0
  BY <1>1, <1>2, SubSeqProperties
<1>4. /\ SubSeq(s, n + 1, Len(s)) \in Seq(S)
      /\ Len(SubSeq(s, n + 1, Len(s))) = IF n + 1 <= Len(s) THEN Len(s) - (n + 1) + 1 ELSE 0
  BY <1>1, <1>2, SubSeqProperties
<1>5. SubSeq(s, 1, n) \o SubSeq(s, n + 1, Len(s)) = SubSeq(s, 1, Len(s))
  <2>1. 1 \in 1..(Len(s) + 1) /\ n \in (1 - 1)..Len(s) /\ Len(s) \in n..Len(s)
    BY <1>1
  <2>. QED
    BY <2>1, ConcatAdjacentSubSeq
<1>6. /\ (IF 1 <= n THEN n - 1 + 1 ELSE 0) = n
      /\ (IF n + 1 <= Len(s) THEN Len(s) - (n + 1) + 1 ELSE 0) = Len(s) - n
  BY <1>1
<1>7. s = SubSeq(s, 1, n) \o SubSeq(s, n + 1, Len(s))
  BY <1>5, SubSeqFull
<1>8. Len(SubSeq(s, 1, n)) = n /\ Len(SubSeq(s, n + 1, Len(s))) = Len(s) - n
  BY <1>3, <1>4, <1>6
<1>. QED
  BY <1>3, <1>4, <1>7, <1>8

\* The same of bytes.
LEMMA SplitBytes ==
    \A s \in Seq(Nat) : \A n \in 0..Len(s) :
        /\ SubSeq(s, 1, n) \in Seq(Nat) /\ Len(SubSeq(s, 1, n)) = n
        /\ SubSeq(s, n + 1, Len(s)) \in Seq(Nat)
        /\ Len(SubSeq(s, n + 1, Len(s))) = Len(s) - n
        /\ s = SubSeq(s, 1, n) \o SubSeq(s, n + 1, Len(s))
BY Split, Zenon

\* The parts of what was put together.
LEMMA Parts ==
    ASSUME NEW S, NEW s \in Seq(S), NEW t \in Seq(S)
    PROVE  /\ s \o t \in Seq(S) /\ Len(s \o t) = Len(s) + Len(t)
           /\ Len(s) \in Nat /\ Len(t) \in Nat
           /\ SubSeq(s \o t, 1, Len(s)) = s
           /\ SubSeq(s \o t, Len(s) + 1, Len(s \o t)) = t
<1>1. /\ s \o t \in Seq(S) /\ Len(s \o t) = Len(s) + Len(t)
      /\ Len(s) \in Nat /\ Len(t) \in Nat
  BY ConcatProperties, LenProperties
<1>2. SubSeq(s \o t, 1, Len(s)) = s
  <2>1. CASE s = <<>>
    BY <2>1, <1>1, EmptySeq, SubSeqEmpty
  <2>2. CASE s # <<>>
    <3>1. 1 \in 1..Len(s) /\ Len(s) \in 1..Len(s)
      BY <2>2, EmptySeq
    <3>. QED
      BY <3>1, SubSeqOfConcat1, SubSeqFull
  <2>. QED
    BY <2>1, <2>2
<1>3. SubSeq(s \o t, Len(s) + 1, Len(s \o t)) = t
  <2>1. CASE t = <<>>
    <3>1. Len(s \o t) < Len(s) + 1 /\ Len(s) + 1 \in Int /\ Len(s \o t) \in Int
      BY <2>1, <1>1, EmptySeq
    <3>. QED
      BY <2>1, <3>1, SubSeqEmpty
  <2>2. CASE t # <<>>
    <3>1. /\ Len(s) + 1 \in (Len(s) + 1)..(Len(s) + Len(t))
          /\ Len(s) + Len(t) \in (Len(s) + 1)..(Len(s) + Len(t))
          /\ Len(s) + 1 - Len(s) = 1 /\ Len(s) + Len(t) - Len(s) = Len(t)
      BY <2>2, <1>1, EmptySeq
    <3>2. SubSeq(s \o t, Len(s) + 1, Len(s) + Len(t))
          = SubSeq(t, Len(s) + 1 - Len(s), Len(s) + Len(t) - Len(s))
      BY <3>1, SubSeqOfConcat2
    <3>. QED
      BY <1>1, <3>1, <3>2, SubSeqFull
  <2>. QED
    BY <2>1, <2>2
<1>. QED
  BY <1>1, <1>2, <1>3

\* Where an element of the whole is found in the parts.
LEMMA ElementOfParts ==
    ASSUME NEW S, NEW s \in Seq(S), NEW t \in Seq(S)
    PROVE  /\ \A i \in 1..Len(s) : (s \o t)[i] = s[i]
           /\ \A i \in 1..Len(t) : (s \o t)[Len(s) + i] = t[i]
<1>1. Len(s) \in Nat /\ Len(t) \in Nat
  BY LenProperties
<1>2. \A i \in 1..(Len(s) + Len(t)) :
         (s \o t)[i] = IF i <= Len(s) THEN s[i] ELSE t[i - Len(s)]
  BY ConcatProperties
<1>3. ASSUME NEW i \in 1..Len(t) PROVE (s \o t)[Len(s) + i] = t[i]
  <2>1. Len(s) + i \in 1..(Len(s) + Len(t)) /\ ~(Len(s) + i <= Len(s)) /\ Len(s) + i - Len(s) = i
    BY <1>1
  <2>. QED
    BY <1>2, <2>1
<1>. QED
  BY <1>1, <1>2, <1>3

\* A single element.
LEMMA One ==
    ASSUME NEW S, NEW e \in S
    PROVE  <<e>> \in Seq(S) /\ Len(<<e>>) = 1 /\ <<e>>[1] = e
OBVIOUS

\* The first element and the others.
LEMMA FirstAndOthers ==
    ASSUME NEW S, NEW s \in Seq(S), s # <<>>
    PROVE  /\ s = <<s[1]>> \o Tail(s) /\ s[1] \in S
           /\ Tail(s) \in Seq(S) /\ Len(Tail(s)) = Len(s) - 1 /\ Len(s) \in Nat \ {0}
<1>1. Len(s) \in Nat \ {0} /\ 1 \in 1..Len(s) /\ Len(s) \in 1..Len(s)
  BY EmptySeq
<1>2. SubSeq(s, 1, Len(s)) = <<s[1]>> \o SubSeq(s, 1 + 1, Len(s))
  BY <1>1, SubSeqRecursiveFirst
<1>3. SubSeq(s, 1, Len(s)) = s /\ Tail(s) = SubSeq(s, 2, Len(s)) /\ 1 + 1 = 2
  BY SubSeqFull, TailIsSubSeq
<1>. QED
  BY <1>1, <1>2, <1>3, HeadTailProperties, ElementOfSeq

\* Behind a first element.
LEMMA OthersBehind ==
    ASSUME NEW S, NEW s \in Seq(S), s # <<>>, NEW t \in Seq(S)
    PROVE  /\ Tail(s \o t) = Tail(s) \o t /\ s \o t # <<>>
           /\ (s \o t)[1] = s[1]
<1>1. /\ s = <<s[1]>> \o Tail(s) /\ s[1] \in S
      /\ Tail(s) \in Seq(S) /\ Len(s) \in Nat \ {0}
  BY FirstAndOthers
<1>2. s \o t \in Seq(S) /\ s \o t # <<>>
  BY ConcatProperties, ConcatEqualIffEmpty
<1>3. (s \o t)[1] = s[1] /\ s \o t = <<(s \o t)[1]>> \o Tail(s \o t) /\ Tail(s \o t) \in Seq(S)
  BY <1>1, <1>2, FirstAndOthers, ElementOfParts
<1>4. s \o t = <<s[1]>> \o (Tail(s) \o t)
  <2>1. <<s[1]>> \in Seq(S)
    BY <1>1
  <2>2. (<<s[1]>> \o Tail(s)) \o t = <<s[1]>> \o (Tail(s) \o t)
    BY <1>1, <2>1, ConcatAssociative
  <2>. QED
    BY <1>1, <2>2
<1>5. Tail(s \o t) = Tail(s) \o t
  <2>1. <<s[1]>> \in Seq(S) /\ Tail(s) \o t \in Seq(S)
    BY <1>1, ConcatProperties
  <2>2. SubSeq(<<s[1]>> \o (Tail(s) \o t), 1 + 1, Len(<<s[1]>> \o (Tail(s) \o t)))
        = Tail(s) \o t
    BY <1>1, <2>1, One, Parts
  <2>. QED
    BY <1>2, <1>4, <2>2, TailIsSubSeq
<1>. QED
  BY <1>2, <1>3, <1>5

\* Three sequences, one behind the other.
LEMMA Associative ==
    ASSUME NEW S
    PROVE  \A s, t, u \in Seq(S) : (s \o t) \o u = s \o (t \o u)
BY ConcatAssociative

\* The same of bytes, to be cited without an operator for their set.
LEMMA BytesAssociative == \A s, t, u \in Seq(Nat) : (s \o t) \o u = s \o (t \o u)
BY Associative, SMTT(30)

\* The first elements.
LEMMA FirstOnes ==
    ASSUME NEW S, NEW s \in Seq(S), NEW n \in 0..Len(s)
    PROVE  SubSeq(s, 1, n) = [i \in 1..n |-> s[i]]
<1>. DEFINE some == SubSeq(s, 1, n)
            others == SubSeq(s, n + 1, Len(s))
<1>1. /\ some \in Seq(S) /\ Len(some) = n /\ others \in Seq(S)
      /\ s = some \o others
  BY Split, ZenonT(40)
<1>. HIDE DEF some, others
<1>2. \A i \in 1..Len(some) : (some \o others)[i] = some[i]
  BY <1>1, ElementOfParts
<1>3. some = [i \in 1..n |-> some[i]]
  BY <1>1
<1>4. some = [i \in 1..n |-> s[i]]
  BY <1>1, <1>2, <1>3
<1>. QED
  BY <1>4 DEF some

\* A cut in the middle.
LEMMA CutInMiddle ==
    ASSUME NEW s \in Seq(Nat), NEW t \in Seq(Nat), NEW u \in Seq(Nat), NEW k \in 0..Len(t)
    PROVE  SubSeq((s \o t) \o u, 1, Len(s) + k) = s \o SubSeq(t, 1, k)
<1>. DEFINE a == SubSeq(t, 1, k)
            b == SubSeq(t, k + 1, Len(t))
<1>1. a \in Seq(Nat) /\ Len(a) = k /\ b \in Seq(Nat) /\ t = a \o b
  BY Split, ZenonT(40)
<1>. HIDE DEF a, b
<1>2. s \o a \in Seq(Nat) /\ b \o u \in Seq(Nat)
  BY <1>1, ConcatProperties
<1>3. (s \o t) \o u = (s \o a) \o (b \o u)
  <2>1. s \o (a \o b) = (s \o a) \o b
    BY <1>1, BytesAssociative, ZenonT(40)
  <2>2. ((s \o a) \o b) \o u = (s \o a) \o (b \o u)
    <3>. DEFINE x == s \o a
    <3>1. x \in Seq(Nat)
      BY <1>2
    <3>. HIDE DEF x
    <3>2. (x \o b) \o u = x \o (b \o u)
      BY <1>1, <3>1, BytesAssociative, ZenonT(40)
    <3>. QED
      BY <3>2 DEF x
  <2>. QED
    BY <1>1, <2>1, <2>2
<1>4. Len(s \o a) = Len(s) + k
  BY <1>1, Parts, ZenonT(40)
<1>. DEFINE x == s \o a
            y == b \o u
<1>5. x \in Seq(Nat) /\ y \in Seq(Nat) /\ Len(x) = Len(s) + k /\ (s \o t) \o u = x \o y
  BY <1>2, <1>3, <1>4
<1>. HIDE DEF x, y
<1>6. SubSeq(x \o y, 1, Len(x)) = x
  BY <1>5, Parts
<1>. QED
  BY <1>5, <1>6 DEF x, a

------------------------------------------------------------------------------
(* FromStart.                                                              *)

NoStart(bytes) == \A i \in 1..Len(bytes) : bytes[i] # SOF

\* Bytes have no start of frame, or some before the first.
LEMMA StartOrNone ==
    ASSUME NEW bytes \in Seq(Nat)
    PROVE  \/ NoStart(bytes) /\ FromStart(bytes) = <<>>
           \/ /\ FromStart(bytes) \in Seq(Nat) /\ FromStart(bytes) # <<>>
              /\ FromStart(bytes)[1] = SOF
              /\ \E noise \in Seq(Nat) : NoStart(noise) /\ bytes = noise \o FromStart(bytes)
<1>. DEFINE starts == {i \in 1..Len(bytes) : bytes[i] = SOF}
<1>1. Len(bytes) \in Nat
  BY LenProperties
<1>2. SelectInSeq(bytes, LAMBDA byte : byte = SOF) = IF starts # {} THEN Min(starts) ELSE 0
  BY DEF SelectInSeq
<1>3. CASE starts = {}
  BY <1>2, <1>3 DEF NoStart, FromStart
<1>4. CASE starts # {}
  <2>1. \E i \in starts : \A j \in starts : i <= j
    <3>1. starts \in SUBSET (1..Len(bytes)) /\ 1 \in Nat \ {0}
      OBVIOUS
    <3>. HIDE DEF starts
    <3>. QED
      BY <1>1, <1>4, <3>1, Link!FirstIndex
  <2>. DEFINE first == Min(starts)
  <2>2. first \in starts /\ \A j \in starts : first <= j
    BY <2>1 DEF Min
  <2>3. FromStart(bytes) = SubSeq(bytes, first, Len(bytes))
    <3>1. SelectInSeq(bytes, LAMBDA byte : byte = SOF) = first /\ first # 0
      BY <1>2, <1>4, <2>2
    <3>. HIDE DEF first
    <3>. QED
      BY <3>1 DEF FromStart
  <2>. HIDE DEF first
  <2>4. /\ first - 1 \in 0..Len(bytes) /\ (first - 1) + 1 = first /\ first \in 1..Len(bytes)
        /\ bytes[first] = SOF
    BY <1>1, <2>2
  <2>. DEFINE noise == SubSeq(bytes, 1, first - 1)
              start == FromStart(bytes)
  <2>5. /\ noise \in Seq(Nat) /\ Len(noise) = first - 1
        /\ start \in Seq(Nat) /\ Len(start) = Len(bytes) - (first - 1)
        /\ bytes = noise \o start
    <3>. DEFINE n == first - 1
    <3>1. n \in 0..Len(bytes) /\ start = SubSeq(bytes, n + 1, Len(bytes))
      BY <2>3, <2>4
    <3>. HIDE DEF n, start
    <3>2. /\ SubSeq(bytes, 1, n) \in Seq(Nat) /\ Len(SubSeq(bytes, 1, n)) = n
          /\ start \in Seq(Nat) /\ Len(start) = Len(bytes) - n
          /\ bytes = SubSeq(bytes, 1, n) \o start
      BY <3>1, SplitBytes, Zenon
    <3>. QED
      BY <3>2, Zenon DEF n
  <2>. HIDE DEF noise, start
  <2>6. NoStart(noise)
    <3>. SUFFICES ASSUME NEW i \in 1..Len(noise), noise[i] = SOF PROVE FALSE
      BY DEF NoStart
    <3>1. bytes[i] = noise[i] /\ i \in 1..Len(bytes) /\ ~(first <= i)
      BY <1>1, <2>4, <2>5, ElementOfParts
    <3>2. i \in starts
      BY <3>1
    <3>. QED
      BY <2>2, <3>1, <3>2
  <2>7. start # <<>> /\ start[1] = SOF
    <3>1. Len(start) \in Nat \ {0} /\ 1 \in 1..Len(start) /\ Len(noise) + 1 = first
      BY <1>1, <2>4, <2>5
    <3>2. \A i \in 1..Len(start) : (noise \o start)[Len(noise) + i] = start[i]
      BY <2>5, ElementOfParts
    <3>3. (noise \o start)[Len(noise) + 1] = start[1]
      BY <3>1, <3>2
    <3>. QED
      BY <2>4, <2>5, <3>1, <3>3, EmptySeq
  <2>. QED
    BY <2>5, <2>6, <2>7 DEF start
<1>. QED
  BY <1>3, <1>4

\* There is no start of frame in the whole if there is none in either part.
LEMMA NoStartInParts ==
    ASSUME NEW s \in Seq(Nat), NEW t \in Seq(Nat), NoStart(s), NoStart(t)
    PROVE  NoStart(s \o t)
<1>. SUFFICES ASSUME NEW i \in 1..Len(s \o t) PROVE (s \o t)[i] # SOF
  BY DEF NoStart
<1>1. Len(s \o t) = Len(s) + Len(t) /\ Len(s) \in Nat /\ Len(t) \in Nat
  BY ConcatProperties, LenProperties
<1>2. CASE i <= Len(s)
  <2>1. i \in 1..Len(s)
    BY <1>1, <1>2
  <2>. QED
    BY <2>1, ElementOfParts DEF NoStart
<1>3. CASE ~(i <= Len(s))
  <2>1. i - Len(s) \in 1..Len(t) /\ Len(s) + (i - Len(s)) = i
    BY <1>1, <1>3
  <2>2. (s \o t)[Len(s) + (i - Len(s))] = t[i - Len(s)]
    BY <2>1, ElementOfParts
  <2>. QED
    BY <2>1, <2>2 DEF NoStart
<1>. QED
  BY <1>2, <1>3

\* Bytes without a start of frame are all dropped.
LEMMA NoStartLeavesNothing ==
    ASSUME NEW bytes \in Seq(Nat), NoStart(bytes)
    PROVE  FromStart(bytes) = <<>>
<1>1. {i \in 1..Len(bytes) : bytes[i] = SOF} = {}
  BY DEF NoStart
<1>2. SelectInSeq(bytes, LAMBDA byte : byte = SOF) = 0
  BY <1>1 DEF SelectInSeq
<1>. QED
  BY <1>2 DEF FromStart

\* Nothing before the first start of frame matters.
LEMMA StartBehindNoise ==
    ASSUME NEW noise \in Seq(Nat), NoStart(noise),
           NEW bytes \in Seq(Nat), bytes # <<>>, bytes[1] = SOF
    PROVE  FromStart(noise \o bytes) = bytes
<1>. DEFINE whole == noise \o bytes
            starts == {i \in 1..Len(whole) : whole[i] = SOF}
            first == Len(noise) + 1
<1>1. /\ whole \in Seq(Nat) /\ Len(whole) = Len(noise) + Len(bytes)
      /\ Len(noise) \in Nat /\ Len(bytes) \in Nat \ {0}
      /\ SubSeq(whole, first, Len(whole)) = bytes
  BY Parts, EmptySeq
<1>2. /\ \A i \in 1..Len(noise) : whole[i] = noise[i]
      /\ \A i \in 1..Len(bytes) : whole[Len(noise) + i] = bytes[i]
  BY ElementOfParts
<1>. HIDE DEF whole
<1>3. first \in 1..Len(whole) /\ 1 \in 1..Len(bytes)
  BY <1>1
<1>4. first \in starts
  BY <1>2, <1>3
<1>5. ASSUME NEW i \in starts PROVE first <= i
  <2>1. CASE i <= Len(noise)
    <3>1. i \in 1..Len(noise)
      BY <1>1, <2>1
    <3>. QED
      BY <1>2, <3>1 DEF NoStart
  <2>2. CASE ~(i <= Len(noise))
    BY <1>1, <2>2
  <2>. QED
    BY <2>1, <2>2
<1>6. Min(starts) = first
  <2>. DEFINE min == Min(starts)
  <2>1. min \in starts /\ \A j \in starts : min <= j
    BY <1>4, <1>5 DEF Min
  <2>2. first \in Nat /\ starts \subseteq Nat
    BY <1>1
  <2>. HIDE DEF first, starts, min
  <2>3. min \in Nat /\ min <= first /\ first <= min
    BY <1>4, <1>5, <2>1, <2>2
  <2>4. min = first
    BY <2>2, <2>3
  <2>. QED
    BY <2>4 DEF min
<1>7. SelectInSeq(whole, LAMBDA byte : byte = SOF) = first /\ first # 0
  <2>1. SelectInSeq(whole, LAMBDA byte : byte = SOF) = IF starts # {} THEN Min(starts) ELSE 0
    BY DEF SelectInSeq
  <2>2. first # 0 /\ starts # {}
    BY <1>1, <1>4
  <2>. HIDE DEF first, starts
  <2>. QED
    BY <1>6, <2>1, <2>2
<1>8. FromStart(whole) = bytes
  <2>. HIDE DEF first
  <2>. QED
    BY <1>1, <1>7 DEF FromStart
<1>. QED
  BY <1>8 DEF whole

\* Nothing without a start of frame matters to what follows it.
LEMMA BehindNoise ==
    ASSUME NEW noise \in Seq(Nat), NoStart(noise), NEW bytes \in Seq(Nat)
    PROVE  FromStart(noise \o bytes) = FromStart(bytes)
<1>1. CASE NoStart(bytes) /\ FromStart(bytes) = <<>>
  <2>1. noise \o bytes \in Seq(Nat) /\ NoStart(noise \o bytes)
    BY <1>1, NoStartInParts, ConcatProperties
  <2>. QED
    BY <1>1, <2>1, NoStartLeavesNothing
<1>2. CASE FromStart(bytes) # <<>>
  <2>. DEFINE start == FromStart(bytes)
  <2>1. PICK more \in Seq(Nat) : NoStart(more) /\ bytes = more \o start
    BY <1>2, StartOrNone
  <2>2. start \in Seq(Nat) /\ start # <<>> /\ start[1] = SOF
    BY <1>2, StartOrNone
  <2>. HIDE DEF start
  <2>3. noise \o bytes = (noise \o more) \o start
    BY <2>1, <2>2, ConcatAssociative, SMTT(30)
  <2>4. noise \o more \in Seq(Nat) /\ NoStart(noise \o more)
    BY <2>1, NoStartInParts, ConcatProperties
  <2>5. FromStart(noise \o bytes) = start
    BY <2>2, <2>3, <2>4, StartBehindNoise
  <2>. QED
    BY <2>5 DEF start
<1>. QED
  BY <1>1, <1>2, StartOrNone

\* What follows does not move the first start of frame.
LEMMA StartInFront ==
    ASSUME NEW s \in Seq(Nat), FromStart(s) # <<>>, NEW t \in Seq(Nat)
    PROVE  /\ FromStart(s \o t) = FromStart(s) \o t
           /\ FromStart(FromStart(s) \o t) = FromStart(s) \o t
<1>. DEFINE start == FromStart(s)
<1>1. PICK noise \in Seq(Nat) : NoStart(noise) /\ s = noise \o start
  BY StartOrNone
<1>2. start \in Seq(Nat) /\ start # <<>> /\ start[1] = SOF
  BY StartOrNone
<1>. HIDE DEF start
<1>3. start \o t \in Seq(Nat) /\ start \o t # <<>> /\ (start \o t)[1] = SOF
  BY <1>2, OthersBehind, ConcatProperties
<1>4. s \o t = noise \o (start \o t)
  BY <1>1, <1>2, ConcatAssociative, SMTT(30)
<1>5. FromStart(s \o t) = start \o t
  BY <1>1, <1>3, <1>4, StartBehindNoise
<1>6. FromStart(start \o t) = start \o t
  <2>1. <<>> \in Seq(Nat) /\ NoStart(<<>>) /\ <<>> \o (start \o t) = start \o t
    BY <1>3, EmptySeq, ConcatEmptySeq DEF NoStart
  <2>. QED
    BY <1>3, <2>1, StartBehindNoise
<1>. QED
  BY <1>5, <1>6 DEF start

------------------------------------------------------------------------------
(* What the recursive definition of Scan says of it.                       *)

Message == [command : Nat, payload : Seq(Nat)]

Result == [frames : Seq(Message), rest : Seq(Nat), raised : BOOLEAN]

LEMMA MessagesAssociative ==
    \A s, t, u \in Seq(Message) : (s \o t) \o u = s \o (t \o u)
BY Associative

\* The first frame in the buffer, and what is behind it.
Raw(start) == SubSeq(start, 1, FrameLength(start))

Behind(start) == SubSeq(start, FrameLength(start) + 1, Len(start))

\* What may be at a start of frame.
Short(start) == Len(start) < 2

Wrong(start) == ~Short(start) /\ FrameLength(start) < HeaderSize

Partial(start) ==
    ~Short(start) /\ ~(FrameLength(start) < HeaderSize) /\ Len(start) < FrameLength(start)

Whole(start) ==
    ~Short(start) /\ ~(FrameLength(start) < HeaderSize) /\ ~(Len(start) < FrameLength(start))

Waits(start) == [frames |-> <<>>, rest |-> start, raised |-> FALSE]

Raises(start) == [frames |-> <<>>, rest |-> Behind(start), raised |-> TRUE]

\* The right-hand side of the definition.
Step(f, bytes) ==
    LET start == FromStart(bytes) IN
    IF Len(start) < 2 THEN [frames |-> <<>>, rest |-> start, raised |-> FALSE]
    ELSE IF FrameLength(start) < HeaderSize THEN f[Skip(start)]
    ELSE IF Len(start) < FrameLength(start)
         THEN [frames |-> <<>>, rest |-> start, raised |-> FALSE]
    ELSE LET raw == SubSeq(start, 1, FrameLength(start))
             rest == SubSeq(start, FrameLength(start) + 1, Len(start))
         IN IF ~Decodes(raw) THEN [frames |-> <<>>, rest |-> rest, raised |-> TRUE]
            ELSE [f[rest] EXCEPT !.frames = <<Decoded(raw)>> \o @]

\* There is always one of the four.
LEMMA Kinds ==
    ASSUME NEW start
    PROVE  Short(start) \/ Wrong(start) \/ Partial(start) \/ Whole(start)
BY DEF Short, Wrong, Partial, Whole

LEMMA StepCases ==
    ASSUME NEW f, NEW bytes
    PROVE  LET start == FromStart(bytes) IN
           /\ Short(start) \/ Partial(start) => Step(f, bytes) = Waits(start)
           /\ Wrong(start) => Step(f, bytes) = f[Skip(start)]
           /\ Whole(start) /\ ~Decodes(Raw(start)) => Step(f, bytes) = Raises(start)
           /\ Whole(start) /\ Decodes(Raw(start)) =>
                 Step(f, bytes) = [f[Behind(start)] EXCEPT !.frames = <<Decoded(Raw(start))>> \o @]
BY DEF Step, Short, Wrong, Partial, Whole, Waits, Raises, Raw, Behind

\* Whatever is scanned next is shorter.
LEMMA StartParts ==
    ASSUME NEW bytes \in Seq(Nat), NEW start, start = FromStart(bytes)
    PROVE  /\ start \in Seq(Nat) /\ Len(start) \in Nat /\ Len(bytes) \in Nat
           /\ Len(start) <= Len(bytes)
           /\ ~Short(start) => start # <<>> /\ FrameLength(start) \in Nat
           /\ Wrong(start) => Skip(start) \in Seq(Nat) /\ Len(Skip(start)) < Len(bytes)
           /\ Whole(start) =>
                 /\ Raw(start) \in Seq(Nat) /\ Len(Raw(start)) = FrameLength(start)
                 /\ Behind(start) \in Seq(Nat) /\ Len(Behind(start)) < Len(bytes)
                 /\ start = Raw(start) \o Behind(start)
<1>1. start \in Seq(Nat) /\ Len(start) \in Nat /\ Len(bytes) \in Nat /\ Len(start) <= Len(bytes)
  <2>1. CASE start = <<>>
    BY <2>1, EmptySeq, LenProperties
  <2>2. CASE start # <<>>
    <3>1. PICK noise \in Seq(Nat) : bytes = noise \o start
      BY <2>2, StartOrNone
    <3>2. start \in Seq(Nat)
      BY <2>2, StartOrNone
    <3>3. Len(bytes) = Len(noise) + Len(start) /\ Len(noise) \in Nat /\ Len(start) \in Nat
      BY <3>1, <3>2, Parts
    <3>. QED
      BY <3>2, <3>3
  <2>. QED
    BY <2>1, <2>2
<1>2. ASSUME ~Short(start) PROVE start # <<>> /\ FrameLength(start) \in Nat
  <2>1. 2 \in 1..Len(start)
    BY <1>1, <1>2 DEF Short
  <2>2. start[2] \in Nat /\ start # <<>>
    BY <1>1, <2>1, ElementOfSeq, EmptySeq
  <2>. QED
    BY <2>2 DEF FrameLength
<1>3. ASSUME Wrong(start) PROVE Skip(start) \in Seq(Nat) /\ Len(Skip(start)) < Len(bytes)
  <2>1. start # <<>>
    BY <1>2, <1>3 DEF Wrong
  <2>2. Tail(start) \in Seq(Nat) /\ Len(Tail(start)) = Len(start) - 1
    BY <1>1, <2>1, FirstAndOthers
  <2>. QED
    BY <1>1, <2>2 DEF Skip
<1>4. ASSUME Whole(start)
      PROVE  /\ Raw(start) \in Seq(Nat) /\ Len(Raw(start)) = FrameLength(start)
             /\ Behind(start) \in Seq(Nat) /\ Len(Behind(start)) < Len(bytes)
             /\ start = Raw(start) \o Behind(start)
  <2>1. FrameLength(start) \in 0..Len(start) /\ FrameLength(start) >= 4
    BY <1>1, <1>2, <1>4 DEF Whole, HeaderSize
  <2>2. /\ Raw(start) \in Seq(Nat) /\ Len(Raw(start)) = FrameLength(start)
        /\ Behind(start) \in Seq(Nat) /\ Len(Behind(start)) = Len(start) - FrameLength(start)
        /\ start = Raw(start) \o Behind(start)
    BY <1>1, <2>1, Split DEF Raw, Behind
  <2>3. Len(Behind(start)) < Len(bytes)
    BY <1>1, <2>1, <2>2
  <2>. QED
    BY <2>2, <2>3
<1>. QED
  BY <1>1, <1>2, <1>3, <1>4

LEMMA DecodedIsMessage ==
    ASSUME NEW raw \in Seq(Nat), Len(raw) >= 4
    PROVE  Decoded(raw) \in Message
<1>1. Len(raw) \in Nat /\ 3 \in 1..Len(raw) /\ 4 \in 0..Len(raw)
  BY LenProperties
<1>2. raw[3] \in Nat /\ SubSeq(raw, 4 + 1, Len(raw)) \in Seq(Nat)
  BY <1>1, ElementOfSeq, Split
<1>. QED
  BY <1>2 DEF Decoded, Message, HeaderSize

\* A frame in front of what another scan has found.
InFront(message, result) == [result EXCEPT !.frames = <<message>> \o @]

LEMMA InFrontIs ==
    ASSUME NEW message \in Message, NEW result \in Result
    PROVE  /\ InFront(message, result) \in Result
           /\ InFront(message, result).frames = <<message>> \o result.frames
           /\ InFront(message, result).rest = result.rest
           /\ InFront(message, result).raised = result.raised
<1>1. /\ result.frames \in Seq(Message) /\ <<message>> \in Seq(Message)
      /\ result.rest \in Seq(Nat) /\ result.raised \in BOOLEAN
  BY DEF Result
<1>2. <<message>> \o result.frames \in Seq(Message)
  BY <1>1, ConcatProperties
<1>. QED
  BY <1>1, <1>2 DEF InFront, Result

LEMMA WaitsIs ==
    ASSUME NEW start \in Seq(Nat)
    PROVE  /\ Waits(start) \in Result
           /\ Waits(start).frames = <<>> /\ Waits(start).rest = start /\ Waits(start).raised = FALSE
<1>1. <<>> \in Seq(Message)
  BY EmptySeq
<1>. QED
  BY <1>1 DEF Waits, Result

LEMMA RaisesIs ==
    ASSUME NEW start, Behind(start) \in Seq(Nat)
    PROVE  /\ Raises(start) \in Result
           /\ Raises(start).frames = <<>> /\ Raises(start).rest = Behind(start)
           /\ Raises(start).raised = TRUE
<1>1. <<>> \in Seq(Message)
  BY EmptySeq
<1>. QED
  BY <1>1 DEF Raises, Result

LEMMA WholeDecodes ==
    ASSUME NEW bytes \in Seq(Nat), NEW start, start = FromStart(bytes), Whole(start)
    PROVE  Decoded(Raw(start)) \in Message
<1>1. Raw(start) \in Seq(Nat) /\ Len(Raw(start)) = FrameLength(start) /\ FrameLength(start) \in Nat
  BY StartParts DEF Whole
<1>2. Len(Raw(start)) >= 4
  BY <1>1 DEF Whole, HeaderSize
<1>. QED
  BY <1>1, <1>2, DecodedIsMessage

\* A step has a result if the scan of fewer bytes has one.
LEMMA StepResult ==
    ASSUME NEW f, NEW bytes \in Seq(Nat),
           \A less \in Seq(Nat) : Len(less) < Len(bytes) => f[less] \in Result
    PROVE  Step(f, bytes) \in Result
<1>. DEFINE start == FromStart(bytes)
<1>1. /\ Short(start) \/ Partial(start) => Step(f, bytes) = Waits(start)
      /\ Wrong(start) => Step(f, bytes) = f[Skip(start)]
      /\ Whole(start) /\ ~Decodes(Raw(start)) => Step(f, bytes) = Raises(start)
      /\ Whole(start) /\ Decodes(Raw(start)) =>
            Step(f, bytes) = InFront(Decoded(Raw(start)), f[Behind(start)])
  BY StepCases DEF InFront
<1>2. start = FromStart(bytes)
  OBVIOUS
<1>. HIDE DEF start
<1>3. CASE Short(start) \/ Partial(start)
  BY <1>1, <1>2, <1>3, StartParts, WaitsIs
<1>4. CASE Wrong(start)
  BY <1>1, <1>2, <1>4, StartParts
<1>5. CASE Whole(start) /\ ~Decodes(Raw(start))
  BY <1>1, <1>2, <1>5, StartParts, RaisesIs, ZenonT(40)
<1>6. CASE Whole(start) /\ Decodes(Raw(start))
  <2>1. f[Behind(start)] \in Result
    BY <1>2, <1>6, StartParts
  <2>. QED
    BY <1>1, <1>2, <1>6, <2>1, WholeDecodes, InFrontIs
<1>. QED
  BY <1>3, <1>4, <1>5, <1>6, Kinds

\* A step asks only for the scan of fewer bytes.
LEMMA StepLocal ==
    ASSUME NEW f, NEW g, NEW bytes \in Seq(Nat),
           \A less \in Seq(Nat) : Len(less) < Len(bytes) => f[less] = g[less]
    PROVE  Step(f, bytes) = Step(g, bytes)
<1>. DEFINE start == FromStart(bytes)
<1>1. \A h : /\ Short(start) \/ Partial(start) => Step(h, bytes) = Waits(start)
             /\ Wrong(start) => Step(h, bytes) = h[Skip(start)]
             /\ Whole(start) /\ ~Decodes(Raw(start)) => Step(h, bytes) = Raises(start)
             /\ Whole(start) /\ Decodes(Raw(start)) =>
                   Step(h, bytes) = InFront(Decoded(Raw(start)), h[Behind(start)])
  BY StepCases DEF InFront
<1>2. start = FromStart(bytes)
  OBVIOUS
<1>. HIDE DEF start
<1>3. CASE Short(start) \/ Partial(start)
  BY <1>1, <1>3
<1>4. CASE Wrong(start)
  BY <1>1, <1>2, <1>4, StartParts
<1>5. CASE Whole(start) /\ ~Decodes(Raw(start))
  BY <1>1, <1>5
<1>6. CASE Whole(start) /\ Decodes(Raw(start))
  <2>1. f[Behind(start)] = g[Behind(start)]
    BY <1>2, <1>6, StartParts
  <2>. QED
    BY <1>1, <1>6, <2>1
<1>. QED
  BY <1>3, <1>4, <1>5, <1>6, Kinds

\* The recursion has a solution, and Scan is one.
LEMMA ScanIs == \A bytes \in Seq(Nat) : Scan[bytes] = Step(Scan, bytes)
<1>. DEFINE Defined(f) == [bytes \in Seq(Nat) |-> Step(f, bytes)]
            size == [bytes \in Seq(Nat) |-> Len(bytes)]
            body == [f \in [Seq(Nat) -> Result] |-> Defined(f)]
            D == Seq(Nat)
            V == Result
<1>1. \E f \in [D -> V] : f = Defined(f)
  <2>1. body \in [[D -> V] -> [D -> V]]
    <3>1. ASSUME NEW f \in [D -> V] PROVE Defined(f) \in [D -> V]
      BY StepResult
    <3>. QED
      BY <3>1
  <2>2. \A f, g \in [D -> V], x \in D :
          (\A y \in D : size[y] < size[x] => f[y] = g[y]) => body[f][x] = body[g][x]
    <3>. SUFFICES ASSUME NEW f \in [D -> V], NEW g \in [D -> V], NEW x \in D,
                         \A y \in D : size[y] < size[x] => f[y] = g[y]
                  PROVE  Step(f, x) = Step(g, x)
      OBVIOUS
    <3>1. \A y \in Seq(Nat) : Len(y) < Len(x) => f[y] = g[y]
      OBVIOUS
    <3>. QED
      BY <3>1, StepLocal
  <2>3. size \in [D -> Nat] /\ V # {} /\ 1 \in Nat \ {0}
    <3>1. Waits(<<>>) \in Result
      BY WaitsIs, EmptySeq
    <3>. QED
      BY <3>1, LenProperties
  <2>4. \A f \in [D -> V] : body[f] = Defined(f)
    OBVIOUS
  <2>. HIDE DEF size, body, Defined, D, V
  <2>5. Link!AsksForSmaller(D, V, size, body)
    BY <2>1, <2>2, <2>3 DEF Link!AsksForSmaller
  <2>6. \E f \in [D -> V] : f = body[f]
    BY <2>3, <2>5, Link!Recursion
  <2>. QED
    BY <2>4, <2>6
<1>2. Scan = CHOOSE f : f = Defined(f)
  BY DEF Scan, Step
<1>3. Scan = Defined(Scan)
  <2>. HIDE DEF Defined, D, V
  <2>. QED
    BY <1>1, <1>2, Zenon
<1>. QED
  BY <1>3

\* What a scan returns.
LEMMA ScanResult ==
    ASSUME NEW bytes \in Seq(Nat)
    PROVE  /\ Scan[bytes] \in Result
           /\ Scan[bytes].frames \in Seq(Message) /\ Scan[bytes].rest \in Seq(Nat)
           /\ Scan[bytes].raised \in BOOLEAN
<1>. DEFINE size == [b \in Seq(Nat) |-> Len(b)]
            D == Seq(Nat)
            Good == {b \in D : Scan[b] \in Result}
<1>1. ASSUME NEW b \in D, \A less \in D : size[less] < size[b] => less \in Good
      PROVE  b \in Good
  <2>1. \A less \in Seq(Nat) : Len(less) < Len(b) => Scan[less] \in Result
    BY <1>1
  <2>2. Step(Scan, b) \in Result
    BY <2>1, StepResult
  <2>. QED
    BY <2>2, ScanIs
<1>2. size \in [D -> Nat] /\ 1 \in Nat \ {0}
  BY LenProperties
<1>3. D \subseteq Good
  <2>. HIDE DEF size, Good, D
  <2>. QED
    BY <1>1, <1>2, Link!SizeInduction
<1>4. Scan[bytes] \in Result
  BY <1>3
<1>. QED
  BY <1>4 DEF Result

\* What Scan does with the bytes behind the noise.
LEMMA ScanCases ==
    ASSUME NEW bytes \in Seq(Nat), NEW start, start = FromStart(bytes)
    PROVE  /\ Short(start) \/ Partial(start) => Scan[bytes] = Waits(start)
           /\ Wrong(start) => Scan[bytes] = Scan[Skip(start)]
           /\ Whole(start) /\ ~Decodes(Raw(start)) => Scan[bytes] = Raises(start)
           /\ Whole(start) /\ Decodes(Raw(start)) =>
                 Scan[bytes] = InFront(Decoded(Raw(start)), Scan[Behind(start)])
BY ScanIs, StepCases DEF InFront

\* Scan depends on what is behind the noise only.
LEMMA SameStart ==
    ASSUME NEW s \in Seq(Nat), NEW t \in Seq(Nat), FromStart(s) = FromStart(t)
    PROVE  Scan[s] = Scan[t]
<1>1. Step(Scan, s) = Step(Scan, t)
  BY DEF Step
<1>. QED
  BY <1>1, ScanIs

------------------------------------------------------------------------------
(* Bytes in two receives.                                                  *)

\* What is at a start of frame stays what it is, if it is not short or partial.
LEMMA StartStays ==
    ASSUME NEW bytes \in Seq(Nat), NEW start, start = FromStart(bytes), NEW t \in Seq(Nat)
    PROVE  /\ Wrong(start) => Wrong(start \o t) /\ Skip(start \o t) = Skip(start) \o t
           /\ Whole(start) => /\ Whole(start \o t) /\ Raw(start \o t) = Raw(start)
                              /\ Behind(start \o t) = Behind(start) \o t
<1>1. start \in Seq(Nat) /\ Len(start) \in Nat
  BY StartParts
<1>2. Len(start \o t) = Len(start) + Len(t) /\ Len(t) \in Nat
  BY <1>1, Parts
<1>3. ASSUME ~Short(start)
      PROVE  ~Short(start \o t) /\ FrameLength(start \o t) = FrameLength(start)
  <2>1. 2 \in 1..Len(start)
    BY <1>1, <1>3 DEF Short
  <2>2. (start \o t)[2] = start[2]
    BY <1>1, <2>1, ElementOfParts
  <2>3. ~Short(start \o t)
    BY <1>1, <1>2, <1>3 DEF Short
  <2>. QED
    BY <2>2, <2>3 DEF FrameLength
<1>4. ASSUME Wrong(start) PROVE Wrong(start \o t) /\ Skip(start \o t) = Skip(start) \o t
  <2>1. start # <<>>
    BY <1>4, StartParts DEF Wrong
  <2>2. Tail(start \o t) = Tail(start) \o t
    BY <1>1, <2>1, OthersBehind
  <2>. QED
    BY <1>3, <1>4, <2>2 DEF Wrong, Skip
<1>5. ASSUME Whole(start)
      PROVE  /\ Whole(start \o t) /\ Raw(start \o t) = Raw(start)
             /\ Behind(start \o t) = Behind(start) \o t
  <2>. DEFINE raw == Raw(start)
              behind == Behind(start)
              n == FrameLength(start)
  <2>1. /\ raw \in Seq(Nat) /\ Len(raw) = n /\ behind \in Seq(Nat) /\ start = raw \o behind
        /\ n \in Nat
    BY <1>5, StartParts DEF Whole
  <2>2. FrameLength(start \o t) = n /\ ~Short(start \o t)
    BY <1>3, <1>5 DEF Whole
  <2>. HIDE DEF raw, behind, n
  <2>3. start \o t = raw \o (behind \o t) /\ behind \o t \in Seq(Nat)
    <3>1. raw \in Seq(Nat) /\ behind \in Seq(Nat) /\ behind \o t \in Seq(Nat)
      BY <2>1, ConcatProperties
    <3>2. (raw \o behind) \o t = raw \o (behind \o t)
      BY <3>1, ConcatAssociative
    <3>. QED
      BY <2>1, <3>1, <3>2
  <2>4. /\ SubSeq(start \o t, 1, n) = raw
        /\ SubSeq(start \o t, n + 1, Len(start \o t)) = behind \o t
    <3>. DEFINE rest == behind \o t
    <3>1. rest \in Seq(Nat) /\ start \o t = raw \o rest
      BY <2>3
    <3>. HIDE DEF rest
    <3>2. /\ SubSeq(raw \o rest, 1, Len(raw)) = raw
          /\ SubSeq(raw \o rest, Len(raw) + 1, Len(raw \o rest)) = rest
      BY <2>1, <3>1, Parts
    <3>. QED
      BY <2>1, <3>1, <3>2 DEF rest
  <2>5. ~(FrameLength(start \o t) < HeaderSize) /\ ~(Len(start \o t) < FrameLength(start \o t))
    <3>1. ~(n < HeaderSize) /\ ~(Len(start) < n)
      BY <1>5 DEF Whole, n
    <3>. QED
      BY <1>1, <1>2, <2>1, <2>2, <3>1
  <2>6. Whole(start \o t)
    BY <2>2, <2>5 DEF Whole
  <2>7. Raw(start \o t) = raw /\ Behind(start \o t) = behind \o t
    BY <2>2, <2>4 DEF Raw, Behind
  <2>. QED
    BY <2>6, <2>7 DEF raw, behind
<1>. QED
  BY <1>4, <1>5

\* Scanning more bytes is to scan what was left of the first with those behind them,
\* unless the first raised.
GoesOn(s, t) ==
    /\ Scan[s].raised =>
          /\ Scan[s \o t].frames = Scan[s].frames
          /\ Scan[s \o t].rest = Scan[s].rest \o t
          /\ Scan[s \o t].raised
    /\ ~Scan[s].raised =>
          /\ Scan[s \o t].frames = Scan[s].frames \o Scan[Scan[s].rest \o t].frames
          /\ Scan[s \o t].rest = Scan[Scan[s].rest \o t].rest
          /\ Scan[s \o t].raised = Scan[Scan[s].rest \o t].raised

LEMMA ScanGoesOn ==
    ASSUME NEW s \in Seq(Nat), NEW t \in Seq(Nat)
    PROVE  GoesOn(s, t)
<1>. DEFINE size == [b \in Seq(Nat) |-> Len(b)]
            D == Seq(Nat)
            Good == {b \in D : GoesOn(b, t)}
<1>1. ASSUME NEW b \in Seq(Nat), \A less \in Seq(Nat) : Len(less) < Len(b) => GoesOn(less, t)
      PROVE  GoesOn(b, t)
  <2>. DEFINE start == FromStart(b)
  <2>1. start = FromStart(b)
    OBVIOUS
  <2>. HIDE DEF start
  <2>2. start \in Seq(Nat) /\ b \o t \in Seq(Nat) /\ start \o t \in Seq(Nat)
    BY <2>1, StartParts, ConcatProperties
  <2>3. start # <<>> => FromStart(b \o t) = start \o t /\ FromStart(start \o t) = start \o t
    BY <2>1, StartInFront
  <2>. DEFINE longer == b \o t
              front == start \o t
  <2>7. longer \in Seq(Nat) /\ front \in Seq(Nat) /\ (start # <<>> => front = FromStart(longer))
    BY <2>2, <2>3
  <2>. HIDE DEF longer, front
  <2>8. /\ start # <<>> /\ Wrong(front) => Scan[longer] = Scan[Skip(front)]
        /\ start # <<>> /\ Whole(front) /\ ~Decodes(Raw(front)) => Scan[longer] = Raises(front)
        /\ start # <<>> /\ Whole(front) /\ Decodes(Raw(front)) =>
              Scan[longer] = InFront(Decoded(Raw(front)), Scan[Behind(front)])
    BY <2>7, ScanCases
  <2>4. CASE Short(start) \/ Partial(start)
    <3>1. Scan[b].frames = <<>> /\ Scan[b].rest = start /\ ~Scan[b].raised
      BY <2>1, <2>2, <2>4, ScanCases, WaitsIs, ZenonT(40)
    <3>2. Scan[b \o t] = Scan[start \o t]
      <4>1. CASE start = <<>>
        <5>1. NoStart(b)
          BY <2>1, <4>1, StartOrNone
        <5>2. FromStart(b \o t) = FromStart(t) /\ start \o t = t
          BY <4>1, <5>1, BehindNoise, ConcatEmptySeq
        <5>. QED
          BY <2>2, <5>2, SameStart
      <4>2. CASE start # <<>>
        BY <2>2, <2>3, <4>2, SameStart
      <4>. QED
        BY <4>1, <4>2
    <3>3. <<>> \o Scan[start \o t].frames = Scan[start \o t].frames
      BY <2>2, ScanResult, ConcatEmptySeq
    <3>. QED
      BY <3>1, <3>2, <3>3 DEF GoesOn
  <2>5. CASE Wrong(start)
    <3>1. /\ Skip(start) \in Seq(Nat) /\ Len(Skip(start)) < Len(b) /\ start # <<>>
          /\ Scan[b] = Scan[Skip(start)]
      BY <2>1, <2>5, StartParts, ScanCases DEF Wrong
    <3>2. Wrong(start \o t) /\ Skip(start \o t) = Skip(start) \o t
      BY <2>1, <2>5, StartStays
    <3>3. Scan[b \o t] = Scan[Skip(start) \o t]
      BY <2>8, <3>1, <3>2 DEF longer, front
    <3>4. GoesOn(Skip(start), t)
      BY <1>1, <3>1
    <3>. QED
      BY <3>1, <3>3, <3>4 DEF GoesOn
  <2>6. CASE Whole(start)
    <3>. DEFINE behind == Behind(start)
                message == Decoded(Raw(start))
    <3>1. /\ behind \in Seq(Nat) /\ Len(behind) < Len(b) /\ start # <<>>
          /\ message \in Message
      BY <2>1, <2>6, StartParts, WholeDecodes DEF Whole
    <3>2. Whole(start \o t) /\ Raw(start \o t) = Raw(start) /\ Behind(start \o t) = behind \o t
      BY <2>1, <2>6, StartStays
    <3>3. behind \o t \in Seq(Nat)
      BY <3>1, ConcatProperties
    <3>4. CASE ~Decodes(Raw(start))
      <4>1. Scan[b] = Raises(start) /\ Scan[b \o t] = Raises(start \o t)
        BY <2>1, <2>6, <2>8, <3>1, <3>2, <3>4, ScanCases DEF longer, front
      <4>2. Behind(start) \in Seq(Nat) /\ Behind(start \o t) \in Seq(Nat)
        BY <3>1, <3>2, <3>3
      <4>. QED
        BY <3>2, <4>1, <4>2, RaisesIs DEF GoesOn
    <3>5. CASE Decodes(Raw(start))
      <4>1. Scan[b] = InFront(message, Scan[behind])
        BY <2>1, <2>6, <3>5, ScanCases
      <4>2. Scan[b \o t] = InFront(message, Scan[behind \o t])
        BY <2>8, <3>1, <3>2, <3>5 DEF longer, front
      <4>. HIDE DEF behind, message
      <4>3. /\ Scan[b].frames = <<message>> \o Scan[behind].frames
            /\ Scan[b].rest = Scan[behind].rest /\ Scan[b].raised = Scan[behind].raised
        <5>1. Scan[behind] \in Result
          BY <3>1, ScanResult
        <5>. QED
          BY <3>1, <4>1, <5>1, InFrontIs, ZenonT(40)
      <4>7. /\ Scan[b \o t].frames = <<message>> \o Scan[behind \o t].frames
            /\ Scan[b \o t].rest = Scan[behind \o t].rest
            /\ Scan[b \o t].raised = Scan[behind \o t].raised
        <5>1. Scan[behind \o t] \in Result
          BY <3>3, ScanResult
        <5>. DEFINE later == Scan[behind \o t]
                    all == Scan[b \o t]
        <5>2. later \in Result /\ all = InFront(message, later)
          BY <4>2, <5>1
        <5>. HIDE DEF later, all
        <5>3. all.frames = <<message>> \o later.frames /\ all.rest = later.rest
              /\ all.raised = later.raised
          BY <3>1, <5>2, InFrontIs
        <5>. QED
          BY <5>3 DEF later, all
      <4>4. GoesOn(behind, t)
        BY <1>1, <3>1
      <4>5. CASE Scan[behind].raised
        BY <4>3, <4>4, <4>5, <4>7 DEF GoesOn
      <4>6. CASE ~Scan[behind].raised
        <5>. DEFINE more == Scan[Scan[behind].rest \o t]
        <5>1. /\ Scan[behind \o t].frames = Scan[behind].frames \o more.frames
              /\ Scan[behind \o t].rest = more.rest /\ Scan[behind \o t].raised = more.raised
          BY <4>4, <4>6 DEF GoesOn
        <5>2. Scan[b].rest \o t = Scan[behind].rest \o t
          BY <4>3
        <5>3. Scan[behind].rest \o t \in Seq(Nat) /\ Scan[behind].frames \in Seq(Message)
          BY <3>1, ScanResult, ConcatProperties
        <5>4. more.frames \in Seq(Message) /\ <<message>> \in Seq(Message)
          BY <3>1, <5>3, ScanResult, One
        <5>. HIDE DEF more
        <5>5. <<message>> \o (Scan[behind].frames \o more.frames)
              = (<<message>> \o Scan[behind].frames) \o more.frames
          <6>. \A m, f, g \in Seq(Message) : m \o (f \o g) = (m \o f) \o g
            BY ConcatAssociative, SMTT(30)
          <6>. QED
            BY <5>3, <5>4, Zenon
        <5>6. /\ Scan[b \o t].frames = Scan[b].frames \o more.frames
              /\ Scan[b \o t].rest = more.rest /\ Scan[b \o t].raised = more.raised
          BY <4>3, <4>7, <5>1, <5>5
        <5>. QED
          BY <4>3, <4>6, <5>2, <5>6 DEF GoesOn, more
      <4>. QED
        BY <4>5, <4>6
    <3>. QED
      BY <3>4, <3>5
  <2>. QED
    BY <2>4, <2>5, <2>6, Kinds
<1>2. D \subseteq Good
  <2>1. ASSUME NEW b \in D, \A less \in D : size[less] < size[b] => less \in Good
        PROVE  b \in Good
    BY <1>1, <2>1
  <2>2. size \in [D -> Nat] /\ 1 \in Nat \ {0}
    BY LenProperties
  <2>. HIDE DEF size, Good, D
  <2>. QED
    BY <2>1, <2>2, Link!SizeInduction
<1>. QED
  BY <1>2

------------------------------------------------------------------------------
(* Sequences of sequences, one behind the other.                           *)

\* The function by which FlattenSeq is defined.
Joined(seqs) ==
    LET flatten[i \in 1..Len(seqs)] ==
        IF i = 1 THEN seqs[i] ELSE flatten[i-1] \o seqs[i]
    IN flatten

LEMMA JoinedIs ==
    ASSUME NEW S, NEW seqs \in Seq(Seq(S))
    PROVE  \A i \in 1..Len(seqs) :
              Joined(seqs)[i] = IF i = 1 THEN seqs[i] ELSE Joined(seqs)[i - 1] \o seqs[i]
<1>. DEFINE D == 1..Len(seqs)
            V == Seq(S)
            Defined(f) == [i \in D |-> IF i = 1 THEN seqs[i] ELSE f[i - 1] \o seqs[i]]
            size == [i \in D |-> i]
            body == [f \in [D -> V] |-> Defined(f)]
<1>1. Len(seqs) \in Nat /\ \A i \in D : seqs[i] \in V /\ i \in Nat /\ (i # 1 => i - 1 \in D)
  BY LenProperties, ElementOfSeq
<1>2. \E f \in [D -> V] : f = Defined(f)
  <2>1. body \in [[D -> V] -> [D -> V]]
    <3>1. ASSUME NEW f \in [D -> V] PROVE Defined(f) \in [D -> V]
      <4>1. ASSUME NEW i \in D PROVE (IF i = 1 THEN seqs[i] ELSE f[i - 1] \o seqs[i]) \in V
        <5>1. CASE i = 1
          BY <1>1, <5>1
        <5>2. CASE i # 1
          <6>1. f[i - 1] \in V /\ seqs[i] \in V
            BY <1>1, <5>2
          <6>. QED
            BY <5>2, <6>1, ConcatProperties
        <5>. QED
          BY <5>1, <5>2
      <4>. QED
        BY <4>1
    <3>. QED
      BY <3>1
  <2>2. \A f, g \in [D -> V], x \in D :
          (\A y \in D : size[y] < size[x] => f[y] = g[y]) => body[f][x] = body[g][x]
    <3>. SUFFICES ASSUME NEW f \in [D -> V], NEW g \in [D -> V], NEW x \in D,
                         \A y \in D : size[y] < size[x] => f[y] = g[y]
                  PROVE  body[f][x] = body[g][x]
      OBVIOUS
    <3>1. x # 1 => f[x - 1] = g[x - 1]
      BY <1>1
    <3>. QED
      BY <3>1
  <2>3. size \in [D -> Nat] /\ V # {} /\ 1 \in Nat \ {0}
    BY <1>1, EmptySeq
  <2>4. \A f \in [D -> V] : body[f] = Defined(f)
    OBVIOUS
  <2>. HIDE DEF size, body, Defined, D, V
  <2>5. Link!AsksForSmaller(D, V, size, body)
    BY <2>1, <2>2, <2>3 DEF Link!AsksForSmaller
  <2>6. \E f \in [D -> V] : f = body[f]
    BY <2>3, <2>5, Link!Recursion
  <2>. QED
    BY <2>4, <2>6
<1>3. Joined(seqs) = CHOOSE f : f = Defined(f)
  BY DEF Joined
<1>4. Joined(seqs) = Defined(Joined(seqs))
  <2>. HIDE DEF Defined, D, V
  <2>. QED
    BY <1>2, <1>3, Zenon
<1>. QED
  BY <1>4

\* What is joined does not depend on what comes later.
LEMMA JoinedAlike ==
    ASSUME NEW S, NEW s \in Seq(Seq(S)), NEW t \in Seq(Seq(S)), NEW n \in Nat,
           n <= Len(s), n <= Len(t), \A i \in 1..n : s[i] = t[i]
    PROVE  \A i \in 1..n : Joined(s)[i] = Joined(t)[i] /\ Joined(s)[i] \in Seq(S)
<1>. DEFINE Alike == {i \in Nat : i \in 1..n => Joined(s)[i] = Joined(t)[i]
                                                /\ Joined(s)[i] \in Seq(S)}
<1>1. Len(s) \in Nat /\ Len(t) \in Nat /\ \A i \in 1..n : i \in 1..Len(s) /\ i \in 1..Len(t)
  BY LenProperties
<1>2. /\ \A i \in 1..n : Joined(s)[i] = IF i = 1 THEN s[i] ELSE Joined(s)[i - 1] \o s[i]
      /\ \A i \in 1..n : Joined(t)[i] = IF i = 1 THEN t[i] ELSE Joined(t)[i - 1] \o t[i]
  BY <1>1, JoinedIs
<1>3. \A i \in 1..n : s[i] \in Seq(S)
  BY <1>1, ElementOfSeq
<1>4. ASSUME NEW k \in Nat, k \in Alike PROVE k + 1 \in Alike
  <2>. SUFFICES ASSUME k + 1 \in 1..n
                PROVE  Joined(s)[k + 1] = Joined(t)[k + 1] /\ Joined(s)[k + 1] \in Seq(S)
    OBVIOUS
  <2>1. CASE k = 0
    <3>1. 1 \in 1..n
      BY <2>1
    <3>2. Joined(s)[1] = s[1] /\ Joined(t)[1] = t[1] /\ s[1] = t[1] /\ s[1] \in Seq(S)
      BY <1>2, <1>3, <3>1
    <3>. QED
      BY <2>1, <3>2
  <2>2. CASE k # 0
    <3>1. k \in 1..n /\ (k + 1) - 1 = k /\ k + 1 # 1
      BY <2>2
    <3>2. Joined(s)[k] = Joined(t)[k] /\ Joined(s)[k] \in Seq(S)
      BY <1>4, <3>1
    <3>3. Joined(s)[k + 1] = Joined(s)[k] \o s[k + 1] /\ Joined(t)[k + 1] = Joined(t)[k] \o t[k + 1]
      BY <1>2, <3>1
    <3>4. Joined(s)[k] \o s[k + 1] \in Seq(S)
      BY <1>3, <3>2, ConcatProperties
    <3>. QED
      BY <3>2, <3>3, <3>4
  <2>. QED
    BY <2>1, <2>2
<1>5. Nat \subseteq Alike
  <2>1. 0 \in Alike /\ 1 \in Nat \ {0}
    OBVIOUS
  <2>. HIDE DEF Alike
  <2>. QED
    BY <1>4, <2>1, Link!Induction
<1>. QED
  BY <1>5

\* The first n of several sequences, and one more.
LEMMA FlattenGrows ==
    ASSUME NEW S, NEW all \in Seq(Seq(S)), NEW n \in 0..Len(all)
    PROVE  /\ FlattenSeq(SubSeq(all, 1, n)) \in Seq(S)
           /\ n = 0 => FlattenSeq(SubSeq(all, 1, n)) = <<>>
           /\ n # 0 => FlattenSeq(SubSeq(all, 1, n))
                       = FlattenSeq(SubSeq(all, 1, n - 1)) \o all[n]
<1>. DEFINE some(k) == SubSeq(all, 1, k)
<1>1. Len(all) \in Nat
  BY LenProperties
<1>2. ASSUME NEW k \in 0..Len(all)
      PROVE  some(k) \in Seq(Seq(S)) /\ Len(some(k)) = k
             /\ \A i \in 1..k : some(k)[i] = all[i]
  <2>1. some(k) \in Seq(Seq(S)) /\ Len(some(k)) = k /\ all = some(k) \o SubSeq(all, k + 1, Len(all))
        /\ SubSeq(all, k + 1, Len(all)) \in Seq(Seq(S))
    BY <1>2, Split, ZenonT(40)
  <2>. HIDE DEF some
  <2>2. \A i \in 1..Len(some(k)) : (some(k) \o SubSeq(all, k + 1, Len(all)))[i] = some(k)[i]
    BY <2>1, ElementOfParts
  <2>. QED
    BY <2>1, <2>2
<1>. HIDE DEF some
<1>3. FlattenSeq(some(0)) = <<>>
  <2>1. Len(some(0)) = 0 /\ some(0) \in Seq(Seq(S))
    BY <1>1, <1>2
  <2>2. some(0) = <<>>
    BY <2>1, EmptySeq
  <2>. QED
    BY <2>1, <2>2 DEF FlattenSeq
<1>4. ASSUME NEW k \in 1..Len(all)
      PROVE  FlattenSeq(some(k)) = Joined(all)[k] /\ Joined(all)[k] \in Seq(S)
  <2>1. /\ some(k) \in Seq(Seq(S)) /\ Len(some(k)) = k /\ k \in Nat /\ k # 0
        /\ \A i \in 1..k : all[i] = some(k)[i]
    BY <1>1, <1>2, <1>4
  <2>2. FlattenSeq(some(k)) = Joined(some(k))[k]
    BY <2>1 DEF FlattenSeq, Joined
  <2>3. \A i \in 1..k : Joined(all)[i] = Joined(some(k))[i] /\ Joined(all)[i] \in Seq(S)
    <3>1. k <= Len(all) /\ k <= Len(some(k))
      BY <1>1, <2>1
    <3>. QED
      BY <2>1, <3>1, JoinedAlike, ZenonT(40)
  <2>. QED
    BY <2>1, <2>2, <2>3
<1>5. CASE n = 0
  BY <1>3, <1>5, EmptySeq DEF some
<1>6. CASE n = 1
  <2>1. n \in 1..Len(all) /\ n - 1 = 0 /\ all[1] \in Seq(S)
    BY <1>1, <1>6, ElementOfSeq
  <2>2. Joined(all)[1] = all[1]
    BY <1>6, <2>1, JoinedIs
  <2>3. <<>> \o all[1] = all[1]
    BY <2>1, ConcatEmptySeq
  <2>. QED
    BY <1>3, <1>4, <1>6, <2>1, <2>2, <2>3 DEF some
<1>7. CASE n > 1
  <2>1. n \in 1..Len(all) /\ n - 1 \in 1..Len(all) /\ n # 1 /\ n # 0
    BY <1>1, <1>7
  <2>2. Joined(all)[n] = Joined(all)[n - 1] \o all[n]
    BY <2>1, JoinedIs
  <2>. QED
    BY <1>4, <2>1, <2>2 DEF some
<1>8. n = 0 \/ n = 1 \/ n > 1
  BY <1>1
<1>. QED
  BY <1>5, <1>6, <1>7, <1>8

------------------------------------------------------------------------------
(* Frames on the wire.                                                     *)

\* The bytes of a frame that is sent.
LEMMA WireIs ==
    ASSUME NEW frame \in Message, NEW n \in Nat
    PROVE  /\ Wire(frame, n) \in Seq(Nat) /\ Len(frame.payload) \in Nat
           /\ Len(Wire(frame, n)) = 4 + Len(frame.payload)
           /\ Wire(frame, n)[1] = SOF /\ Wire(frame, n)[2] = 2 + Len(frame.payload)
           /\ Wire(frame, n)[3] = frame.command /\ Wire(frame, n)[4] = n
           /\ SubSeq(Wire(frame, n), 5, Len(Wire(frame, n))) = frame.payload
<1>. DEFINE payload == frame.payload
            command == frame.command
            length == 4 - 2 + Len(payload)
            header == <<SOF, length, command, n>>
<1>1. payload \in Seq(Nat) /\ command \in Nat
  BY DEF Message
<1>2. Len(payload) \in Nat /\ length \in Nat /\ length = 2 + Len(payload) /\ SOF \in Nat
  BY <1>1, LenProperties, StreamAssumption
<1>3. Wire(frame, n) = header \o payload
  BY DEF Wire, HeaderSize
<1>. HIDE DEF payload, command, length
<1>4. header \in Seq(Nat)
  BY <1>1, <1>2
<1>5. /\ Len(header) = 4
      /\ header[1] = SOF /\ header[2] = length /\ header[3] = command /\ header[4] = n
  OBVIOUS
<1>. HIDE DEF header
<1>6. /\ header \o payload \in Seq(Nat) /\ Len(header \o payload) = Len(header) + Len(payload)
      /\ SubSeq(header \o payload, Len(header) + 1, Len(header \o payload)) = payload
  BY <1>1, <1>4, Parts
<1>7. \A i \in 1..Len(header) : (header \o payload)[i] = header[i]
  BY <1>1, <1>4, ElementOfParts
<1>8. /\ (header \o payload)[1] = header[1] /\ (header \o payload)[2] = header[2]
      /\ (header \o payload)[3] = header[3] /\ (header \o payload)[4] = header[4]
  <2>1. 1 \in 1..Len(header) /\ 2 \in 1..Len(header) /\ 3 \in 1..Len(header)
        /\ 4 \in 1..Len(header)
    BY <1>5
  <2>. QED
    BY <1>7, <2>1
<1>9. Len(header) + 1 = 5
  BY <1>5
<1>. QED
  BY <1>2, <1>3, <1>5, <1>6, <1>8, <1>9 DEF payload, command

\* At the start of a frame that has arrived in part there is nothing to decode yet.
LEMMA ScanOfPart ==
    ASSUME NEW frame \in Message, NEW n \in Nat, NEW k \in 0..(3 + Len(frame.payload))
    PROVE  /\ SubSeq(Wire(frame, n), 1, k) \in Seq(Nat)
           /\ Scan[SubSeq(Wire(frame, n), 1, k)].frames = <<>>
           /\ ~Scan[SubSeq(Wire(frame, n), 1, k)].raised
<1>. DEFINE wire == Wire(frame, n)
            part == SubSeq(wire, 1, k)
<1>1. /\ wire \in Seq(Nat) /\ Len(frame.payload) \in Nat /\ Len(wire) = 4 + Len(frame.payload)
      /\ wire[1] = SOF /\ wire[2] = 2 + Len(frame.payload)
  BY WireIs
<1>. HIDE DEF wire
<1>2. k \in 0..Len(wire)
  BY <1>1
<1>3. /\ part \in Seq(Nat) /\ Len(part) = k
      /\ \A i \in 1..k : part[i] = wire[i]
  <2>1. /\ part \in Seq(Nat) /\ Len(part) = k /\ SubSeq(wire, k + 1, Len(wire)) \in Seq(Nat)
        /\ wire = part \o SubSeq(wire, k + 1, Len(wire))
    BY <1>1, <1>2, Split
  <2>. HIDE DEF part
  <2>2. \A i \in 1..Len(part) : (part \o SubSeq(wire, k + 1, Len(wire)))[i] = part[i]
    BY <2>1, ElementOfParts
  <2>. QED
    BY <2>1, <2>2
<1>. HIDE DEF part
<1>4. FromStart(part) = part
  <2>1. CASE k = 0
    <3>1. NoStart(part) /\ part = <<>>
      BY <1>3, <2>1, EmptySeq DEF NoStart
    <3>. QED
      BY <1>3, <3>1, NoStartLeavesNothing
  <2>2. CASE k # 0
    <3>1. part # <<>> /\ part[1] = SOF
      BY <1>1, <1>3, <2>2, EmptySeq
    <3>2. <<>> \in Seq(Nat) /\ NoStart(<<>>) /\ <<>> \o part = part
      BY <1>3, EmptySeq, ConcatEmptySeq DEF NoStart
    <3>. QED
      BY <1>3, <3>1, <3>2, StartBehindNoise
  <2>. QED
    BY <2>1, <2>2
<1>5. Short(part) \/ Partial(part)
  <2>. SUFFICES ASSUME ~Short(part) PROVE Partial(part)
    OBVIOUS
  <2>1. 2 \in 1..k
    BY <1>3 DEF Short
  <2>2. part[2] = 2 + Len(frame.payload)
    BY <1>1, <1>3, <2>1
  <2>3. FrameLength(part) = 4 + Len(frame.payload)
    BY <1>1, <2>2 DEF FrameLength
  <2>. QED
    BY <1>1, <1>3, <2>3 DEF Partial, HeaderSize
<1>6. Scan[part] = Waits(part)
  BY <1>3, <1>4, <1>5, ScanCases
<1>7. Scan[part].frames = <<>> /\ ~Scan[part].raised
  BY <1>3, <1>6, WaitsIs
<1>. QED
  BY <1>3, <1>7 DEF part, wire

\* A frame is scanned once it is complete: decoded or undecodable.
LEMMA ScanOfFrame ==
    ASSUME NEW frame \in Message, NEW n \in Nat
    PROVE  /\ Scan[Wire(frame, n)].rest = <<>>
           /\ Decodes(Wire(frame, n)) =>
                 Scan[Wire(frame, n)].frames = <<frame>> /\ ~Scan[Wire(frame, n)].raised
           /\ ~Decodes(Wire(frame, n)) =>
                 Scan[Wire(frame, n)].frames = <<>> /\ Scan[Wire(frame, n)].raised
<1>. DEFINE wire == Wire(frame, n)
<1>1. /\ wire \in Seq(Nat) /\ Len(frame.payload) \in Nat /\ Len(wire) = 4 + Len(frame.payload)
      /\ wire[1] = SOF /\ wire[2] = 2 + Len(frame.payload) /\ wire[3] = frame.command
      /\ SubSeq(wire, 5, Len(wire)) = frame.payload
  BY WireIs
<1>. HIDE DEF wire
<1>2. wire = FromStart(wire)
  <2>1. <<>> \in Seq(Nat) /\ NoStart(<<>>) /\ <<>> \o wire = wire /\ wire # <<>>
    BY <1>1, EmptySeq, ConcatEmptySeq DEF NoStart
  <2>. QED
    BY <1>1, <2>1, StartBehindNoise
<1>3. FrameLength(wire) = Len(wire) /\ Whole(wire)
  BY <1>1 DEF FrameLength, Whole, Short, HeaderSize
<1>4. Raw(wire) = wire /\ Behind(wire) = <<>>
  <2>1. SubSeq(wire, 1, Len(wire)) = wire
    BY <1>1, SubSeqFull
  <2>2. SubSeq(wire, Len(wire) + 1, Len(wire)) = <<>>
    BY <1>1, SubSeqEmpty
  <2>. QED
    BY <1>3, <2>1, <2>2 DEF Raw, Behind
<1>5. Decoded(wire) = frame
  <2>1. HeaderSize + 1 = 5
    BY DEF HeaderSize
  <2>2. Decoded(wire) = [command |-> frame.command, payload |-> frame.payload]
    BY <1>1, <2>1 DEF Decoded
  <2>. QED
    BY <2>2 DEF Message
<1>6. /\ <<>> \in Seq(Nat) /\ Scan[<<>>].frames = <<>> /\ Scan[<<>>].rest = <<>>
      /\ ~Scan[<<>>].raised
  <2>1. <<>> \in Seq(Nat) /\ NoStart(<<>>) /\ Short(<<>>)
    BY EmptySeq DEF NoStart, Short
  <2>3. <<>> = FromStart(<<>>)
    BY <2>1, NoStartLeavesNothing
  <2>2. Scan[<<>>] = Waits(<<>>)
    BY <2>1, <2>3, ScanCases
  <2>. QED
    BY <2>1, <2>2, WaitsIs
<1>7. CASE Decodes(wire)
  <2>1. Scan[wire] = InFront(frame, Scan[<<>>])
    BY <1>1, <1>2, <1>3, <1>4, <1>5, <1>7, ScanCases
  <2>2. Scan[<<>>] \in Result
    BY <1>6, ScanResult
  <2>3. /\ Scan[wire].frames = <<frame>> \o Scan[<<>>].frames
        /\ Scan[wire].rest = Scan[<<>>].rest /\ Scan[wire].raised = Scan[<<>>].raised
    BY <2>1, <2>2, InFrontIs
  <2>4. <<frame>> \o <<>> = <<frame>>
    BY ConcatEmptySeq, One
  <2>. QED
    BY <1>6, <1>7, <2>3, <2>4 DEF wire
<1>8. CASE ~Decodes(wire)
  <2>1. Scan[wire] = Raises(wire)
    BY <1>1, <1>2, <1>3, <1>4, <1>8, ScanCases
  <2>. QED
    BY <1>4, <1>6, <1>8, <2>1, RaisesIs DEF wire
<1>. QED
  BY <1>7, <1>8 DEF wire

------------------------------------------------------------------------------
(* What the earbuds send.                                                  *)

Pieces == GoodPieces \cup BadPieces \cup NoisePieces

\* A frame that decodes, in front of nothing, or one that does not.
IsFrame(piece) ==
    \E frame \in Message, n \in Nat :
        piece.bytes = Wire(frame, n) /\ piece.frame = <<frame>> /\ Decodes(Wire(frame, n))

IsBad(piece) ==
    \E frame \in Message, n \in Nat :
        piece.bytes = Wire(frame, n) /\ piece.frame = <<>> /\ ~Decodes(Wire(frame, n))

\* Every frame of the stream decodes.
LEMMA FramesDecode ==
    ASSUME NEW frame \in Frame, NEW n \in InnerLengths(frame)
    PROVE  frame \in Message /\ n \in Nat /\ Decodes(Wire(frame, n))
<1>1. frame \in Message
  BY StreamAssumption DEF Frame, Message
<1>2. Len(frame.payload) \in Nat /\ frame.command \in {Plain, Capability, Notify}
  BY <1>1, LenProperties DEF Frame, Message, Commands
<1>3. \/ n = Len(frame.payload)
      \/ frame.command = Capability /\ n \in {0, 1} /\ n + 1 = Len(frame.payload)
      \/ frame.command = Notify /\ n \in {0, Len(frame.payload)}
  <2>1. CASE frame.command = Plain
    BY <2>1, StreamAssumption DEF InnerLengths
  <2>2. CASE frame.command = Capability
    <3>1. frame.command # Plain
      BY <2>2, StreamAssumption
    <3>2. InnerLengths(frame)
          \in {{Len(frame.payload)} \cup {m \in {0, 1} : m + 1 = Len(frame.payload)},
               {0, Len(frame.payload)}}
      BY <2>2, <3>1 DEF InnerLengths
    <3>. QED
      BY <2>2, <3>2 DEF InnerLengths
  <2>3. CASE frame.command = Notify
    BY <2>3, StreamAssumption DEF InnerLengths
  <2>. QED
    BY <1>2, <2>1, <2>2, <2>3
<1>4. n \in Nat
  BY <1>2, <1>3
<1>5. /\ Len(Wire(frame, n)) - HeaderSize = Len(frame.payload)
      /\ Wire(frame, n)[3] = frame.command /\ Wire(frame, n)[4] = n
  BY <1>1, <1>4, WireIs DEF HeaderSize
<1>6. Decodes(Wire(frame, n))
  BY <1>3, <1>5 DEF Decodes
<1>. QED
  BY <1>1, <1>4, <1>6

\* A plain frame whose payload is not as long as it says does not.
LEMMA BadDoNotDecode ==
    ASSUME NEW payload \in Payloads
    PROVE  LET frame == [command |-> Plain, payload |-> payload]
               n == Len(payload) + 1
           IN frame \in Message /\ n \in Nat /\ ~Decodes(Wire(frame, n))
<1>. DEFINE frame == [command |-> Plain, payload |-> payload]
            n == Len(payload) + 1
<1>1. payload \in Seq(Nat) /\ Plain \in Nat
  BY StreamAssumption DEF Commands
<1>2. frame \in Message /\ Len(payload) \in Nat /\ n \in Nat
  BY <1>1, LenProperties DEF Message
<1>3. frame.command = Plain /\ frame.payload = payload
  OBVIOUS
<1>. HIDE DEF frame
<1>4. /\ Len(Wire(frame, n)) - HeaderSize = Len(payload)
      /\ Wire(frame, n)[3] = Plain /\ Wire(frame, n)[4] = Len(payload) + 1
  <2>1. n = Len(payload) + 1
    OBVIOUS
  <2>. HIDE DEF n
  <2>2. /\ Len(Wire(frame, n)) = 4 + Len(frame.payload)
        /\ Wire(frame, n)[3] = frame.command /\ Wire(frame, n)[4] = n
    BY <1>2, WireIs
  <2>. QED
    BY <1>2, <1>3, <2>1, <2>2 DEF HeaderSize
<1>5. ~Decodes(Wire(frame, n))
  BY <1>2, <1>4, StreamAssumption DEF Decodes
<1>. QED
  BY <1>2, <1>5 DEF frame

\* A piece is a frame, an undecodable frame or a byte of silence.
LEMMA PieceIs ==
    ASSUME NEW piece \in Pieces
    PROVE  /\ piece.bytes \in Seq(Nat) /\ piece.frame \in Seq(Message)
           /\ piece.kind = "frame" => IsFrame(piece)
           /\ piece.kind = "bad" => IsBad(piece)
           /\ piece.kind = "silence" => piece.bytes = <<0>> /\ piece.frame = <<>>
<1>1. CASE piece \in GoodPieces
  <2>5. PICK frame \in Frame : \E n \in InnerLengths(frame) :
            piece = [kind |-> "frame", bytes |-> Wire(frame, n), frame |-> <<frame>>]
    BY <1>1 DEF GoodPieces, Piece
  <2>1. PICK n \in InnerLengths(frame) :
            piece = [kind |-> "frame", bytes |-> Wire(frame, n), frame |-> <<frame>>]
    BY <2>5
  <2>2. frame \in Message /\ n \in Nat /\ Decodes(Wire(frame, n))
    BY FramesDecode
  <2>3. piece.kind = "frame" /\ piece.bytes = Wire(frame, n) /\ piece.frame = <<frame>>
    BY <2>1
  <2>4. Wire(frame, n) \in Seq(Nat) /\ <<frame>> \in Seq(Message)
    BY <2>2, WireIs, One
  <2>. QED
    BY <2>2, <2>3, <2>4 DEF IsFrame
<1>2. CASE piece \in BadPieces
  <2>1. PICK payload \in Payloads :
            piece = [kind |-> "bad", frame |-> <<>>,
                     bytes |-> Wire([command |-> Plain, payload |-> payload], Len(payload) + 1)]
    BY <1>2 DEF BadPieces, Piece
  <2>. DEFINE frame == [command |-> Plain, payload |-> payload]
              n == Len(payload) + 1
  <2>2. frame \in Message /\ n \in Nat /\ ~Decodes(Wire(frame, n))
    BY BadDoNotDecode
  <2>3. piece.kind = "bad" /\ piece.bytes = Wire(frame, n) /\ piece.frame = <<>>
    BY <2>1
  <2>. HIDE DEF frame, n
  <2>4. Wire(frame, n) \in Seq(Nat) /\ <<>> \in Seq(Message)
    BY <2>2, WireIs, EmptySeq
  <2>. QED
    BY <2>2, <2>3, <2>4 DEF IsBad
<1>3. CASE piece \in NoisePieces
  <2>1. /\ piece.kind \in {"silence", "noise"} /\ piece.frame = <<>>
        /\ piece.bytes \in {<<0>>, <<SOF>>, <<SOF, 1>>, <<SOF, HeaderSize, Plain>>}
        /\ piece.kind = "silence" => piece.bytes = <<0>>
    BY <1>3 DEF NoisePieces, Piece
  <2>2. SOF \in Nat /\ Plain \in Nat /\ HeaderSize \in Nat
    BY StreamAssumption DEF Commands, HeaderSize
  <2>3. /\ <<0>> \in Seq(Nat) /\ <<SOF>> \in Seq(Nat) /\ <<SOF, 1>> \in Seq(Nat)
        /\ <<SOF, HeaderSize, Plain>> \in Seq(Nat)
    BY <2>2
  <2>4. piece.bytes \in Seq(Nat)
    BY <2>1, <2>3, Zenon
  <2>5. <<>> \in Seq(Message)
    BY EmptySeq
  <2>. QED
    BY <2>1, <2>4, <2>5
<1>. QED
  BY <1>1, <1>2, <1>3 DEF Pieces

\* What the first pieces consist of, and one more.
LEMMA PiecesGrow ==
    ASSUME NEW list \in Seq(Pieces), NEW n \in 0..Len(list)
    PROVE  /\ Bytes(SubSeq(list, 1, n)) \in Seq(Nat)
           /\ n = 0 => Bytes(SubSeq(list, 1, n)) = <<>>
           /\ n # 0 => Bytes(SubSeq(list, 1, n))
                       = Bytes(SubSeq(list, 1, n - 1)) \o list[n].bytes
           /\ FramesOf(SubSeq(list, 1, n)) \in Seq(Message)
           /\ n = 0 => FramesOf(SubSeq(list, 1, n)) = <<>>
           /\ n # 0 => FramesOf(SubSeq(list, 1, n))
                       = FramesOf(SubSeq(list, 1, n - 1)) \o list[n].frame
<1>. DEFINE bytes == [i \in 1..Len(list) |-> list[i].bytes]
            frame == [i \in 1..Len(list) |-> list[i].frame]
<1>1. Len(list) \in Nat /\ \A i \in 1..Len(list) : list[i] \in Pieces
  BY LenProperties, ElementOfSeq
<1>2. bytes \in Seq(Seq(Nat)) /\ Len(bytes) = Len(list)
  BY <1>1, PieceIs
<1>3. frame \in Seq(Seq(Message)) /\ Len(frame) = Len(list)
  BY <1>1, PieceIs
<1>4. ASSUME NEW k \in 0..Len(list)
      PROVE  /\ Bytes(SubSeq(list, 1, k)) = FlattenSeq(SubSeq(bytes, 1, k))
             /\ FramesOf(SubSeq(list, 1, k)) = FlattenSeq(SubSeq(frame, 1, k))
  <2>1. SubSeq(list, 1, k) = [i \in 1..k |-> list[i]]
    BY FirstOnes
  <2>2. SubSeq(bytes, 1, k) = [i \in 1..k |-> bytes[i]]
    <3>. HIDE DEF bytes
    <3>. QED
      BY <1>2, FirstOnes
  <2>3. SubSeq(frame, 1, k) = [i \in 1..k |-> frame[i]]
    <3>. HIDE DEF frame
    <3>. QED
      BY <1>3, FirstOnes
  <2>4. \A i \in 1..k : bytes[i] = list[i].bytes /\ frame[i] = list[i].frame
    BY <1>1
  <2>5. [i \in DOMAIN SubSeq(list, 1, k) |-> SubSeq(list, 1, k)[i].bytes] = SubSeq(bytes, 1, k)
    BY <2>1, <2>2, <2>4
  <2>6. [i \in DOMAIN SubSeq(list, 1, k) |-> SubSeq(list, 1, k)[i].frame] = SubSeq(frame, 1, k)
    BY <2>1, <2>3, <2>4
  <2>. QED
    BY <2>5, <2>6 DEF Bytes, FramesOf
<1>5. /\ Bytes(SubSeq(list, 1, n)) = FlattenSeq(SubSeq(bytes, 1, n))
      /\ FramesOf(SubSeq(list, 1, n)) = FlattenSeq(SubSeq(frame, 1, n))
  BY <1>4
<1>6. n # 0 => /\ Bytes(SubSeq(list, 1, n - 1)) = FlattenSeq(SubSeq(bytes, 1, n - 1))
               /\ FramesOf(SubSeq(list, 1, n - 1)) = FlattenSeq(SubSeq(frame, 1, n - 1))
               /\ bytes[n] = list[n].bytes /\ frame[n] = list[n].frame
  <2>1. n # 0 => n - 1 \in 0..Len(list) /\ n \in 1..Len(list)
    BY <1>1
  <2>. QED
    BY <1>4, <2>1
<1>. HIDE DEF bytes, frame
<1>7. /\ FlattenSeq(SubSeq(bytes, 1, n)) \in Seq(Nat)
      /\ n = 0 => FlattenSeq(SubSeq(bytes, 1, n)) = <<>>
      /\ n # 0 => FlattenSeq(SubSeq(bytes, 1, n))
                  = FlattenSeq(SubSeq(bytes, 1, n - 1)) \o bytes[n]
  BY <1>2, FlattenGrows
<1>8. /\ FlattenSeq(SubSeq(frame, 1, n)) \in Seq(Message)
      /\ n = 0 => FlattenSeq(SubSeq(frame, 1, n)) = <<>>
      /\ n # 0 => FlattenSeq(SubSeq(frame, 1, n))
                  = FlattenSeq(SubSeq(frame, 1, n - 1)) \o frame[n]
  BY <1>3, FlattenGrows
<1>. QED
  BY <1>5, <1>6, <1>7, <1>8

\* What the first pieces consist of is what the stream begins with.
LEMMA PiecesFollow ==
    ASSUME NEW list \in Seq(Pieces), NEW n \in 0..Len(list)
    PROVE  \E rest \in Seq(Nat) : Bytes(list) = Bytes(SubSeq(list, 1, n)) \o rest
<1>. DEFINE first(k) == Bytes(SubSeq(list, 1, k))
            Good == {j \in Nat : n + j \in 0..Len(list) =>
                                   \E rest \in Seq(Nat) : first(n + j) = first(n) \o rest}
<1>1. Len(list) \in Nat
  BY LenProperties
<1>2. \A k \in 0..Len(list) :
         first(k) \in Seq(Nat) /\ (k # 0 => first(k) = first(k - 1) \o list[k].bytes)
  BY PiecesGrow
<1>. HIDE DEF first
<1>3. 0 \in Good
  <2>1. n + 0 = n /\ <<>> \in Seq(Nat) /\ first(n) \o <<>> = first(n)
    BY <1>1, <1>2, EmptySeq, ConcatEmptySeq
  <2>. QED
    BY <2>1
<1>4. ASSUME NEW j \in Nat, j \in Good PROVE j + 1 \in Good
  <2>. SUFFICES ASSUME n + (j + 1) \in 0..Len(list)
                PROVE  \E rest \in Seq(Nat) : first(n + (j + 1)) = first(n) \o rest
    OBVIOUS
  <2>. DEFINE k == n + (j + 1)
  <2>1. /\ k \in 0..Len(list) /\ k # 0 /\ k - 1 = n + j /\ n + j \in 0..Len(list)
        /\ k \in 1..Len(list)
    BY <1>1
  <2>2. PICK rest \in Seq(Nat) : first(n + j) = first(n) \o rest
    BY <1>4, <2>1
  <2>3. first(k) = first(n + j) \o list[k].bytes
    BY <1>2, <2>1
  <2>4. list[k].bytes \in Seq(Nat) /\ first(n) \in Seq(Nat)
    <3>1. list[k] \in Pieces
      BY <2>1, ElementOfSeq
    <3>. QED
      BY <1>2, <3>1, PieceIs
  <2>. DEFINE more == list[k].bytes
  <2>5. more \in Seq(Nat) /\ first(k) = (first(n) \o rest) \o more
    BY <2>2, <2>3, <2>4
  <2>. HIDE DEF k, more
  <2>6. (first(n) \o rest) \o more = first(n) \o (rest \o more)
    BY <2>4, <2>5, BytesAssociative, Zenon
  <2>7. rest \o more \in Seq(Nat)
    BY <2>5, ConcatProperties
  <2>. QED
    BY <2>5, <2>6, <2>7 DEF k
<1>5. Nat \subseteq Good
  <2>1. 1 \in Nat \ {0}
    OBVIOUS
  <2>. HIDE DEF Good
  <2>. QED
    BY <1>3, <1>4, <2>1, Link!Induction
<1>6. Len(list) - n \in Nat /\ n + (Len(list) - n) = Len(list) /\ Len(list) \in 0..Len(list)
  BY <1>1
<1>7. Len(list) - n \in Good
  BY <1>5, <1>6
<1>8. \E rest \in Seq(Nat) : first(Len(list)) = first(n) \o rest
  BY <1>6, <1>7
<1>9. first(Len(list)) = Bytes(list)
  BY SubSeqFull DEF first
<1>. QED
  BY <1>8, <1>9 DEF first

\* How many pieces are complete with the first k bytes.
Complete(list, k) == Max({n \in 0..Len(list) : Len(Bytes(SubSeq(list, 1, n))) <= k})

\* They are followed by a part of the next one.
LEMMA CompleteIs ==
    ASSUME NEW list \in Seq(Pieces), NEW k \in 0..Len(Bytes(list))
    PROVE  LET m == Complete(list, k)
               first == Bytes(SubSeq(list, 1, m))
           IN \/ m = Len(list) /\ SubSeq(Bytes(list), 1, k) = first
              \/ /\ m \in 0..(Len(list) - 1)
                 /\ \E j \in 0..(Len(list[m + 1].bytes) - 1) :
                       SubSeq(Bytes(list), 1, k) = first \o SubSeq(list[m + 1].bytes, 1, j)
<1>. DEFINE first(n) == Bytes(SubSeq(list, 1, n))
            counts == {n \in 0..Len(list) : Len(first(n)) <= k}
            m == Max(counts)
            all == Bytes(list)
<1>1. Len(list) \in Nat /\ 0 \in 0..Len(list) /\ Len(list) \in 0..Len(list)
  BY LenProperties
<1>2. \A n \in 0..Len(list) :
         /\ first(n) \in Seq(Nat)
         /\ n = 0 => first(n) = <<>>
         /\ n # 0 => first(n) = first(n - 1) \o list[n].bytes
  BY PiecesGrow
<1>3. \A n \in 0..Len(list) : \E rest \in Seq(Nat) : all = first(n) \o rest
  BY PiecesFollow
<1>4. first(Len(list)) = all
  BY SubSeqFull
<1>5. m = Complete(list, k)
  BY DEF Complete
<1>6. k \in 0..Len(all)
  OBVIOUS
<1>. HIDE DEF first, all
<1>7. all \in Seq(Nat) /\ Len(all) \in Nat /\ k \in Nat
  <2>1. all \in Seq(Nat)
    BY <1>1, <1>2, <1>4
  <2>. QED
    BY <1>6, <2>1, LenProperties
<1>8. m \in counts /\ \A n \in counts : n <= m
  <2>. DEFINE shifted == {i \in 1..(Len(list) + 1) : i - 1 \in counts}
  <2>1. 1 \in shifted
    <3>1. Len(first(0)) = 0
      BY <1>1, <1>2, EmptySeq
    <3>. QED
      BY <1>1, <1>7, <3>1
  <2>2. shifted \in SUBSET (1..(Len(list) + 1)) /\ Len(list) + 1 \in Nat
    BY <1>1
  <2>3. \A n \in counts : n + 1 \in shifted /\ n \in Nat
    BY <1>1
  <2>4. \A i \in shifted : i - 1 \in counts /\ i \in Nat
    OBVIOUS
  <2>. HIDE DEF shifted, counts
  <2>5. \E i \in shifted : \A j \in shifted : j <= i
    BY <2>1, <2>2, Link!LastIndex, 1 \in Nat \ {0}
  <2>6. PICK i \in shifted : \A j \in shifted : j <= i
    BY <2>5
  <2>7. i - 1 \in counts /\ \A n \in counts : i - 1 >= n
    BY <2>3, <2>4, <2>6
  <2>8. m \in counts /\ \A n \in counts : m >= n
    BY <2>7 DEF Max
  <2>. QED
    BY <2>3, <2>8
<1>9. m \in 0..Len(list) /\ Len(first(m)) <= k
  BY <1>8
<1>10. m + 1 \in 0..Len(list) => ~(Len(first(m + 1)) <= k)
  BY <1>1, <1>8
<1>. HIDE DEF m, counts
<1>11. CASE m = Len(list)
  <2>1. k = Len(all)
    BY <1>4, <1>6, <1>7, <1>9, <1>11
  <2>2. SubSeq(all, 1, k) = all
    BY <1>7, <2>1, SubSeqFull
  <2>3. m = Len(list) /\ SubSeq(all, 1, k) = first(m)
    BY <1>4, <1>11, <2>2
  <2>. QED
    BY <1>5, <2>3 DEF all, first
<1>12. CASE m # Len(list)
  <2>. DEFINE next == list[m + 1].bytes
              j == k - Len(first(m))
  <2>1. m \in 0..(Len(list) - 1) /\ m + 1 \in 0..Len(list) /\ m + 1 \in 1..Len(list)
        /\ (m + 1) - 1 = m /\ m + 1 # 0
    BY <1>1, <1>9, <1>12
  <2>2. first(m + 1) = first(m) \o next /\ first(m) \in Seq(Nat)
    BY <1>2, <1>9, <2>1
  <2>3. next \in Seq(Nat)
    <3>1. list[m + 1] \in Pieces
      BY <2>1, ElementOfSeq
    <3>. QED
      BY <3>1, PieceIs
  <2>4. PICK rest \in Seq(Nat) : all = first(m + 1) \o rest
    BY <1>3, <2>1
  <2>. HIDE DEF next
  <2>5. Len(first(m + 1)) = Len(first(m)) + Len(next) /\ Len(first(m)) \in Nat /\ Len(next) \in Nat
    <3>. DEFINE f == first(m)
    <3>1. f \in Seq(Nat)
      BY <2>2
    <3>. HIDE DEF f
    <3>2. Len(f \o next) = Len(f) + Len(next) /\ Len(f) \in Nat /\ Len(next) \in Nat
      BY <2>3, <3>1, Parts
    <3>. QED
      BY <2>2, <3>2 DEF f
  <2>6. j \in 0..(Len(next) - 1) /\ j \in 0..Len(next) /\ Len(first(m)) + j = k
    BY <1>7, <1>9, <1>10, <2>1, <2>5
  <2>. HIDE DEF j
  <2>7. SubSeq(all, 1, k) = first(m) \o SubSeq(next, 1, j)
    <3>. DEFINE f == first(m)
    <3>1. f \in Seq(Nat) /\ all = (f \o next) \o rest /\ Len(f) + j = k
      BY <2>2, <2>4, <2>6
    <3>. HIDE DEF f
    <3>3. f \in Seq(Nat) /\ next \in Seq(Nat) /\ j \in 0..Len(next)
      BY <2>3, <2>6, <3>1
    <3>2. SubSeq((f \o next) \o rest, 1, Len(f) + j) = f \o SubSeq(next, 1, j)
      BY <3>3, CutInMiddle
    <3>. QED
      BY <3>1, <3>2 DEF f
  <2>8. m \in 0..(Len(list) - 1)
        /\ \E i \in 0..(Len(next) - 1) : SubSeq(all, 1, k) = first(m) \o SubSeq(next, 1, i)
    BY <2>1, <2>6, <2>7
  <2>. QED
    BY <1>5, <2>8 DEF all, first, next
<1>. QED
  BY <1>11, <1>12

------------------------------------------------------------------------------
(* The state.                                                              *)

Typed ==
    /\ items \in Seq(Pieces)
    /\ Bytes(items) \in Seq(Nat) /\ Received \in Seq(Nat)
    /\ incoming \in Seq(Nat) /\ buffer \in Seq(Nat)
    /\ Bytes(items) = Received \o incoming
    /\ frames \in Seq(Message) /\ delivered \in Seq(Message)
    /\ recvs \in Nat /\ lost \in Nat
    /\ failed \in {"no", "now", "before"}

LEMMA InitTyped == Init => Typed /\ Received = <<>> /\ Bytes(items) \in Seq(Nat)
<1>. SUFFICES ASSUME Init PROVE Typed /\ Received = <<>>
  BY DEF Typed
<1>1. items \in Seq(Pieces)
  <2>1. PICK n \in 0..MaxItems : items \in [1..n -> Pieces]
    BY DEF Init, Pieces
  <2>2. n \in Nat
    BY StreamAssumption
  <2>. QED
    BY <2>1, <2>2
<1>2. Bytes(items) \in Seq(Nat)
  <2>1. Len(items) \in 0..Len(items) /\ SubSeq(items, 1, Len(items)) = items
    BY <1>1, LenProperties, SubSeqFull
  <2>2. Bytes(SubSeq(items, 1, Len(items))) \in Seq(Nat)
    BY <1>1, <2>1, PiecesGrow
  <2>. QED
    BY <2>1, <2>2
<1>3. incoming = Bytes(items)
  BY DEF Init
<1>4. Received = <<>>
  <2>1. Len(incoming) \in Nat /\ Received = SubSeq(incoming, 1, Len(incoming) - Len(incoming))
    BY <1>2, <1>3, LenProperties DEF Received
  <2>2. Len(incoming) - Len(incoming) = 0
    BY <2>1
  <2>3. SubSeq(incoming, 1, 0) = <<>>
    BY <1>2, <1>3, SubSeqEmpty
  <2>. QED
    BY <2>1, <2>2, <2>3
<1>5. <<>> \in Seq(Nat) /\ <<>> \in Seq(Message) /\ <<>> \o Bytes(items) = Bytes(items)
  BY <1>2, EmptySeq, ConcatEmptySeq
<1>6. /\ buffer = <<>> /\ frames = <<>> /\ recvs = 0
      /\ delivered = <<>> /\ lost = 0 /\ failed = "no"
  BY DEF Init
<1>7. Bytes(items) = Received \o incoming
  BY <1>3, <1>4, <1>5
<1>. QED
  BY <1>1, <1>2, <1>3, <1>4, <1>5, <1>6, <1>7 DEF Typed

\* What a recv returns is the next of what has been sent.
LEMMA ReceiveIs ==
    ASSUME Typed, NEW n \in 1..Len(incoming), Receive(n)
    PROVE  LET more == SubSeq(incoming, 1, n)
               fed == Scan[buffer \o more]
           IN /\ more \in Seq(Nat) /\ buffer \o more \in Seq(Nat) /\ fed \in Result
              /\ items' = items /\ incoming' \in Seq(Nat)
              /\ Received' = Received \o more /\ Received' \in Seq(Nat)
              /\ Bytes(items) = Received' \o incoming'
              /\ buffer' = fed.rest
<1>. DEFINE more == SubSeq(incoming, 1, n)
            rest == SubSeq(incoming, n + 1, Len(incoming))
            fed == Scan[buffer \o more]
<1>1. items' = items /\ incoming' = rest /\ buffer' = fed.rest
  BY DEF Receive, Kept
<1>2. /\ more \in Seq(Nat) /\ Len(more) = n /\ rest \in Seq(Nat)
      /\ Len(rest) = Len(incoming) - n /\ incoming = more \o rest
  <2>1. n \in 0..Len(incoming) /\ incoming \in Seq(Nat)
    BY LenProperties DEF Typed
  <2>. QED
    BY <2>1, SplitBytes, Zenon
<1>3. fed \in Result /\ buffer \o more \in Seq(Nat)
  BY <1>2, ScanResult, ConcatProperties DEF Typed
<1>. HIDE DEF more, rest, fed
<1>. DEFINE before == Received
<1>4. before \in Seq(Nat) /\ Bytes(items) = before \o incoming /\ incoming \in Seq(Nat)
  BY DEF Typed
<1>5. /\ Received' = SubSeq(Bytes(items), 1, Len(Bytes(items)) - Len(rest))
  BY <1>1 DEF Received
<1>. HIDE DEF before
<1>6. Bytes(items) = (before \o more) \o rest
  <2>1. (before \o more) \o rest = before \o (more \o rest)
    BY <1>2, <1>4, BytesAssociative, ZenonT(40)
  <2>. QED
    BY <1>2, <1>4, <2>1
<1>7. before \o more \in Seq(Nat)
  BY <1>2, <1>4, ConcatProperties
<1>. DEFINE now == before \o more
<1>8. now \in Seq(Nat) /\ Bytes(items) = now \o rest
  BY <1>6, <1>7
<1>. HIDE DEF now
<1>9. /\ Len(now \o rest) = Len(now) + Len(rest) /\ Len(now) \in Nat /\ Len(rest) \in Nat
      /\ SubSeq(now \o rest, 1, Len(now)) = now
  BY <1>2, <1>8, Parts, ZenonT(40)
<1>10. Len(Bytes(items)) - Len(rest) = Len(now)
  BY <1>8, <1>9
<1>11. Received' = now
  BY <1>5, <1>8, <1>9, <1>10
<1>12. Bytes(items) = Received' \o incoming'
  BY <1>1, <1>8, <1>11
<1>. QED
  BY <1>1, <1>2, <1>3, <1>8, <1>11, <1>12 DEF now, before, more, fed, rest

\* What has been received so far does not change when it is returned, or when nothing
\* happens.
LEMMA SameReceived ==
    ASSUME Typed, items' = items, incoming' = incoming
    PROVE  Received' = Received /\ Bytes(items)' = Bytes(items)
BY DEF Received, Bytes

LEMMA ReceiveTyped ==
    ASSUME Typed, NEW n \in 1..Len(incoming), Receive(n)
    PROVE  Typed'
<1>. DEFINE fed == Scan[buffer \o SubSeq(incoming, 1, n)]
<1>1. /\ fed \in Result /\ items' = items /\ incoming' \in Seq(Nat)
      /\ Received' \in Seq(Nat) /\ Bytes(items) = Received' \o incoming' /\ buffer' = fed.rest
  BY ReceiveIs
<1>2. Bytes(items)' = Bytes(items)
  BY <1>1 DEF Bytes
<1>3. \/ /\ frames' = <<>> /\ recvs' = 0
         /\ lost' = lost + Len(frames) + Len(fed.frames) /\ failed' = "now"
      \/ /\ frames' = frames \o fed.frames /\ recvs' = recvs + 1 /\ lost' = lost
         /\ failed' = IF failed = "no" THEN "no" ELSE "before"
  BY DEF Receive
<1>4. delivered' = delivered
  BY DEF Receive
<1>. HIDE DEF fed
<1>5. fed.rest \in Seq(Nat) /\ fed.frames \in Seq(Message)
  BY <1>1 DEF Result
<1>6. /\ Len(frames) \in Nat /\ Len(fed.frames) \in Nat /\ <<>> \in Seq(Message)
      /\ frames \o fed.frames \in Seq(Message)
  BY <1>5, LenProperties, ConcatProperties, EmptySeq DEF Typed
<1>7. /\ frames' \in Seq(Message) /\ recvs' \in Nat /\ lost' \in Nat
      /\ failed' \in {"no", "now", "before"}
  <2>1. recvs \in Nat /\ lost \in Nat
    BY DEF Typed
  <2>2. frames' \in Seq(Message)
    BY <1>3, <1>6
  <2>3. recvs' \in Nat /\ lost' \in Nat
    <3>1. /\ recvs' = 0 \/ recvs' = recvs + 1
          /\ lost' = lost + Len(frames) + Len(fed.frames) \/ lost' = lost
      BY <1>3
    <3>. DEFINE many == Len(frames)
                more == Len(fed.frames)
    <3>2. many \in Nat /\ more \in Nat /\ (lost' = lost + many + more \/ lost' = lost)
      BY <1>6, <3>1
    <3>. HIDE DEF many, more
    <3>3. recvs' \in Nat
      BY <2>1, <3>1
    <3>4. lost + many + more \in Nat
      BY <2>1, <3>2
    <3>5. lost' \in Nat
      BY <2>1, <3>2, <3>4
    <3>. QED
      BY <3>3, <3>5
  <2>4. failed' \in {"no", "now", "before"}
    BY <1>3
  <2>. QED
    BY <2>2, <2>3, <2>4
<1>8. /\ items' \in Seq(Pieces) /\ Bytes(items)' \in Seq(Nat) /\ buffer' \in Seq(Nat)
      /\ Bytes(items)' = Received' \o incoming'
      /\ delivered' \in Seq(Message)
  BY <1>1, <1>2, <1>4, <1>5 DEF Typed
<1>. QED
  BY <1>1, <1>7, <1>8 DEF Typed

LEMMA ReturnTyped ==
    ASSUME Typed, Return
    PROVE  Typed' /\ Received' = Received /\ delivered' \o frames' = delivered \o frames
<1>1. /\ items' = items /\ incoming' = incoming /\ buffer' = buffer /\ lost' = lost
      /\ failed' = failed /\ recvs' = 0 /\ delivered' = delivered \o frames /\ frames' = <<>>
  BY DEF Return
<1>2. Received' = Received /\ Bytes(items)' = Bytes(items)
  BY <1>1, SameReceived
<1>3. delivered \o frames \in Seq(Message) /\ <<>> \in Seq(Message)
  BY ConcatProperties, EmptySeq DEF Typed
<1>4. (delivered \o frames) \o <<>> = delivered \o frames
  BY <1>3, ConcatEmptySeq
<1>5. Typed'
  BY <1>1, <1>2, <1>3 DEF Typed
<1>. QED
  BY <1>1, <1>2, <1>4, <1>5

LEMMA SameTyped ==
    ASSUME Typed, UNCHANGED vars
    PROVE  Typed' /\ Received' = Received
<1>1. /\ items' = items /\ incoming' = incoming /\ buffer' = buffer /\ lost' = lost
      /\ failed' = failed /\ recvs' = recvs /\ delivered' = delivered /\ frames' = frames
  BY DEF vars
<1>2. Received' = Received /\ Bytes(items)' = Bytes(items)
  BY <1>1, SameReceived
<1>. QED
  BY <1>1, <1>2 DEF Typed

LEMMA StepTyped == Typed /\ [Next]_vars => Typed'
BY ReceiveTyped, ReturnTyped, SameTyped DEF Next

------------------------------------------------------------------------------
(* Where recv cuts the stream.                                             *)

\* The loop has found in the pieces of the stream what it finds in all of it.
LikeOneScan ==
    failed = "no" =>
        /\ ~Scan[Received].raised
        /\ delivered \o frames = Scan[Received].frames
        /\ buffer = Scan[Received].rest

\* Nothing is found in nothing.
LEMMA ScanOfNothing ==
    /\ <<>> \in Seq(Nat)
    /\ Scan[<<>>].frames = <<>> /\ Scan[<<>>].rest = <<>> /\ ~Scan[<<>>].raised
<1>1. <<>> \in Seq(Nat) /\ NoStart(<<>>) /\ Short(<<>>)
  BY EmptySeq DEF NoStart, Short
<1>2. <<>> = FromStart(<<>>)
  BY <1>1, NoStartLeavesNothing
<1>3. Scan[<<>>] = Waits(<<>>)
  BY <1>1, <1>2, ScanCases
<1>. QED
  BY <1>1, <1>3, WaitsIs

LEMMA InitLikeOneScan == Init => LikeOneScan
<1>. SUFFICES ASSUME Init PROVE LikeOneScan
  OBVIOUS
<1>1. Received = <<>> /\ buffer = <<>> /\ delivered = <<>> /\ frames = <<>>
  BY InitTyped DEF Init
<1>2. <<>> \o <<>> = <<>>
  BY EmptySeq, ConcatEmptySeq
<1>. QED
  BY <1>1, <1>2, ScanOfNothing DEF LikeOneScan

LEMMA ReceiveLikeOneScan ==
    ASSUME Typed, LikeOneScan, NEW n \in 1..Len(incoming), Receive(n)
    PROVE  LikeOneScan'
<1>. DEFINE more == SubSeq(incoming, 1, n)
            fed == Scan[buffer \o more]
<1>. SUFFICES ASSUME failed' = "no"
              PROVE  /\ ~Scan[Received'].raised
                     /\ delivered' \o frames' = Scan[Received'].frames
                     /\ buffer' = Scan[Received'].rest
  BY DEF LikeOneScan
<1>1. /\ more \in Seq(Nat) /\ fed \in Result /\ Received' = Received \o more
      /\ buffer' = fed.rest
  BY ReceiveIs
<1>2. /\ failed = "no" /\ ~fed.raised /\ frames' = frames \o fed.frames
      /\ delivered' = delivered
  BY DEF Receive
<1>3. /\ ~Scan[Received].raised /\ delivered \o frames = Scan[Received].frames
      /\ buffer = Scan[Received].rest
  BY <1>2 DEF LikeOneScan
<1>4. fed = Scan[Scan[Received].rest \o more]
  BY <1>3
<1>. HIDE DEF more, fed
<1>5. GoesOn(Received, more)
  BY <1>1, ScanGoesOn DEF Typed
<1>6. /\ Scan[Received \o more].frames = Scan[Received].frames \o fed.frames
      /\ Scan[Received \o more].rest = fed.rest
      /\ Scan[Received \o more].raised = fed.raised
  BY <1>3, <1>4, <1>5 DEF GoesOn
<1>7. (delivered \o frames) \o fed.frames = delivered \o (frames \o fed.frames)
  <2>1. fed.frames \in Seq(Message) /\ frames \in Seq(Message) /\ delivered \in Seq(Message)
    BY <1>1 DEF Typed, Result
  <2>. QED
    BY <2>1, MessagesAssociative, Zenon
<1>8. delivered' \o frames' = Scan[Received].frames \o fed.frames
  BY <1>2, <1>3, <1>7
<1>. QED
  BY <1>1, <1>2, <1>6, <1>8

LEMMA StepLikeOneScan == Typed /\ LikeOneScan /\ [Next]_vars => LikeOneScan'
<1>. SUFFICES ASSUME Typed, LikeOneScan, [Next]_vars PROVE LikeOneScan'
  OBVIOUS
<1>1. CASE Return
  <2>1. Received' = Received /\ delivered' \o frames' = delivered \o frames
    BY <1>1, ReturnTyped
  <2>2. failed' = failed /\ buffer' = buffer
    BY <1>1 DEF Return
  <2>. QED
    BY <2>1, <2>2 DEF LikeOneScan
<1>2. ASSUME NEW n \in 1..Len(incoming), Receive(n) PROVE LikeOneScan'
  BY <1>2, ReceiveLikeOneScan
<1>3. CASE UNCHANGED vars
  <2>1. Received' = Received
    BY <1>3, SameTyped
  <2>2. failed' = failed /\ buffer' = buffer /\ delivered' = delivered /\ frames' = frames
    BY <1>3 DEF vars
  <2>. QED
    BY <2>1, <2>2 DEF LikeOneScan
<1>. QED
  BY <1>1, <1>2, <1>3 DEF Next

\* The stream, the buffer and what has been delivered consist of bytes and of messages,
\* wherever recv cuts the stream and whatever is undecodable.
THEOREM AlwaysTyped == Spec => []Typed
<1>1. Init => Typed
  BY InitTyped
<1>. QED
  BY <1>1, StepTyped, PTL DEF Spec

\* Wherever recv cuts the stream, what has been delivered and what is kept are those of
\* one scan of all the bytes, until a frame is undecodable.
THEOREM CutsNeverMatter == Spec => []CutsDoNotMatter
<1>1. Spec => []LikeOneScan
  BY InitLikeOneScan, StepLikeOneScan, AlwaysTyped, PTL DEF Spec
<1>2. LikeOneScan => CutsDoNotMatter
  BY DEF LikeOneScan, CutsDoNotMatter
<1>. QED
  BY <1>1, <1>2, PTL

\* A frame, or a byte that is no start of frame, is scanned for itself.
LEMMA PieceScans ==
    ASSUME NEW piece \in Pieces, piece.kind \in {"frame", "silence"}
    PROVE  /\ Scan[piece.bytes].frames = piece.frame
           /\ Scan[piece.bytes].rest = <<>> /\ ~Scan[piece.bytes].raised
<1>1. CASE piece.kind = "frame"
  <2>1. PICK frame \in Message, n \in Nat :
            piece.bytes = Wire(frame, n) /\ piece.frame = <<frame>> /\ Decodes(Wire(frame, n))
    BY <1>1, PieceIs DEF IsFrame
  <2>. QED
    BY <2>1, ScanOfFrame
<1>2. CASE piece.kind = "silence"
  <2>1. piece.bytes = <<0>> /\ piece.frame = <<>>
    BY <1>2, PieceIs
  <2>2. <<0>> \in Seq(Nat) /\ NoStart(<<0>>)
    BY StreamAssumption DEF NoStart
  <2>3. <<>> = FromStart(<<0>>) /\ Short(<<>>)
    <3>1. <<>> = FromStart(<<0>>)
      BY <2>2, NoStartLeavesNothing
    <3>2. Short(<<>>)
      BY EmptySeq DEF Short
    <3>. QED
      BY <3>1, <3>2
  <2>4. Scan[<<0>>] = Waits(<<>>)
    BY <2>2, <2>3, ScanCases
  <2>. QED
    BY <2>1, <2>4, EmptySeq, WaitsIs, ZenonT(40)
<1>. QED
  BY <1>1, <1>2

\* A part of a frame, also of an undecodable one, is kept.
LEMMA PartScans ==
    ASSUME NEW piece \in Pieces, piece.kind \in {"frame", "bad", "silence"},
           NEW j \in 0..(Len(piece.bytes) - 1)
    PROVE  LET part == SubSeq(piece.bytes, 1, j)
           IN part \in Seq(Nat) /\ Scan[part].frames = <<>> /\ ~Scan[part].raised
<1>1. CASE piece.kind \in {"frame", "bad"}
  <2>1. \E frame \in Message : \E n \in Nat : piece.bytes = Wire(frame, n)
    BY <1>1, PieceIs DEF IsFrame, IsBad
  <2>2. PICK frame \in Message : \E n \in Nat : piece.bytes = Wire(frame, n)
    BY <2>1
  <2>3. PICK n \in Nat : piece.bytes = Wire(frame, n)
    BY <2>2
  <2>4. j \in 0..(3 + Len(frame.payload))
    <3>1. Len(Wire(frame, n)) = 4 + Len(frame.payload) /\ Len(frame.payload) \in Nat
      BY WireIs
    <3>. QED
      BY <2>3, <3>1
  <2>. QED
    BY <2>3, <2>4, ScanOfPart
<1>2. CASE piece.kind = "silence"
  <2>1. piece.bytes = <<0>>
    BY <1>2, PieceIs
  <2>2. j = 0 /\ SubSeq(<<0>>, 1, 0) = <<>>
    BY <2>1, SubSeqEmpty
  <2>. QED
    BY <2>1, <2>2, ScanOfNothing
<1>. QED
  BY <1>1, <1>2

\* Complete pieces, of which none raises, leave nothing.
LEMMA PiecesScan ==
    ASSUME NEW list \in Seq(Pieces),
           \A i \in 1..Len(list) : list[i].kind \in {"frame", "silence"}
    PROVE  \A n \in 0..Len(list) :
              /\ Scan[Bytes(SubSeq(list, 1, n))].frames = FramesOf(SubSeq(list, 1, n))
              /\ Scan[Bytes(SubSeq(list, 1, n))].rest = <<>>
              /\ ~Scan[Bytes(SubSeq(list, 1, n))].raised
<1>. DEFINE first(n) == Bytes(SubSeq(list, 1, n))
            found(n) == FramesOf(SubSeq(list, 1, n))
            Good == {n \in Nat : n \in 0..Len(list) =>
                        /\ Scan[first(n)].frames = found(n)
                        /\ Scan[first(n)].rest = <<>> /\ ~Scan[first(n)].raised}
<1>1. \A n \in 0..Len(list) :
         /\ first(n) \in Seq(Nat) /\ found(n) \in Seq(Message)
         /\ n = 0 => first(n) = <<>> /\ found(n) = <<>>
         /\ n # 0 => first(n) = first(n - 1) \o list[n].bytes
                     /\ found(n) = found(n - 1) \o list[n].frame
  BY PiecesGrow
<1>2. Len(list) \in Nat
  BY LenProperties
<1>. HIDE DEF first, found
<1>3. 0 \in Good
  BY <1>1, <1>2, ScanOfNothing
<1>4. ASSUME NEW k \in Nat, k \in Good PROVE k + 1 \in Good
  <2>. SUFFICES ASSUME k + 1 \in 0..Len(list)
                PROVE  /\ Scan[first(k + 1)].frames = found(k + 1)
                       /\ Scan[first(k + 1)].rest = <<>> /\ ~Scan[first(k + 1)].raised
    OBVIOUS
  <2>. DEFINE piece == list[k + 1]
  <2>1. k \in 0..Len(list) /\ k + 1 \in 1..Len(list) /\ (k + 1) - 1 = k /\ k + 1 # 0
    BY <1>2
  <2>2. Scan[first(k)].frames = found(k) /\ Scan[first(k)].rest = <<>> /\ ~Scan[first(k)].raised
    BY <1>4, <2>1
  <2>3. /\ first(k) \in Seq(Nat)
        /\ first(k + 1) = first(k) \o piece.bytes /\ found(k + 1) = found(k) \o piece.frame
    BY <1>1, <2>1
  <2>4. piece \in Pieces /\ piece.kind \in {"frame", "silence"}
    BY <2>1, ElementOfSeq
  <2>. HIDE DEF piece
  <2>5. piece.bytes \in Seq(Nat)
    BY <2>4, PieceIs
  <2>6. /\ Scan[piece.bytes].frames = piece.frame
        /\ Scan[piece.bytes].rest = <<>> /\ ~Scan[piece.bytes].raised
    BY <2>4, PieceScans
  <2>7. GoesOn(first(k), piece.bytes)
    BY <2>3, <2>5, ScanGoesOn
  <2>8. <<>> \o piece.bytes = piece.bytes
    BY <2>5, ConcatEmptySeq
  <2>. QED
    BY <2>2, <2>3, <2>6, <2>7, <2>8 DEF GoesOn
<1>5. Nat \subseteq Good
  <2>1. 1 \in Nat \ {0}
    OBVIOUS
  <2>. HIDE DEF Good
  <2>. QED
    BY <1>3, <1>4, <2>1, Link!Induction
<1>6. \A n \in 0..Len(list) :
         Scan[first(n)].frames = found(n) /\ Scan[first(n)].rest = <<>> /\ ~Scan[first(n)].raised
  BY <1>2, <1>5
<1>. QED
  BY <1>6 DEF first, found

\* What has been received of frames contains those that are complete.
LEMMA ReceivedScans ==
    ASSUME NEW list \in Seq(Pieces), NEW got \in Seq(Nat), NEW others \in Seq(Nat),
           Bytes(list) = got \o others,
           \A i \in 1..Len(list) : list[i].kind \in {"frame", "silence"}
    PROVE  /\ ~Scan[got].raised
           /\ Scan[got].frames = FramesOf(SubSeq(list, 1, Complete(list, Len(got))))
<1>. DEFINE m == Complete(list, Len(got))
            first == Bytes(SubSeq(list, 1, m))
            found == FramesOf(SubSeq(list, 1, m))
<1>1. /\ Len(got) \in 0..Len(Bytes(list)) /\ SubSeq(Bytes(list), 1, Len(got)) = got
      /\ Len(list) \in Nat
  <2>1. /\ Len(got \o others) = Len(got) + Len(others) /\ Len(got) \in Nat /\ Len(others) \in Nat
        /\ SubSeq(got \o others, 1, Len(got)) = got
    BY Parts
  <2>. QED
    BY <2>1, LenProperties
<1>2. \/ m = Len(list) /\ got = first
      \/ /\ m \in 0..(Len(list) - 1)
         /\ \E j \in 0..(Len(list[m + 1].bytes) - 1) :
               got = first \o SubSeq(list[m + 1].bytes, 1, j)
  BY <1>1, CompleteIs
<1>. HIDE DEF m
<1>3. m \in 0..Len(list)
  <2>1. m = Len(list) \/ m \in 0..(Len(list) - 1)
    BY <1>2
  <2>2. Len(list) \in Nat
    BY <1>1
  <2>. QED
    BY <2>1, <2>2
<1>4. Scan[first].frames = found /\ Scan[first].rest = <<>> /\ ~Scan[first].raised
  BY <1>3, PiecesScan
<1>5. first \in Seq(Nat) /\ found \in Seq(Message)
  BY <1>3, PiecesGrow
<1>. HIDE DEF first, found
<1>6. CASE m = Len(list) /\ got = first
  BY <1>4, <1>6 DEF found, m
<1>7. CASE m \in 0..(Len(list) - 1)
           /\ \E j \in 0..(Len(list[m + 1].bytes) - 1) :
                 got = first \o SubSeq(list[m + 1].bytes, 1, j)
  <2>. DEFINE piece == list[m + 1]
  <2>1. PICK j \in 0..(Len(piece.bytes) - 1) : got = first \o SubSeq(piece.bytes, 1, j)
    BY <1>7
  <2>. DEFINE part == SubSeq(piece.bytes, 1, j)
  <2>2. piece \in Pieces /\ piece.kind \in {"frame", "silence"}
    <3>1. m + 1 \in 1..Len(list)
      BY <1>1, <1>7
    <3>. QED
      BY <3>1, ElementOfSeq
  <2>. HIDE DEF piece
  <2>3. part \in Seq(Nat) /\ Scan[part].frames = <<>> /\ ~Scan[part].raised
    BY <2>2, PartScans
  <2>4. got = first \o part
    BY <2>1
  <2>. HIDE DEF part
  <2>5. GoesOn(first, part)
    BY <1>5, <2>3, ScanGoesOn
  <2>6. <<>> \o part = part /\ found \o <<>> = found
    BY <1>5, <2>3, ConcatEmptySeq
  <2>7. Scan[got].frames = found /\ ~Scan[got].raised
    BY <1>4, <2>3, <2>4, <2>5, <2>6 DEF GoesOn
  <2>. QED
    BY <2>7 DEF found, m
<1>. QED
  BY <1>2, <1>6, <1>7

------------------------------------------------------------------------------
(* Frames with anything but a start of frame between them.                 *)

\* No receive() has raised.
NeverRaised == OnlyKinds({"frame", "silence"}) => failed = "no"

\* Nothing is raised while no frame is undecodable.
LEMMA StepNeverRaised ==
    Typed /\ LikeOneScan /\ NeverRaised /\ [Next]_vars => NeverRaised'
<1>. SUFFICES ASSUME Typed, LikeOneScan, NeverRaised, [Next]_vars,
                     OnlyKinds({"frame", "silence"})'
              PROVE  failed' = "no"
  BY DEF NeverRaised
<1>1. items' = items
  BY DEF Next, Return, Receive, vars
<1>2. OnlyKinds({"frame", "silence"}) /\ failed = "no"
  BY <1>1 DEF OnlyKinds, NeverRaised
<1>3. \A i \in 1..Len(items) : items[i].kind \in {"frame", "silence"}
  BY <1>2 DEF OnlyKinds, Typed
<1>4. CASE Return \/ UNCHANGED vars
  BY <1>2, <1>4 DEF Return, vars
<1>5. ASSUME NEW n \in 1..Len(incoming), Receive(n) PROVE failed' = "no"
  <2>. DEFINE more == SubSeq(incoming, 1, n)
              fed == Scan[buffer \o more]
  <2>1. /\ more \in Seq(Nat) /\ Received' = Received \o more /\ Received' \in Seq(Nat)
        /\ Bytes(items) = Received' \o incoming' /\ incoming' \in Seq(Nat)
    BY <1>5, ReceiveIs
  <2>2. ~fed.raised => failed' = "no"
    BY <1>2, <1>5 DEF Receive
  <2>3. ~Scan[Received].raised /\ buffer = Scan[Received].rest
    BY <1>2 DEF LikeOneScan
  <2>4. fed = Scan[Scan[Received].rest \o more]
    BY <2>3
  <2>. HIDE DEF more, fed
  <2>5. GoesOn(Received, more)
    BY <2>1, ScanGoesOn DEF Typed
  <2>6. ~Scan[Received'].raised
    <3>. DEFINE got == Received'
                others == incoming'
    <3>1. got \in Seq(Nat) /\ others \in Seq(Nat) /\ Bytes(items) = got \o others
      BY <2>1
    <3>2. items \in Seq(Pieces)
      BY DEF Typed
    <3>. HIDE DEF got, others
    <3>3. ~Scan[got].raised
      BY <1>3, <3>1, <3>2, ReceivedScans
    <3>. QED
      BY <3>3 DEF got
  <2>. QED
    BY <2>1, <2>2, <2>3, <2>4, <2>5, <2>6 DEF GoesOn
<1>. QED
  BY <1>4, <1>5 DEF Next

\* Frames are delivered each as it was sent, in order, once, with the recv that completes
\* it, whatever is between them that is no start of frame.
THEOREM FramesAlwaysArriveWhole == Spec => []FramesArriveWhole
<1>1. Init => NeverRaised
  BY DEF Init, NeverRaised
<1>2. Spec => [](Typed /\ LikeOneScan)
  BY InitTyped, InitLikeOneScan, StepTyped, StepLikeOneScan, PTL DEF Spec
<1>3. Spec => []NeverRaised
  BY <1>1, <1>2, StepNeverRaised, PTL DEF Spec
<1>4. Typed /\ LikeOneScan /\ NeverRaised => FramesArriveWhole
  <2>. SUFFICES ASSUME Typed, LikeOneScan, NeverRaised, OnlyKinds({"frame", "silence"})
                PROVE  failed = "no" /\ delivered \o frames = FramesOf(Arrived)
    BY DEF FramesArriveWhole
  <2>1. failed = "no" /\ delivered \o frames = Scan[Received].frames
    BY DEF NeverRaised, LikeOneScan
  <2>2. \A i \in 1..Len(items) : items[i].kind \in {"frame", "silence"}
    BY DEF OnlyKinds, Typed
  <2>3. Scan[Received].frames = FramesOf(SubSeq(items, 1, Complete(items, Len(Received))))
    BY <2>2, ReceivedScans DEF Typed
  <2>4. SubSeq(items, 1, Complete(items, Len(Received))) = Arrived
    BY DEF Complete, Arrived
  <2>. QED
    BY <2>1, <2>3, <2>4
<1>. QED
  BY <1>2, <1>3, <1>4, PTL

------------------------------------------------------------------------------
(* What the recvs to come will find.                                       *)

\* The right-hand side of the definition of Held.
HeldStep(f, bytes) ==
    LET fed == Scan[bytes] IN Len(fed.frames) + (IF fed.raised THEN f[fed.rest] ELSE 0)

\* An undecodable frame is out of the buffer.
LEMMA RestIsShorter ==
    ASSUME NEW bytes \in Seq(Nat)
    PROVE  Scan[bytes].raised => Len(Scan[bytes].rest) < Len(bytes)
<1>. DEFINE size == [b \in Seq(Nat) |-> Len(b)]
            D == Seq(Nat)
            Good == {b \in D : Scan[b].raised => Len(Scan[b].rest) < Len(b)}
<1>1. ASSUME NEW b \in Seq(Nat),
             \A less \in Seq(Nat) : Len(less) < Len(b) =>
                (Scan[less].raised => Len(Scan[less].rest) < Len(less))
      PROVE  Scan[b].raised => Len(Scan[b].rest) < Len(b)
  <2>. DEFINE start == FromStart(b)
  <2>1. start = FromStart(b) /\ Len(b) \in Nat
    BY LenProperties
  <2>. HIDE DEF start
  <2>2. CASE Short(start) \/ Partial(start)
    <3>1. start \in Seq(Nat)
      BY <2>1, StartParts
    <3>2. Scan[b] = Waits(start)
      BY <2>1, <2>2, ScanCases
    <3>. QED
      BY <3>1, <3>2, WaitsIs
  <2>3. CASE Wrong(start)
    <3>1. Skip(start) \in Seq(Nat) /\ Len(Skip(start)) < Len(b) /\ Scan[b] = Scan[Skip(start)]
      BY <2>1, <2>3, StartParts, ScanCases
    <3>2. Len(Skip(start)) \in Nat /\ Len(Scan[Skip(start)].rest) \in Nat
      BY <3>1, ScanResult, LenProperties
    <3>3. Scan[b].raised => Len(Scan[b].rest) < Len(Skip(start))
      BY <1>1, <3>1
    <3>. QED
      BY <2>1, <3>1, <3>2, <3>3
  <2>4. CASE Whole(start)
    <3>. DEFINE behind == Behind(start)
    <3>1. behind \in Seq(Nat) /\ Len(behind) < Len(b)
      BY <2>1, <2>4, StartParts
    <3>2. Len(behind) \in Nat /\ Len(Scan[behind].rest) \in Nat
      BY <3>1, ScanResult, LenProperties
    <3>3. CASE ~Decodes(Raw(start))
      <4>1. Scan[b] = Raises(start)
        BY <2>1, <2>4, <3>3, ScanCases
      <4>2. Scan[b].rest = behind
        BY <3>1, <4>1, RaisesIs
      <4>. QED
        BY <3>1, <4>2
    <3>4. CASE Decodes(Raw(start))
      <4>1. Scan[b] = InFront(Decoded(Raw(start)), Scan[behind])
        BY <2>1, <2>4, <3>4, ScanCases
      <4>2. Decoded(Raw(start)) \in Message /\ Scan[behind] \in Result
        BY <2>1, <2>4, <3>1, WholeDecodes, ScanResult
      <4>3. Scan[b].rest = Scan[behind].rest /\ Scan[b].raised = Scan[behind].raised
        BY <4>1, <4>2, InFrontIs, ZenonT(40)
      <4>. HIDE DEF behind
      <4>4. Scan[b].raised => Len(Scan[b].rest) < Len(behind)
        BY <1>1, <3>1, <4>3
      <4>5. Len(Scan[b].rest) \in Nat
        BY <3>2, <4>3
      <4>. QED
        BY <2>1, <3>1, <3>2, <4>4, <4>5
    <3>. QED
      BY <3>3, <3>4
  <2>. QED
    BY <2>2, <2>3, <2>4, Kinds
<1>2. D \subseteq Good
  <2>1. ASSUME NEW b \in D, \A less \in D : size[less] < size[b] => less \in Good
        PROVE  b \in Good
    BY <1>1, <2>1
  <2>2. size \in [D -> Nat] /\ 1 \in Nat \ {0}
    BY LenProperties
  <2>. HIDE DEF size, Good, D
  <2>. QED
    BY <2>1, <2>2, Link!SizeInduction
<1>. QED
  BY <1>2

LEMMA HeldStepIs ==
    ASSUME NEW f, NEW bytes \in Seq(Nat)
    PROVE  /\ Scan[bytes].raised =>
                HeldStep(f, bytes) = Len(Scan[bytes].frames) + f[Scan[bytes].rest]
           /\ ~Scan[bytes].raised => HeldStep(f, bytes) = Len(Scan[bytes].frames)
           /\ Len(Scan[bytes].frames) \in Nat /\ Scan[bytes].rest \in Seq(Nat)
           /\ Scan[bytes].raised \in BOOLEAN
<1>1. /\ Len(Scan[bytes].frames) \in Nat /\ Scan[bytes].rest \in Seq(Nat)
      /\ Scan[bytes].raised \in BOOLEAN
  BY ScanResult, LenProperties
<1>. DEFINE many == Len(Scan[bytes].frames)
            rest == Scan[bytes].rest
            raised == Scan[bytes].raised
<1>2. HeldStep(f, bytes) = many + (IF raised THEN f[rest] ELSE 0)
  BY DEF HeldStep
<1>3. many \in Nat
  BY <1>1
<1>. HIDE DEF many, rest, raised
<1>4. raised => HeldStep(f, bytes) = many + f[rest]
  BY <1>2
<1>5. ~raised => HeldStep(f, bytes) = many
  BY <1>2, <1>3
<1>. QED
  BY <1>1, <1>4, <1>5 DEF many, rest, raised

\* The recursion has a solution, and Held is one.
LEMMA HeldIs == \A bytes \in Seq(Nat) : Held[bytes] = HeldStep(Held, bytes)
<1>. DEFINE Defined(f) == [bytes \in Seq(Nat) |-> HeldStep(f, bytes)]
            size == [bytes \in Seq(Nat) |-> Len(bytes)]
            body == [f \in [Seq(Nat) -> Nat] |-> Defined(f)]
            D == Seq(Nat)
            V == Nat
<1>1. \E f \in [D -> V] : f = Defined(f)
  <2>1. body \in [[D -> V] -> [D -> V]]
    <3>1. ASSUME NEW f \in [D -> V] PROVE Defined(f) \in [D -> V]
      <4>1. ASSUME NEW bytes \in Seq(Nat) PROVE HeldStep(f, bytes) \in Nat
        <5>1. Scan[bytes].rest \in Seq(Nat) /\ Len(Scan[bytes].frames) \in Nat
          BY HeldStepIs
        <5>2. f[Scan[bytes].rest] \in Nat
          BY <5>1
        <5>3. CASE Scan[bytes].raised
          <6>1. HeldStep(f, bytes) = Len(Scan[bytes].frames) + f[Scan[bytes].rest]
            BY <5>3, HeldStepIs
          <6>. QED
            BY <5>1, <5>2, <6>1
        <5>4. CASE ~Scan[bytes].raised
          <6>1. HeldStep(f, bytes) = Len(Scan[bytes].frames)
            BY <5>4, HeldStepIs
          <6>. QED
            BY <5>1, <6>1
        <5>. QED
          BY <5>3, <5>4
      <4>. QED
        BY <4>1
    <3>. QED
      BY <3>1
  <2>2. \A f, g \in [D -> V], x \in D :
          (\A y \in D : size[y] < size[x] => f[y] = g[y]) => body[f][x] = body[g][x]
    <3>. SUFFICES ASSUME NEW f \in [D -> V], NEW g \in [D -> V], NEW x \in D,
                         \A y \in D : size[y] < size[x] => f[y] = g[y]
                  PROVE  HeldStep(f, x) = HeldStep(g, x)
      OBVIOUS
    <3>1. \A y \in Seq(Nat) : Len(y) < Len(x) => f[y] = g[y]
      OBVIOUS
    <3>2. CASE Scan[x].raised
      <4>1. f[Scan[x].rest] = g[Scan[x].rest]
        BY <3>1, <3>2, RestIsShorter, ScanResult
      <4>2. /\ HeldStep(f, x) = Len(Scan[x].frames) + f[Scan[x].rest]
            /\ HeldStep(g, x) = Len(Scan[x].frames) + g[Scan[x].rest]
        BY <3>2, HeldStepIs
      <4>. QED
        BY <4>1, <4>2
    <3>3. CASE ~Scan[x].raised
      BY <3>3, HeldStepIs
    <3>. QED
      BY <3>2, <3>3
  <2>3. size \in [D -> Nat] /\ V # {} /\ 1 \in Nat \ {0}
    BY LenProperties
  <2>4. \A f \in [D -> V] : body[f] = Defined(f)
    OBVIOUS
  <2>. HIDE DEF size, body, Defined, D, V
  <2>5. Link!AsksForSmaller(D, V, size, body)
    BY <2>1, <2>2, <2>3 DEF Link!AsksForSmaller
  <2>6. \E f \in [D -> V] : f = body[f]
    BY <2>3, <2>5, Link!Recursion
  <2>. QED
    BY <2>4, <2>6
<1>2. Held = CHOOSE f : f = Defined(f)
  BY DEF Held, HeldStep
<1>3. Held = Defined(Held)
  <2>. HIDE DEF Defined, D, V
  <2>. QED
    BY <1>1, <1>2, Zenon
<1>. QED
  BY <1>3

LEMMA HeldCounts ==
    ASSUME NEW bytes \in Seq(Nat)
    PROVE  Held[bytes] \in Nat
<1>. DEFINE size == [b \in Seq(Nat) |-> Len(b)]
            D == Seq(Nat)
            Good == {b \in D : Held[b] \in Nat}
<1>1. ASSUME NEW b \in Seq(Nat), \A less \in Seq(Nat) : Len(less) < Len(b) => Held[less] \in Nat
      PROVE  Held[b] \in Nat
  <2>1. Held[b] = HeldStep(Held, b) /\ Len(Scan[b].frames) \in Nat /\ Scan[b].raised \in BOOLEAN
    BY HeldIs, HeldStepIs
  <2>2. CASE Scan[b].raised
    <3>1. Held[Scan[b].rest] \in Nat
      BY <1>1, <2>2, RestIsShorter, ScanResult
    <3>2. HeldStep(Held, b) = Len(Scan[b].frames) + Held[Scan[b].rest]
      BY <2>2, HeldStepIs
    <3>. QED
      BY <2>1, <3>1, <3>2
  <2>3. CASE ~Scan[b].raised
    <3>1. HeldStep(Held, b) = Len(Scan[b].frames)
      BY <2>3, HeldStepIs
    <3>. QED
      BY <2>1, <3>1
  <2>. QED
    BY <2>1, <2>2, <2>3
<1>2. D \subseteq Good
  <2>1. ASSUME NEW b \in D, \A less \in D : size[less] < size[b] => less \in Good
        PROVE  b \in Good
    BY <1>1, <2>1
  <2>2. size \in [D -> Nat] /\ 1 \in Nat \ {0}
    BY LenProperties
  <2>. HIDE DEF size, Good, D
  <2>. QED
    BY <2>1, <2>2, Link!SizeInduction
<1>. QED
  BY <1>2

\* Without an undecodable frame nothing decodable is left.
LEMMA NothingHeld ==
    ASSUME NEW bytes \in Seq(Nat), ~Scan[bytes].raised
    PROVE  Held[bytes] = Len(Scan[bytes].frames) /\ Held[Scan[bytes].rest] = 0
<1>. DEFINE rest == Scan[bytes].rest
            many == Scan[bytes].frames
            again == Scan[rest].frames
<1>1. Held[bytes] = Len(many)
  BY HeldIs, HeldStepIs
<1>2. rest \in Seq(Nat) /\ many \in Seq(Message)
  BY ScanResult
<1>3. again \in Seq(Message)
  BY <1>2, ScanResult
<1>4. GoesOn(bytes, <<>>)
  BY EmptySeq, ScanGoesOn
<1>5. bytes \o <<>> = bytes /\ rest \o <<>> = rest
  BY <1>2, ConcatEmptySeq
<1>6. many = many \o again /\ ~Scan[rest].raised
  BY <1>4, <1>5 DEF GoesOn
<1>7. Len(again) = 0
  <2>. HIDE DEF many, again
  <2>1. Len(many \o again) = Len(many) + Len(again) /\ Len(many) \in Nat /\ Len(again) \in Nat
    BY <1>2, <1>3, ConcatProperties, LenProperties
  <2>. QED
    BY <1>6, <2>1
<1>8. Held[rest] = Len(again)
  <2>. HIDE DEF rest
  <2>1. Held[rest] = HeldStep(Held, rest)
    BY <1>2, HeldIs
  <2>2. HeldStep(Held, rest) = Len(Scan[rest].frames)
    BY <1>2, <1>6, HeldStepIs
  <2>. QED
    BY <2>1, <2>2
<1>. QED
  BY <1>1, <1>7, <1>8

\* What more bytes bring is found behind what has been found.
LEMMA HeldGoesOn ==
    ASSUME NEW s \in Seq(Nat), NEW t \in Seq(Nat)
    PROVE  Held[s \o t] = Len(Scan[s].frames) + Held[Scan[s].rest \o t]
<1>. DEFINE longer == s \o t
            behind == Scan[s].rest \o t
            found == Scan[s].frames
            more == Scan[behind].frames
<1>1. longer \in Seq(Nat) /\ behind \in Seq(Nat) /\ found \in Seq(Message)
  BY ScanResult, ConcatProperties
<1>2. GoesOn(s, t)
  BY ScanGoesOn
<1>3. Scan[s].raised =>
          Scan[longer].frames = found /\ Scan[longer].rest = behind /\ Scan[longer].raised
  BY <1>2 DEF GoesOn
<1>4. ~Scan[s].raised =>
          /\ Scan[longer].frames = found \o more
          /\ Scan[longer].rest = Scan[behind].rest /\ Scan[longer].raised = Scan[behind].raised
  BY <1>2 DEF GoesOn
<1>5. more \in Seq(Message)
  BY <1>1, ScanResult
<1>. HIDE DEF longer, behind, found, more
<1>6. Len(found \o more) = Len(found) + Len(more) /\ Len(found) \in Nat /\ Len(more) \in Nat
  BY <1>1, <1>5, ConcatProperties, LenProperties
<1>7. CASE Scan[s].raised
  <2>1. Held[longer] = HeldStep(Held, longer)
    BY <1>1, HeldIs
  <2>2. HeldStep(Held, longer) = Len(found) + Held[behind]
    BY <1>1, <1>3, <1>7, HeldStepIs
  <2>. QED
    BY <2>1, <2>2 DEF longer, behind, found
<1>8. CASE ~Scan[s].raised
  <2>1. Held[longer] = HeldStep(Held, longer) /\ Held[behind] = HeldStep(Held, behind)
    BY <1>1, HeldIs
  <2>2. CASE Scan[behind].raised
    <3>1. HeldStep(Held, longer) = Len(Scan[longer].frames) + Held[Scan[longer].rest]
      BY <1>1, <1>4, <1>8, <2>2, HeldStepIs
    <3>2. HeldStep(Held, behind) = Len(more) + Held[Scan[behind].rest]
      BY <1>1, <2>2, HeldStepIs DEF more
    <3>3. Held[Scan[behind].rest] \in Nat
      BY <1>1, ScanResult, HeldCounts
    <3>4. Held[longer] = Len(found) + Len(more) + Held[Scan[behind].rest]
      BY <1>4, <1>6, <1>8, <2>1, <3>1
    <3>5. Held[longer] = Len(found) + Held[behind]
      BY <1>6, <2>1, <3>2, <3>3, <3>4
    <3>. QED
      BY <3>5 DEF longer, behind, found
  <2>3. CASE ~Scan[behind].raised
    <3>1. HeldStep(Held, longer) = Len(Scan[longer].frames)
      BY <1>1, <1>4, <1>8, <2>3, HeldStepIs
    <3>2. HeldStep(Held, behind) = Len(more)
      BY <1>1, <2>3, HeldStepIs DEF more
    <3>3. Held[longer] = Len(found) + Held[behind]
      BY <1>4, <1>6, <1>8, <2>1, <3>1, <3>2
    <3>. QED
      BY <3>3 DEF longer, behind, found
  <2>. QED
    BY <2>2, <2>3
<1>. QED
  BY <1>7, <1>8

\* A frame counts for itself, an undecodable one for nothing.
LEMMA PieceCounts ==
    ASSUME NEW piece \in Pieces, piece.kind \in {"frame", "bad"}
    PROVE  Scan[piece.bytes].frames = piece.frame /\ Scan[piece.bytes].rest = <<>>
<1>1. CASE piece.kind = "frame"
  BY <1>1, PieceScans
<1>2. CASE piece.kind = "bad"
  <2>1. PICK frame \in Message, n \in Nat :
            piece.bytes = Wire(frame, n) /\ piece.frame = <<>> /\ ~Decodes(Wire(frame, n))
    BY <1>2, PieceIs DEF IsBad
  <2>. QED
    BY <2>1, ScanOfFrame
<1>. QED
  BY <1>1, <1>2

LEMMA PiecesCount ==
    ASSUME NEW list \in Seq(Pieces),
           \A i \in 1..Len(list) : list[i].kind \in {"frame", "bad"}
    PROVE  \A n \in 0..Len(list) : \A x \in Seq(Nat) :
              Held[Bytes(SubSeq(list, 1, n)) \o x] = Len(FramesOf(SubSeq(list, 1, n))) + Held[x]
<1>. DEFINE first(n) == Bytes(SubSeq(list, 1, n))
            found(n) == FramesOf(SubSeq(list, 1, n))
            Good == {n \in Nat : n \in 0..Len(list) =>
                        \A x \in Seq(Nat) : Held[first(n) \o x] = Len(found(n)) + Held[x]}
<1>1. \A n \in 0..Len(list) :
         /\ first(n) \in Seq(Nat) /\ found(n) \in Seq(Message)
         /\ n = 0 => first(n) = <<>> /\ found(n) = <<>>
         /\ n # 0 => first(n) = first(n - 1) \o list[n].bytes
                     /\ found(n) = found(n - 1) \o list[n].frame
  BY PiecesGrow
<1>2. Len(list) \in Nat
  BY LenProperties
<1>. HIDE DEF first, found
<1>3. 0 \in Good
  <2>. DEFINE before == first(0)
              counted == found(0)
  <2>1. before = <<>> /\ counted = <<>>
    <3>1. 0 \in 0..Len(list)
      BY <1>2
    <3>. QED
      BY <1>1, <3>1
  <2>. HIDE DEF before, counted
  <2>2. \A x \in Seq(Nat) : <<>> \o x = x /\ Held[x] \in Nat
    BY ConcatEmptySeq, HeldCounts
  <2>3. \A x \in Seq(Nat) : Held[before \o x] = Len(counted) + Held[x]
    <3>1. Len(counted) = 0
      BY <2>1, EmptySeq
    <3>. QED
      BY <2>1, <2>2, <3>1
  <2>. QED
    BY <2>3 DEF before, counted
<1>4. ASSUME NEW k \in Nat, k \in Good PROVE k + 1 \in Good
  <2>. SUFFICES ASSUME k + 1 \in 0..Len(list), NEW x \in Seq(Nat)
                PROVE  Held[first(k + 1) \o x] = Len(found(k + 1)) + Held[x]
    OBVIOUS
  <2>. DEFINE piece == list[k + 1]
              before == first(k)
              counted == found(k)
  <2>1. k \in 0..Len(list) /\ k + 1 \in 1..Len(list) /\ (k + 1) - 1 = k /\ k + 1 # 0
    BY <1>2
  <2>2. \A y \in Seq(Nat) : Held[before \o y] = Len(counted) + Held[y]
    BY <1>4, <2>1
  <2>3. /\ before \in Seq(Nat) /\ counted \in Seq(Message)
        /\ first(k + 1) = before \o piece.bytes /\ found(k + 1) = counted \o piece.frame
    BY <1>1, <2>1
  <2>4. piece \in Pieces /\ piece.kind \in {"frame", "bad"}
    BY <2>1, ElementOfSeq
  <2>. HIDE DEF piece, before, counted, Good
  <2>5. piece.bytes \in Seq(Nat) /\ piece.frame \in Seq(Message)
    BY <2>4, PieceIs
  <2>6. Scan[piece.bytes].frames = piece.frame /\ Scan[piece.bytes].rest = <<>>
    BY <2>4, PieceCounts
  <2>. DEFINE bytes == piece.bytes
              frame == piece.frame
  <2>7. bytes \in Seq(Nat) /\ frame \in Seq(Message)
    BY <2>5
  <2>8. Held[bytes \o x] = Len(frame) + Held[<<>> \o x]
    BY <2>5, <2>6, HeldGoesOn
  <2>9. first(k + 1) = before \o bytes /\ found(k + 1) = counted \o frame
    BY <2>3
  <2>. HIDE DEF bytes, frame
  <2>10. <<>> \o x = x /\ Held[x] \in Nat
    BY ConcatEmptySeq, HeldCounts
  <2>11. bytes \o x \in Seq(Nat)
    BY <2>7, ConcatProperties
  <2>12. (before \o bytes) \o x = before \o (bytes \o x)
    BY <2>3, <2>7, BytesAssociative, Zenon
  <2>13. Held[before \o (bytes \o x)] = Len(counted) + Held[bytes \o x]
    BY <2>2, <2>11
  <2>14. /\ Len(counted \o frame) = Len(counted) + Len(frame)
         /\ Len(counted) \in Nat /\ Len(frame) \in Nat
    BY <2>3, <2>7, ConcatProperties, LenProperties
  <2>15. Held[first(k + 1) \o x] = Len(counted) + (Len(frame) + Held[x])
    BY <2>8, <2>9, <2>10, <2>12, <2>13
  <2>16. Len(found(k + 1)) = Len(counted) + Len(frame)
    BY <2>9, <2>14
  <2>17. Len(counted) + (Len(frame) + Held[x]) = (Len(counted) + Len(frame)) + Held[x]
    BY <2>10, <2>14
  <2>. QED
    BY <2>15, <2>16, <2>17
<1>5. Nat \subseteq Good
  <2>1. 1 \in Nat \ {0}
    OBVIOUS
  <2>. HIDE DEF Good
  <2>. QED
    BY <1>3, <1>4, <2>1, Link!Induction
<1>6. \A n \in 0..Len(list) : \A x \in Seq(Nat) : Held[first(n) \o x] = Len(found(n)) + Held[x]
  BY <1>2, <1>5
<1>. QED
  BY <1>6 DEF first, found

\* What has been received counts the frames that are complete.
LEMMA ReceivedCounts ==
    ASSUME NEW list \in Seq(Pieces), NEW got \in Seq(Nat), NEW others \in Seq(Nat),
           Bytes(list) = got \o others,
           \A i \in 1..Len(list) : list[i].kind \in {"frame", "bad"}
    PROVE  Held[got] = Len(FramesOf(SubSeq(list, 1, Complete(list, Len(got)))))
<1>. DEFINE m == Complete(list, Len(got))
            first == Bytes(SubSeq(list, 1, m))
            found == FramesOf(SubSeq(list, 1, m))
<1>1. /\ Len(got) \in 0..Len(Bytes(list)) /\ SubSeq(Bytes(list), 1, Len(got)) = got
      /\ Len(list) \in Nat
  <2>1. /\ Len(got \o others) = Len(got) + Len(others) /\ Len(got) \in Nat /\ Len(others) \in Nat
        /\ SubSeq(got \o others, 1, Len(got)) = got
    BY Parts
  <2>. QED
    BY <2>1, LenProperties
<1>2. \/ m = Len(list) /\ got = first
      \/ /\ m \in 0..(Len(list) - 1)
         /\ \E j \in 0..(Len(list[m + 1].bytes) - 1) :
               got = first \o SubSeq(list[m + 1].bytes, 1, j)
  BY <1>1, CompleteIs
<1>. HIDE DEF m
<1>3. m \in 0..Len(list)
  <2>1. m = Len(list) \/ m \in 0..(Len(list) - 1)
    BY <1>2
  <2>2. Len(list) \in Nat
    BY <1>1
  <2>. QED
    BY <2>1, <2>2
<1>4. \A x \in Seq(Nat) : Held[first \o x] = Len(found) + Held[x]
  BY <1>3, PiecesCount
<1>5. first \in Seq(Nat) /\ Len(found) \in Nat
  BY <1>3, PiecesGrow, LenProperties
<1>. HIDE DEF first, found
<1>6. CASE m = Len(list) /\ got = first
  <2>1. <<>> \in Seq(Nat) /\ first \o <<>> = first /\ Held[<<>>] = 0
    <3>1. Held[<<>>] = Len(Scan[<<>>].frames)
      BY ScanOfNothing, NothingHeld
    <3>. QED
      BY <1>5, <3>1, ScanOfNothing, ConcatEmptySeq, EmptySeq
  <2>2. Held[first \o <<>>] = Len(found) + Held[<<>>]
    BY <1>4, <2>1
  <2>. QED
    BY <1>5, <1>6, <2>1, <2>2 DEF found, m
<1>7. CASE m \in 0..(Len(list) - 1)
           /\ \E j \in 0..(Len(list[m + 1].bytes) - 1) :
                 got = first \o SubSeq(list[m + 1].bytes, 1, j)
  <2>. DEFINE piece == list[m + 1]
  <2>1. PICK j \in 0..(Len(piece.bytes) - 1) : got = first \o SubSeq(piece.bytes, 1, j)
    BY <1>7
  <2>. DEFINE part == SubSeq(piece.bytes, 1, j)
  <2>2. piece \in Pieces /\ piece.kind \in {"frame", "bad"}
    <3>1. m + 1 \in 1..Len(list)
      BY <1>1, <1>7
    <3>. QED
      BY <3>1, ElementOfSeq
  <2>. HIDE DEF piece
  <2>3. part \in Seq(Nat) /\ Scan[part].frames = <<>> /\ ~Scan[part].raised
    BY <2>2, PartScans
  <2>4. got = first \o part
    BY <2>1
  <2>. HIDE DEF part
  <2>5. Held[part] = 0
    <3>1. Held[part] = Len(Scan[part].frames)
      BY <2>3, NothingHeld
    <3>. QED
      BY <2>3, <3>1, EmptySeq
  <2>6. Held[first \o part] = Len(found) + Held[part]
    BY <1>4, <2>3
  <2>. QED
    BY <1>5, <2>4, <2>5, <2>6 DEF found, m
<1>. QED
  BY <1>2, <1>6, <1>7

------------------------------------------------------------------------------
(* Undecodable frames.                                                     *)

\* Whatever is still to come, it is found behind what has been found: delivered, lost or
\* waiting.  Only a receive() that has just raised leaves something decodable.
Accounted ==
    /\ \A x \in Seq(Nat) :
          Held[Received \o x] = Len(delivered \o frames) + lost + Held[buffer \o x]
    /\ Held[buffer] > 0 => failed = "now"

LEMMA InitAccounted == Init => Accounted
<1>. SUFFICES ASSUME Init PROVE Accounted
  OBVIOUS
<1>1. /\ Received = <<>> /\ buffer = <<>> /\ delivered = <<>> /\ frames = <<>>
      /\ lost = 0
  BY InitTyped DEF Init
<1>2. <<>> \o <<>> = <<>> /\ Len(<<>>) = 0
  BY EmptySeq, ConcatEmptySeq
<1>3. Held[<<>>] = 0
  BY ScanOfNothing, NothingHeld
<1>4. \A x \in Seq(Nat) : Held[<<>> \o x] \in Nat
  <2>1. \A x \in Seq(Nat) : <<>> \o x = x
    BY ConcatEmptySeq
  <2>. QED
    BY <2>1, HeldCounts
<1>. QED
  BY <1>1, <1>2, <1>3, <1>4 DEF Accounted

LEMMA ReceiveAccounted ==
    ASSUME Typed, Accounted, NEW n \in 1..Len(incoming), Receive(n)
    PROVE  Accounted'
<1>. DEFINE more == SubSeq(incoming, 1, n)
            fed == Scan[buffer \o more]
            rest == fed.rest
            new == fed.frames
<1>1. /\ more \in Seq(Nat) /\ buffer \o more \in Seq(Nat) /\ fed \in Result
      /\ Received' = Received \o more /\ buffer' = rest
  BY ReceiveIs
<1>2. \/ /\ fed.raised /\ frames' = <<>>
         /\ lost' = lost + Len(frames) + Len(new) /\ failed' = "now"
      \/ ~fed.raised /\ frames' = frames \o new /\ lost' = lost
  BY DEF Receive
<1>3. delivered' = delivered
  BY DEF Receive
<1>4. rest \in Seq(Nat) /\ new \in Seq(Message)
  BY <1>1, ScanResult
<1>5. ~fed.raised => Held[rest] = 0
  BY <1>1, NothingHeld
<1>6. ASSUME NEW x \in Seq(Nat)
      PROVE  Held[Received' \o x] = Len(delivered \o frames) + lost + (Len(new) + Held[rest \o x])
  <2>. DEFINE got == Received
              kept == buffer
              whole == kept \o more
  <2>1. got \in Seq(Nat) /\ kept \in Seq(Nat)
    BY DEF Typed
  <2>2. \A y \in Seq(Nat) : Held[got \o y] = Len(delivered \o frames) + lost + Held[kept \o y]
    BY DEF Accounted
  <2>3. whole \in Seq(Nat) /\ Received' = got \o more
    BY <1>1
  <2>4. Held[whole \o x] = Len(new) + Held[rest \o x]
    BY <1>1, HeldGoesOn
  <2>. HIDE DEF more, fed, rest, new, got, kept
  <2>5. (got \o more) \o x = got \o (more \o x) /\ whole \o x = kept \o (more \o x)
    BY <1>1, <2>1, BytesAssociative, ZenonT(40)
  <2>6. more \o x \in Seq(Nat)
    BY <1>1, ConcatProperties
  <2>7. Held[got \o (more \o x)] = Len(delivered \o frames) + lost + Held[kept \o (more \o x)]
    BY <2>2, <2>6
  <2>. HIDE DEF whole
  <2>. QED
    BY <2>3, <2>4, <2>5, <2>7
<1>7. \A x \in Seq(Nat) : Held[rest \o x] \in Nat
  <2>1. \A x \in Seq(Nat) : rest \o x \in Seq(Nat)
    BY <1>4, ConcatProperties
  <2>. QED
    BY <2>1, HeldCounts
<1>. HIDE DEF more, rest, new, fed
<1>8. /\ Len(delivered \o frames) = Len(delivered) + Len(frames)
      /\ Len(delivered) \in Nat /\ Len(frames) \in Nat /\ Len(new) \in Nat /\ lost \in Nat
      /\ delivered \in Seq(Message) /\ frames \in Seq(Message)
  BY <1>4, ConcatProperties, LenProperties DEF Typed
<1>9. Len(delivered' \o frames') + lost' = Len(delivered \o frames) + lost + Len(new)
  <2>1. CASE frames' = <<>> /\ lost' = lost + Len(frames) + Len(new)
    <3>1. delivered \o <<>> = delivered
      BY <1>8, ConcatEmptySeq
    <3>2. Len(delivered' \o frames') = Len(delivered)
      BY <1>3, <2>1, <3>1
    <3>3. lost' = lost + Len(frames) + Len(new)
      BY <2>1
    <3>. QED
      BY <1>8, <3>2, <3>3
  <2>2. CASE frames' = frames \o new /\ lost' = lost
    <3>1. frames \o new \in Seq(Message) /\ Len(frames \o new) = Len(frames) + Len(new)
      BY <1>4, <1>8, ConcatProperties
    <3>2. Len(delivered \o (frames \o new)) = Len(delivered) + Len(frames \o new)
      BY <1>8, <3>1, ConcatProperties
    <3>3. Len(delivered' \o frames') = Len(delivered) + (Len(frames) + Len(new))
      BY <1>3, <2>2, <3>1, <3>2
    <3>4. lost' = lost
      BY <2>2
    <3>. QED
      BY <1>8, <3>3, <3>4
  <2>. QED
    BY <1>2, <2>1, <2>2
<1>10. ASSUME NEW x \in Seq(Nat)
       PROVE  Held[Received' \o x]
              = Len(delivered' \o frames') + lost' + Held[buffer' \o x]
  <2>. DEFINE a == Len(delivered \o frames)
              b == Held[rest \o x]
              c == Len(new)
              d == Len(delivered' \o frames') + lost'
  <2>1. Held[Received' \o x] = a + lost + (c + b)
    BY <1>6
  <2>2. d = a + lost + c
    BY <1>9
  <2>3. a \in Nat /\ b \in Nat /\ c \in Nat /\ lost \in Nat
    BY <1>7, <1>8
  <2>4. Held[buffer' \o x] = b
    BY <1>1
  <2>. HIDE DEF a, b, c, d
  <2>5. Held[Received' \o x] = d + b
    BY <2>1, <2>2, <2>3
  <2>. QED
    BY <2>4, <2>5 DEF d
<1>11. Held[buffer'] > 0 => failed' = "now"
  BY <1>1, <1>2, <1>5
<1>. QED
  BY <1>10, <1>11 DEF Accounted

LEMMA StepAccounted == Typed /\ Accounted /\ [Next]_vars => Accounted'
<1>. SUFFICES ASSUME Typed, Accounted, [Next]_vars PROVE Accounted'
  OBVIOUS
<1>1. CASE Return
  <2>1. Received' = Received /\ delivered' \o frames' = delivered \o frames
    BY <1>1, ReturnTyped
  <2>2. failed' = failed /\ buffer' = buffer /\ lost' = lost
    BY <1>1 DEF Return
  <2>. QED
    BY <2>1, <2>2 DEF Accounted
<1>2. ASSUME NEW n \in 1..Len(incoming), Receive(n) PROVE Accounted'
  BY <1>2, ReceiveAccounted
<1>3. CASE UNCHANGED vars
  <2>1. Received' = Received
    BY <1>3, SameTyped
  <2>2. /\ failed' = failed /\ buffer' = buffer /\ delivered' = delivered /\ frames' = frames
        /\ lost' = lost
    BY <1>3 DEF vars
  <2>. QED
    BY <2>1, <2>2 DEF Accounted
<1>. QED
  BY <1>1, <1>2, <1>3 DEF Next

\* An undecodable frame takes along what the same receive() had collected and nothing
\* else: every frame that has arrived is delivered, lost that way or waiting in the
\* buffer, and one that waits has been left there by the receive() that raised last.
THEOREM OnlyOneReceiveIsLost == Spec => []OneReceiveIsLost
<1>1. Spec => [](Typed /\ Accounted)
  BY InitTyped, InitAccounted, StepTyped, StepAccounted, PTL DEF Spec
<1>2. Typed /\ Accounted => OneReceiveIsLost
  <2>. SUFFICES ASSUME Typed, Accounted, OnlyKinds({"frame", "bad"})
                PROVE  /\ Len(delivered \o frames) + lost + Held[buffer] = Len(FramesOf(Arrived))
                       /\ Held[buffer] > 0 => failed = "now"
    BY DEF OneReceiveIsLost
  <2>1. <<>> \in Seq(Nat) /\ Received \o <<>> = Received /\ buffer \o <<>> = buffer
    BY EmptySeq, ConcatEmptySeq DEF Typed
  <2>2. Held[Received \o <<>>] = Len(delivered \o frames) + lost + Held[buffer \o <<>>]
    BY <2>1 DEF Accounted
  <2>3. \A i \in 1..Len(items) : items[i].kind \in {"frame", "bad"}
    BY DEF OnlyKinds, Typed
  <2>4. Held[Received] = Len(FramesOf(SubSeq(items, 1, Complete(items, Len(Received)))))
    BY <2>3, ReceivedCounts DEF Typed
  <2>5. SubSeq(items, 1, Complete(items, Len(Received))) = Arrived
    BY DEF Complete, Arrived
  <2>6. Held[buffer] > 0 => failed = "now"
    BY DEF Accounted
  <2>. QED
    BY <2>1, <2>2, <2>4, <2>5, <2>6
<1>. QED
  BY <1>1, <1>2, PTL

------------------------------------------------------------------------------
(* Bytes that stand in others.                                             *)

\* Some bytes hold a part behind the first at ones.
Stands(part, bytes, at) ==
    /\ at + Len(part) <= Len(bytes)
    /\ \A i \in 1..Len(part) : bytes[at + i] = part[i]

\* What is put together stands where its parts stand, one behind the other.
LEMMA StandsInBoth ==
    ASSUME NEW x \in Seq(Nat), NEW y \in Seq(Nat), NEW bytes \in Seq(Nat), NEW at \in Nat
    PROVE  Stands(x \o y, bytes, at) <=> Stands(x, bytes, at) /\ Stands(y, bytes, at + Len(x))
<1>1. /\ Len(x) \in Nat /\ Len(y) \in Nat /\ Len(bytes) \in Nat
      /\ Len(x \o y) = Len(x) + Len(y)
      /\ \A i \in 1..(Len(x) + Len(y)) :
            (x \o y)[i] = IF i <= Len(x) THEN x[i] ELSE y[i - Len(x)]
  BY ConcatProperties, LenProperties
<1>2. ASSUME Stands(x \o y, bytes, at)
      PROVE  Stands(x, bytes, at) /\ Stands(y, bytes, at + Len(x))
  <2>1. /\ at + (Len(x) + Len(y)) <= Len(bytes)
        /\ \A i \in 1..(Len(x) + Len(y)) : bytes[at + i] = (x \o y)[i]
    BY <1>1, <1>2 DEF Stands
  <2>2. ASSUME NEW i \in 1..Len(x) PROVE bytes[at + i] = x[i]
    <3>1. i \in 1..(Len(x) + Len(y)) /\ i <= Len(x)
      BY <1>1
    <3>. QED
      BY <1>1, <2>1, <3>1
  <2>3. ASSUME NEW i \in 1..Len(y) PROVE bytes[(at + Len(x)) + i] = y[i]
    <3>1. /\ Len(x) + i \in 1..(Len(x) + Len(y)) /\ ~(Len(x) + i <= Len(x))
          /\ (Len(x) + i) - Len(x) = i /\ at + (Len(x) + i) = (at + Len(x)) + i
      BY <1>1
    <3>2. (x \o y)[Len(x) + i] = y[i]
      BY <1>1, <3>1
    <3>3. bytes[at + (Len(x) + i)] = (x \o y)[Len(x) + i]
      BY <2>1, <3>1
    <3>. QED
      BY <3>1, <3>2, <3>3
  <2>4. at + Len(x) <= Len(bytes) /\ (at + Len(x)) + Len(y) <= Len(bytes)
    BY <1>1, <2>1
  <2>. QED
    BY <2>2, <2>3, <2>4 DEF Stands
<1>3. ASSUME Stands(x, bytes, at), Stands(y, bytes, at + Len(x))
      PROVE  Stands(x \o y, bytes, at)
  <2>1. /\ (at + Len(x)) + Len(y) <= Len(bytes)
        /\ \A i \in 1..Len(x) : bytes[at + i] = x[i]
        /\ \A i \in 1..Len(y) : bytes[(at + Len(x)) + i] = y[i]
    BY <1>3 DEF Stands
  <2>2. ASSUME NEW i \in 1..(Len(x) + Len(y)) PROVE bytes[at + i] = (x \o y)[i]
    <3>1. CASE i <= Len(x)
      <4>1. i \in 1..Len(x)
        BY <1>1, <3>1
      <4>. QED
        BY <1>1, <2>1, <3>1, <4>1
    <3>2. CASE ~(i <= Len(x))
      <4>1. i - Len(x) \in 1..Len(y) /\ (at + Len(x)) + (i - Len(x)) = at + i
        BY <1>1, <3>2
      <4>2. bytes[(at + Len(x)) + (i - Len(x))] = y[i - Len(x)]
        BY <2>1, <4>1
      <4>. QED
        BY <1>1, <3>2, <4>1, <4>2
    <3>. QED
      BY <3>1, <3>2
  <2>3. at + (Len(x) + Len(y)) <= Len(bytes)
    BY <1>1, <2>1
  <2>. QED
    BY <1>1, <2>2, <2>3 DEF Stands
<1>. QED
  BY <1>2, <1>3

\* What stands in a part stands in the whole.
LEMMA StandsInside ==
    ASSUME NEW x \in Seq(Nat), NEW y \in Seq(Nat), NEW bytes \in Seq(Nat), NEW at \in Nat,
           NEW n \in Nat, Stands(x, y, n), Stands(y, bytes, at)
    PROVE  Stands(x, bytes, at + n)
<1>1. Len(x) \in Nat /\ Len(y) \in Nat /\ Len(bytes) \in Nat
  BY LenProperties
<1>2. n + Len(x) <= Len(y) /\ at + Len(y) <= Len(bytes)
  BY DEF Stands
<1>3. ASSUME NEW i \in 1..Len(x) PROVE bytes[(at + n) + i] = x[i]
  <2>1. n + i \in 1..Len(y) /\ (at + n) + i = at + (n + i)
    BY <1>1, <1>2
  <2>2. y[n + i] = x[i] /\ bytes[at + (n + i)] = y[n + i]
    BY <2>1 DEF Stands
  <2>. QED
    BY <2>1, <2>2
<1>4. (at + n) + Len(x) <= Len(bytes)
  BY <1>1, <1>2
<1>. QED
  BY <1>3, <1>4 DEF Stands

\* What stands at the beginning and is as long is all there is.
LEMMA StandsAlone ==
    ASSUME NEW x \in Seq(Nat), NEW y \in Seq(Nat)
    PROVE  /\ Stands(x, x, 0)
           /\ Stands(x, y, 0) /\ Len(x) = Len(y) => x = y
<1>1. Len(x) \in Nat /\ Len(y) \in Nat
  BY LenProperties
<1>2. Stands(x, x, 0)
  BY <1>1 DEF Stands
<1>3. ASSUME Stands(x, y, 0), Len(x) = Len(y) PROVE x = y
  <2>1. \A i \in 1..Len(x) : x[i] = y[i]
    BY <1>1, <1>3 DEF Stands
  <2>. QED
    BY <1>3, <2>1, SeqEqual
<1>. QED
  BY <1>2, <1>3

\* The first n of several sequences, as one.
Flat(all, n) == FlattenSeq(SubSeq(all, 1, n))

\* Each sequence adds itself.
LEMMA FlatIs ==
    ASSUME NEW all \in Seq(Seq(Nat))
    PROVE  /\ Len(all) \in Nat
           /\ Flat(all, 0) = <<>>
           /\ Flat(all, Len(all)) = FlattenSeq(all)
           /\ \A n \in 0..Len(all) : Flat(all, n) \in Seq(Nat) /\ Len(Flat(all, n)) \in Nat
           /\ \A n \in 1..Len(all) :
                /\ all[n] \in Seq(Nat) /\ Len(all[n]) \in Nat /\ n - 1 \in 0..Len(all)
                /\ Flat(all, n) = Flat(all, n - 1) \o all[n]
                /\ Len(Flat(all, n)) = Len(Flat(all, n - 1)) + Len(all[n])
<1>1. Len(all) \in Nat /\ 0 \in 0..Len(all)
  BY LenProperties
<1>2. Flat(all, 0) = <<>>
  BY <1>1, FlattenGrows DEF Flat
<1>3. \A n \in 0..Len(all) : Flat(all, n) \in Seq(Nat)
  BY FlattenGrows DEF Flat
<1>4. \A n \in 0..Len(all) : Len(Flat(all, n)) \in Nat
  BY <1>3, LenProperties
<1>5. Flat(all, Len(all)) = FlattenSeq(all)
  BY SubSeqFull DEF Flat
<1>6. ASSUME NEW n \in 1..Len(all)
      PROVE  /\ all[n] \in Seq(Nat) /\ Len(all[n]) \in Nat /\ n - 1 \in 0..Len(all)
             /\ Flat(all, n) = Flat(all, n - 1) \o all[n]
             /\ Len(Flat(all, n)) = Len(Flat(all, n - 1)) + Len(all[n])
  <2>1. n \in 0..Len(all) /\ n # 0 /\ n - 1 \in 0..Len(all)
    BY <1>1
  <2>2. all[n] \in Seq(Nat)
    BY ElementOfSeq
  <2>3. Flat(all, n) = Flat(all, n - 1) \o all[n]
    BY <2>1, FlattenGrows DEF Flat
  <2>4. Flat(all, n - 1) \in Seq(Nat)
    BY <1>3, <2>1
  <2>5. Len(Flat(all, n - 1) \o all[n]) = Len(Flat(all, n - 1)) + Len(all[n])
    BY <2>2, <2>4, ConcatProperties
  <2>. QED
    BY <2>1, <2>2, <2>3, <2>5, LenProperties
<1>. QED
  BY <1>1, <1>2, <1>3, <1>4, <1>5, <1>6

\* Each of them stands where those before it end.
LEMMA PartStands ==
    ASSUME NEW all \in Seq(Seq(Nat)), NEW n \in 1..Len(all)
    PROVE  Stands(all[n], FlattenSeq(all), Len(Flat(all, n - 1)))
<1>. DEFINE whole == FlattenSeq(all)
            S == {d \in Nat : d <= Len(all) => Stands(Flat(all, Len(all) - d), whole, 0)}
<1>1. Len(all) \in Nat /\ whole \in Seq(Nat) /\ whole = Flat(all, Len(all))
  <2>1. Len(all) \in 0..Len(all)
    BY FlatIs
  <2>. QED
    BY <2>1, FlatIs
<1>. HIDE DEF whole
<1>2. ASSUME NEW m \in 1..Len(all), Stands(Flat(all, m), whole, 0)
      PROVE  /\ Stands(Flat(all, m - 1), whole, 0)
             /\ Stands(all[m], whole, Len(Flat(all, m - 1)))
  <2>. DEFINE x == Flat(all, m - 1)
              y == all[m]
  <2>1. x \in Seq(Nat) /\ y \in Seq(Nat) /\ Flat(all, m) = x \o y /\ 0 + Len(x) = Len(x)
    <3>1. y \in Seq(Nat) /\ m - 1 \in 0..Len(all) /\ Flat(all, m) = x \o y
      BY FlatIs
    <3>2. x \in Seq(Nat) /\ Len(x) \in Nat
      BY <3>1, FlatIs
    <3>. QED
      BY <3>1, <3>2
  <2>. HIDE DEF x, y
  <2>2. Stands(x \o y, whole, 0)
    BY <1>2, <2>1
  <2>3. Stands(x, whole, 0) /\ Stands(y, whole, 0 + Len(x))
    BY <1>1, <2>1, <2>2, StandsInBoth
  <2>4. Stands(x, whole, 0) /\ Stands(y, whole, Len(x))
    BY <2>1, <2>3
  <2>. QED
    BY <2>4 DEF x, y
<1>3. 0 \in S
  <2>1. Len(all) - 0 = Len(all)
    BY <1>1
  <2>. QED
    BY <1>1, <2>1, StandsAlone
<1>4. ASSUME NEW d \in Nat, d \in S PROVE d + 1 \in S
  <2>. SUFFICES ASSUME d + 1 <= Len(all) PROVE Stands(Flat(all, Len(all) - (d + 1)), whole, 0)
    OBVIOUS
  <2>1. /\ d <= Len(all) /\ Len(all) - d \in 1..Len(all)
        /\ (Len(all) - d) - 1 = Len(all) - (d + 1)
    BY <1>1
  <2>2. Stands(Flat(all, Len(all) - d), whole, 0)
    BY <1>4, <2>1
  <2>3. Stands(Flat(all, (Len(all) - d) - 1), whole, 0)
    BY <1>2, <2>1, <2>2
  <2>. QED
    BY <2>1, <2>3
<1>5. Nat \subseteq S
  <2>. HIDE DEF S
  <2>1. 1 \in Nat \ {0}
    OBVIOUS
  <2>. QED
    BY <1>3, <1>4, <2>1, Link!Induction
<1>6. Len(all) - n \in Nat /\ Len(all) - n <= Len(all) /\ Len(all) - (Len(all) - n) = n
  BY <1>1
<1>7. Stands(Flat(all, n), whole, 0)
  BY <1>5, <1>6
<1>. QED
  BY <1>2, <1>7 DEF whole

------------------------------------------------------------------------------
(* Bytes and gains.                                                        *)

\* The ranges of bytes and gains.
LEMMA ByteRange ==
    /\ Full \in Nat /\ Full >= 2 /\ Full \div 2 \in Nat
    /\ Full = (Full \div 2) + (Full \div 2)
    /\ 0 \in Byte /\ 1 \in Byte
    /\ Byte \subseteq Nat /\ Gain \subseteq Int
<1>1. Full \in Nat /\ Full % 2 = 0 /\ Undecodable \in 0..(Full - 1)
  BY CatalogueAssumption DEF Byte
<1>2. Full >= 2 /\ Full \div 2 \in Nat /\ Full = (Full \div 2) + (Full \div 2)
  BY <1>1
<1>. QED
  BY <1>1, <1>2 DEF Byte, Gain

\* A gain and the byte it is sent as say the same.
LEMMA SignedBytes ==
    /\ \A b \in Byte : Signed(b) \in Gain /\ Unsigned(Signed(b)) = b
    /\ \A g \in Gain : Unsigned(g) \in Byte /\ Signed(Unsigned(g)) = g
<1>. DEFINE half == Full \div 2
<1>1. half \in Nat /\ Full \in Nat /\ Full = half + half /\ Full >= 2
  BY ByteRange
<1>2. /\ Byte = 0..(Full - 1) /\ Gain = (0 - half)..(half - 1)
      /\ \A b : Signed(b) = IF b < half THEN b ELSE b - Full
      /\ \A g : Unsigned(g) = g % Full
  BY DEF Byte, Gain, Signed, Unsigned
<1>. HIDE DEF half
<1>3. ASSUME NEW g \in Gain PROVE Unsigned(g) = IF g < 0 THEN g + Full ELSE g
  <2>1. g \in Int /\ 0 - half <= g /\ g < half /\ g < Full /\ 0 - Full < g
    BY <1>1, <1>2
  <2>2. CASE g < 0
    <3>1. g % Full = g + Full
      BY <1>1, <2>1, <2>2
    <3>. QED
      BY <1>2, <2>2, <3>1
  <2>3. CASE ~(g < 0)
    <3>1. g % Full = g
      BY <1>1, <2>1, <2>3
    <3>. QED
      BY <1>2, <2>3, <3>1
  <2>. QED
    BY <2>2, <2>3
<1>4. ASSUME NEW b \in Byte PROVE Signed(b) \in Gain /\ Unsigned(Signed(b)) = b
  <2>1. Signed(b) \in Gain /\ (Signed(b) < 0 <=> ~(b < half))
    BY <1>1, <1>2
  <2>2. Unsigned(Signed(b)) = IF Signed(b) < 0 THEN Signed(b) + Full ELSE Signed(b)
    BY <1>3, <2>1
  <2>. QED
    BY <1>1, <1>2, <2>1, <2>2
<1>5. ASSUME NEW g \in Gain PROVE Unsigned(g) \in Byte /\ Signed(Unsigned(g)) = g
  BY <1>1, <1>2, <1>3
<1>. QED
  BY <1>4, <1>5

------------------------------------------------------------------------------
(* The fields of an entry.                                                 *)

\* The bands of an entry, two bytes for each.
Pairs(bands) == [i \in DOMAIN bands |-> <<bands[i].frequency, Unsigned(bands[i].gain)>>]

\* Each of them is a frequency and the byte of a gain.
LEMMA PairsAre ==
    ASSUME NEW bands \in Seq(Band)
    PROVE  /\ Len(bands) \in Nat /\ DOMAIN bands = 1..Len(bands)
           /\ Pairs(bands) \in Seq(Seq(Nat)) /\ Len(Pairs(bands)) = Len(bands)
           /\ \A i \in 1..Len(bands) :
                /\ bands[i] \in Band /\ bands[i].frequency \in Byte /\ bands[i].gain \in Gain
                /\ Unsigned(bands[i].gain) \in Byte
                /\ Pairs(bands)[i] \in Seq(Byte) /\ Len(Pairs(bands)[i]) = 2
                /\ Pairs(bands)[i][1] = bands[i].frequency
                /\ Pairs(bands)[i][2] = Unsigned(bands[i].gain)
<1>1. Len(bands) \in Nat /\ DOMAIN bands = 1..Len(bands)
  BY LenProperties
<1>2. ASSUME NEW i \in 1..Len(bands)
      PROVE  /\ bands[i] \in Band /\ bands[i].frequency \in Byte /\ bands[i].gain \in Gain
             /\ Unsigned(bands[i].gain) \in Byte
  <2>1. bands[i] \in Band
    BY ElementOfSeq
  <2>2. bands[i].frequency \in Byte /\ bands[i].gain \in Gain
    BY <2>1 DEF Band
  <2>. QED
    BY <2>1, <2>2, SignedBytes
<1>3. ASSUME NEW i \in 1..Len(bands)
      PROVE  /\ Pairs(bands)[i] \in Seq(Byte) /\ Pairs(bands)[i] \in Seq(Nat)
             /\ Len(Pairs(bands)[i]) = 2
             /\ Pairs(bands)[i][1] = bands[i].frequency
             /\ Pairs(bands)[i][2] = Unsigned(bands[i].gain)
  <2>1. Pairs(bands)[i] = <<bands[i].frequency, Unsigned(bands[i].gain)>>
    BY <1>1 DEF Pairs
  <2>2. \A x, y \in Byte : <<x, y>> \in Seq(Byte) /\ <<x, y>> \in Seq(Nat)
    BY ByteRange
  <2>. QED
    BY <1>2, <2>1, <2>2
<1>4. Pairs(bands) \in [1..Len(bands) -> Seq(Nat)]
  BY <1>1, <1>3 DEF Pairs
<1>5. Pairs(bands) \in Seq(Seq(Nat)) /\ Len(Pairs(bands)) = Len(bands)
  BY <1>1, <1>4, SeqDef, LenProperties
<1>. QED
  BY <1>1, <1>2, <1>3, <1>5

\* All of them, one behind the other: the i-th at twice i.
LEMMA PairsFlat ==
    ASSUME NEW bands \in Seq(Band)
    PROVE  LET whole == FlattenSeq(Pairs(bands)) IN
           /\ whole \in Seq(Byte) /\ whole \in Seq(Nat)
           /\ Len(bands) \in Nat /\ Len(whole) = 2 * Len(bands)
           /\ \A i \in 1..Len(bands) :
                /\ whole[2 * i - 1] = bands[i].frequency
                /\ whole[2 * i] = Unsigned(bands[i].gain)
<1>. DEFINE all == Pairs(bands)
            whole == FlattenSeq(all)
            S == {n \in Nat : n <= Len(all) => Len(Flat(all, n)) = 2 * n}
<1>1. /\ Len(bands) \in Nat /\ all \in Seq(Seq(Nat)) /\ Len(all) = Len(bands)
      /\ \A i \in 1..Len(bands) :
            /\ all[i] \in Seq(Byte) /\ Len(all[i]) = 2
            /\ all[i][1] = bands[i].frequency /\ all[i][2] = Unsigned(bands[i].gain)
  BY PairsAre
<1>2. whole \in Seq(Byte)
  <2>1. all \in Seq(Seq(Byte))
    <3>1. all \in [1..Len(bands) -> Seq(Byte)]
      BY <1>1, LenProperties
    <3>. QED
      BY <1>1, <3>1, SeqDef
  <2>2. Len(all) \in 0..Len(all)
    BY <1>1
  <2>3. FlattenSeq(SubSeq(all, 1, Len(all))) \in Seq(Byte)
    BY <2>1, <2>2, FlattenGrows
  <2>. QED
    BY <2>1, <2>3, SubSeqFull
<1>. HIDE DEF all
<1>3. 0 \in S
  <2>1. Len(Flat(all, 0)) = 0
    BY <1>1, FlatIs, EmptySeq
  <2>. QED
    BY <2>1
<1>4. ASSUME NEW n \in Nat, n \in S PROVE n + 1 \in S
  <2>. SUFFICES ASSUME n + 1 <= Len(all) PROVE Len(Flat(all, n + 1)) = 2 * (n + 1)
    OBVIOUS
  <2>1. n <= Len(all) /\ n + 1 \in 1..Len(all) /\ (n + 1) - 1 = n
    BY <1>1
  <2>2. Len(Flat(all, n + 1)) = Len(Flat(all, (n + 1) - 1)) + Len(all[n + 1])
    BY <1>1, <2>1, FlatIs
  <2>3. Len(Flat(all, n)) = 2 * n /\ Len(all[n + 1]) = 2
    BY <1>1, <1>4, <2>1
  <2>. QED
    BY <2>1, <2>2, <2>3
<1>5. Nat \subseteq S
  <2>. HIDE DEF S
  <2>1. 1 \in Nat \ {0}
    OBVIOUS
  <2>. QED
    BY <1>3, <1>4, <2>1, Link!Induction
<1>6. \A n \in 0..Len(all) : Len(Flat(all, n)) = 2 * n
  BY <1>1, <1>5
<1>. HIDE DEF S
<1>7. Len(whole) = 2 * Len(all)
  <2>1. Len(all) \in 0..Len(all)
    BY <1>1
  <2>2. Flat(all, Len(all)) = whole
    BY <1>1, FlatIs
  <2>. QED
    BY <1>6, <2>1, <2>2
<1>8. ASSUME NEW i \in 1..Len(bands)
      PROVE  whole[2 * i - 1] = bands[i].frequency /\ whole[2 * i] = Unsigned(bands[i].gain)
  <2>1. i \in 1..Len(all) /\ i - 1 \in 0..Len(all)
    BY <1>1
  <2>2. Stands(all[i], whole, Len(Flat(all, i - 1)))
    BY <1>1, <2>1, PartStands
  <2>3. Len(Flat(all, i - 1)) = 2 * (i - 1) /\ Len(all[i]) = 2
    BY <1>1, <1>6, <2>1
  <2>4. \A j \in 1..2 : whole[2 * (i - 1) + j] = all[i][j]
    BY <2>2, <2>3 DEF Stands
  <2>5. whole[2 * (i - 1) + 1] = all[i][1] /\ whole[2 * (i - 1) + 2] = all[i][2]
    BY <2>4
  <2>6. 2 * (i - 1) + 1 = 2 * i - 1 /\ 2 * (i - 1) + 2 = 2 * i
    BY <1>1
  <2>. QED
    BY <1>1, <2>5, <2>6
<1>9. whole \in Seq(Nat)
  BY <1>2, ByteRange, SeqMonotonic
<1>. QED
  BY <1>1, <1>2, <1>7, <1>8, <1>9 DEF all

\* Where the bands of an entry stand, byte for byte.
LEMMA PairsStand ==
    ASSUME NEW bands \in Seq(Band), NEW bytes \in Seq(Nat), NEW at \in Nat
    PROVE  Stands(FlattenSeq(Pairs(bands)), bytes, at) <=>
              /\ at + 2 * Len(bands) <= Len(bytes)
              /\ \A i \in 1..Len(bands) :
                    /\ bytes[at + 2 * i - 1] = bands[i].frequency
                    /\ bytes[at + 2 * i] = Unsigned(bands[i].gain)
<1>. DEFINE whole == FlattenSeq(Pairs(bands))
<1>1. /\ Len(bands) \in Nat /\ Len(whole) = 2 * Len(bands)
      /\ \A i \in 1..Len(bands) :
            /\ whole[2 * i - 1] = bands[i].frequency /\ whole[2 * i] = Unsigned(bands[i].gain)
  BY PairsFlat
<1>. HIDE DEF whole
<1>2. Len(bytes) \in Nat
  BY LenProperties
<1>3. Stands(whole, bytes, at) <=>
        /\ at + 2 * Len(bands) <= Len(bytes)
        /\ \A j \in 1..(2 * Len(bands)) : bytes[at + j] = whole[j]
  BY <1>1 DEF Stands
<1>4. ASSUME \A j \in 1..(2 * Len(bands)) : bytes[at + j] = whole[j], NEW i \in 1..Len(bands)
      PROVE  /\ bytes[at + 2 * i - 1] = bands[i].frequency
             /\ bytes[at + 2 * i] = Unsigned(bands[i].gain)
  <2>1. 2 * i - 1 \in 1..(2 * Len(bands)) /\ 2 * i \in 1..(2 * Len(bands))
        /\ at + (2 * i - 1) = at + 2 * i - 1
    BY <1>1
  <2>2. bytes[at + (2 * i - 1)] = whole[2 * i - 1] /\ bytes[at + 2 * i] = whole[2 * i]
    BY <1>4, <2>1
  <2>. QED
    BY <1>1, <2>1, <2>2
<1>5. ASSUME NEW j \in 1..(2 * Len(bands)),
             \A i \in 1..Len(bands) :
                /\ bytes[at + 2 * i - 1] = bands[i].frequency
                /\ bytes[at + 2 * i] = Unsigned(bands[i].gain)
      PROVE  bytes[at + j] = whole[j]
  <2>1. PICK i \in 1..Len(bands) : j = 2 * i - 1 \/ j = 2 * i
    <3>1. (j + 1) \div 2 \in 1..Len(bands)
          /\ (j = 2 * ((j + 1) \div 2) - 1 \/ j = 2 * ((j + 1) \div 2))
      BY <1>1
    <3>. QED
      BY <3>1
  <2>2. at + 2 * i - 1 = at + (2 * i - 1)
    BY <1>1
  <2>. QED
    BY <1>1, <1>5, <2>1, <2>2
<1>6. Stands(whole, bytes, at) <=>
              /\ at + 2 * Len(bands) <= Len(bytes)
              /\ \A i \in 1..Len(bands) :
                    /\ bytes[at + 2 * i - 1] = bands[i].frequency
                    /\ bytes[at + 2 * i] = Unsigned(bands[i].gain)
  BY <1>3, <1>4, <1>5
<1>. QED
  BY <1>6 DEF whole

\* What an entry's fields are: five bytes, the name, the number of the bands, the bands.
FirstFive(entry, first) ==
    <<first, Unsigned(entry.min), Unsigned(entry.max), entry.id, Len(entry.name)>>

Small(entry) == Len(entry.name) < Full /\ Len(entry.bands) < Full

\* The parts of an entry.
LEMMA EntryIs ==
    ASSUME NEW entry \in Entry
    PROVE  /\ entry.id \in Byte /\ entry.name \in Seq(Byte) /\ entry.selected \in BOOLEAN
           /\ entry.min \in Gain /\ entry.max \in Gain /\ entry.bands \in Seq(Band)
           /\ entry.name \in Seq(Nat) /\ Len(entry.name) \in Nat /\ Len(entry.bands) \in Nat
           /\ Unsigned(entry.min) \in Byte /\ Unsigned(entry.max) \in Byte
           /\ Small(entry) => Len(entry.name) \in Byte /\ Len(entry.bands) \in Byte
<1>1. /\ entry.id \in Byte /\ entry.name \in Seq(Byte) /\ entry.selected \in BOOLEAN
      /\ entry.min \in Gain /\ entry.max \in Gain /\ entry.bands \in Seq(Band)
  BY DEF Entry
<1>2. entry.name \in Seq(Nat)
  BY <1>1, ByteRange, SeqMonotonic
<1>3. Len(entry.name) \in Nat /\ Len(entry.bands) \in Nat
  BY <1>1, LenProperties
<1>4. Unsigned(entry.min) \in Byte /\ Unsigned(entry.max) \in Byte
  BY <1>1, SignedBytes
<1>5. Small(entry) => Len(entry.name) \in Byte /\ Len(entry.bands) \in Byte
  BY <1>3, ByteRange DEF Small, Byte
<1>. QED
  BY <1>1, <1>2, <1>3, <1>4, <1>5

\* How long the fields of an entry are, and that they are bytes.
LEMMA FieldsAre ==
    ASSUME NEW entry \in Entry, NEW first \in Nat
    PROVE  /\ Fields(entry, first)
              = ((FirstFive(entry, first) \o entry.name) \o <<Len(entry.bands)>>)
                \o FlattenSeq(Pairs(entry.bands))
           /\ FirstFive(entry, first) \in Seq(Nat) /\ Len(FirstFive(entry, first)) = 5
           /\ <<Len(entry.bands)>> \in Seq(Nat) /\ Len(<<Len(entry.bands)>>) = 1
           /\ <<Len(entry.bands)>>[1] = Len(entry.bands)
           /\ Fields(entry, first) \in Seq(Nat)
           /\ Len(Fields(entry, first)) = 6 + Len(entry.name) + 2 * Len(entry.bands)
           /\ Small(entry) /\ first \in Byte => Fields(entry, first) \in Seq(Byte)
<1>. DEFINE a == FirstFive(entry, first)
            b == entry.name
            c == <<Len(entry.bands)>>
            d == FlattenSeq(Pairs(entry.bands))
<1>1. Fields(entry, first) = ((a \o b) \o c) \o d
  BY Zenon DEF Fields, FirstFive, Pairs
<1>2. /\ a \in Seq(Nat) /\ Len(a) = 5
      /\ Small(entry) /\ first \in Byte => a \in Seq(Byte)
  <2>1. \A u, v, w, x, y \in Nat : <<u, v, w, x, y>> \in Seq(Nat) /\ Len(<<u, v, w, x, y>>) = 5
    OBVIOUS
  <2>2. \A u, v, w, x, y \in Byte : <<u, v, w, x, y>> \in Seq(Byte)
    OBVIOUS
  <2>3. /\ Unsigned(entry.min) \in Nat /\ Unsigned(entry.max) \in Nat /\ entry.id \in Nat
        /\ Len(entry.name) \in Nat
    BY EntryIs, ByteRange
  <2>. QED
    BY <2>1, <2>2, <2>3, EntryIs DEF FirstFive
<1>3. /\ c \in Seq(Nat) /\ Len(c) = 1 /\ c[1] = Len(entry.bands)
      /\ Small(entry) => c \in Seq(Byte)
  BY EntryIs
<1>4. b \in Seq(Nat) /\ b \in Seq(Byte) /\ d \in Seq(Nat) /\ d \in Seq(Byte)
      /\ Len(d) = 2 * Len(entry.bands) /\ Len(b) \in Nat /\ Len(entry.bands) \in Nat
  BY EntryIs, PairsFlat
<1>. HIDE DEF a, b, c, d
<1>. DEFINE count == 2 * Len(entry.bands)
<1>5. count \in Nat /\ Len(d) = count
  BY <1>4
<1>. HIDE DEF count
<1>6. /\ ((a \o b) \o c) \o d \in Seq(Nat)
      /\ Len(((a \o b) \o c) \o d) = 6 + Len(b) + count
  <2>1. \A x, y \in Seq(Nat) : x \o y \in Seq(Nat) /\ Len(x \o y) = Len(x) + Len(y)
    BY ConcatProperties
  <2>2. a \o b \in Seq(Nat) /\ Len(a \o b) = Len(a) + Len(b)
    BY <1>2, <1>4, <2>1, Zenon
  <2>3. (a \o b) \o c \in Seq(Nat) /\ Len((a \o b) \o c) = Len(a \o b) + Len(c)
    BY <1>3, <2>1, <2>2, Zenon
  <2>4. /\ ((a \o b) \o c) \o d \in Seq(Nat)
        /\ Len(((a \o b) \o c) \o d) = Len((a \o b) \o c) + Len(d)
    BY <1>4, <2>1, <2>3, Zenon
  <2>. QED
    BY <1>2, <1>3, <1>4, <1>5, <2>2, <2>3, <2>4
<1>7. ASSUME Small(entry), first \in Byte PROVE ((a \o b) \o c) \o d \in Seq(Byte)
  <2>1. a \o b \in Seq(Byte)
    BY <1>2, <1>4, <1>7, ConcatProperties
  <2>2. (a \o b) \o c \in Seq(Byte)
    BY <1>3, <1>7, <2>1, ConcatProperties
  <2>. QED
    BY <1>4, <2>2, ConcatProperties
<1>8. /\ Fields(entry, first) \in Seq(Nat)
      /\ Len(Fields(entry, first)) = 6 + Len(b) + count
      /\ Small(entry) /\ first \in Byte => Fields(entry, first) \in Seq(Byte)
  BY <1>1, <1>6, <1>7
<1>. QED
  BY <1>1, <1>2, <1>3, <1>8 DEF a, b, c, d, count

\* Byte for byte.
Holds(bytes, at, entry, first) ==
    /\ at + (6 + Len(entry.name) + 2 * Len(entry.bands)) <= Len(bytes)
    /\ bytes[at + 1] = first
    /\ bytes[at + 2] = Unsigned(entry.min) /\ bytes[at + 3] = Unsigned(entry.max)
    /\ bytes[at + 4] = entry.id /\ bytes[at + 5] = Len(entry.name)
    /\ \A i \in 1..Len(entry.name) : bytes[(at + 5) + i] = entry.name[i]
    /\ bytes[at + (6 + Len(entry.name))] = Len(entry.bands)
    /\ \A i \in 1..Len(entry.bands) :
        /\ bytes[at + (6 + Len(entry.name)) + 2 * i - 1] = entry.bands[i].frequency
        /\ bytes[at + (6 + Len(entry.name)) + 2 * i] = Unsigned(entry.bands[i].gain)

\* Where the fields of an entry stand is where its bytes are held.
LEMMA FieldsStand ==
    ASSUME NEW entry \in Entry, NEW first \in Nat, NEW bytes \in Seq(Nat), NEW at \in Nat
    PROVE  Stands(Fields(entry, first), bytes, at) <=> Holds(bytes, at, entry, first)
<1>. DEFINE a == FirstFive(entry, first)
            b == entry.name
            c == <<Len(entry.bands)>>
            d == FlattenSeq(Pairs(entry.bands))
            nl == Len(entry.name)
            nb == Len(entry.bands)
<1>1. /\ Fields(entry, first) = ((a \o b) \o c) \o d
      /\ a \in Seq(Nat) /\ Len(a) = 5 /\ c \in Seq(Nat) /\ Len(c) = 1 /\ c[1] = nb
      /\ b \in Seq(Nat) /\ Len(b) = nl /\ nl \in Nat /\ nb \in Nat
      /\ entry.bands \in Seq(Band)
  BY FieldsAre, EntryIs
<1>2. d \in Seq(Nat)
  BY <1>1, PairsFlat
<1>3. /\ a[1] = first /\ a[2] = Unsigned(entry.min) /\ a[3] = Unsigned(entry.max)
      /\ a[4] = entry.id /\ a[5] = nl
  BY DEF FirstFive
<1>4. Len(bytes) \in Nat
  BY LenProperties
<1>5. Stands(d, bytes, at + (6 + nl)) <=>
              /\ at + (6 + nl) + 2 * nb <= Len(bytes)
              /\ \A i \in 1..nb :
                    /\ bytes[at + (6 + nl) + 2 * i - 1] = entry.bands[i].frequency
                    /\ bytes[at + (6 + nl) + 2 * i] = Unsigned(entry.bands[i].gain)
  <2>1. at + (6 + nl) \in Nat
    BY <1>1
  <2>. HIDE DEF nl
  <2>. QED
    BY <1>1, <2>1, PairsStand
<1>. HIDE DEF a, b, c, d
<1>6. Stands(((a \o b) \o c) \o d, bytes, at) <=>
        /\ Stands(a, bytes, at) /\ Stands(b, bytes, at + 5)
        /\ Stands(c, bytes, at + (5 + nl)) /\ Stands(d, bytes, at + (6 + nl))
  <2>1. /\ a \o b \in Seq(Nat) /\ Len(a \o b) = 5 + nl
        /\ (a \o b) \o c \in Seq(Nat) /\ Len((a \o b) \o c) = 6 + nl
    <3>1. \A x, y \in Seq(Nat) : x \o y \in Seq(Nat) /\ Len(x \o y) = Len(x) + Len(y)
      BY ConcatProperties
    <3>2. a \o b \in Seq(Nat) /\ Len(a \o b) = Len(a) + Len(b)
      BY <1>1, <3>1, Zenon
    <3>3. (a \o b) \o c \in Seq(Nat) /\ Len((a \o b) \o c) = Len(a \o b) + Len(c)
      BY <1>1, <3>1, <3>2, Zenon
    <3>. QED
      BY <1>1, <3>2, <3>3
  <2>2. Stands(a \o b, bytes, at) <=> Stands(a, bytes, at) /\ Stands(b, bytes, at + 5)
    BY <1>1, StandsInBoth
  <2>3. Stands((a \o b) \o c, bytes, at)
        <=> Stands(a \o b, bytes, at) /\ Stands(c, bytes, at + (5 + nl))
    BY <1>1, <2>1, StandsInBoth
  <2>4. Stands(((a \o b) \o c) \o d, bytes, at)
        <=> Stands((a \o b) \o c, bytes, at) /\ Stands(d, bytes, at + (6 + nl))
    BY <1>2, <2>1, StandsInBoth
  <2>. QED
    BY <2>2, <2>3, <2>4
<1>7. Stands(a, bytes, at) <=>
        /\ at + 5 <= Len(bytes)
        /\ bytes[at + 1] = first
        /\ bytes[at + 2] = Unsigned(entry.min) /\ bytes[at + 3] = Unsigned(entry.max)
        /\ bytes[at + 4] = entry.id /\ bytes[at + 5] = nl
  <2>1. Stands(a, bytes, at) <=> at + 5 <= Len(bytes) /\ \A i \in 1..5 : bytes[at + i] = a[i]
    BY <1>1 DEF Stands
  <2>2. (\A i \in 1..5 : bytes[at + i] = a[i]) <=>
           /\ bytes[at + 1] = a[1] /\ bytes[at + 2] = a[2] /\ bytes[at + 3] = a[3]
           /\ bytes[at + 4] = a[4] /\ bytes[at + 5] = a[5]
    <3>1. 1..5 = {1, 2, 3, 4, 5}
      OBVIOUS
    <3>. QED
      BY <3>1
  <2>. QED
    BY <1>3, <2>1, <2>2
<1>8. Stands(b, bytes, at + 5) <=>
        /\ (at + 5) + nl <= Len(bytes)
        /\ \A i \in 1..nl : bytes[(at + 5) + i] = b[i]
  BY <1>1 DEF Stands
<1>9. Stands(c, bytes, at + (5 + nl)) <=>
        /\ (at + (5 + nl)) + 1 <= Len(bytes)
        /\ bytes[(at + (5 + nl)) + 1] = nb
  BY <1>1 DEF Stands
<1>10. /\ (at + (5 + nl)) + 1 = at + (6 + nl)
       /\ at + (6 + nl) + 2 * nb = at + (6 + nl + 2 * nb)
       /\ at + (6 + nl + 2 * nb) <= Len(bytes) =>
            /\ at + 5 <= Len(bytes) /\ (at + 5) + nl <= Len(bytes)
            /\ at + (6 + nl) <= Len(bytes)
  <2>. DEFINE count == 2 * nb
  <2>1. count \in Nat
    BY <1>1
  <2>. HIDE DEF nl, nb, count
  <2>2. /\ (at + (5 + nl)) + 1 = at + (6 + nl)
        /\ at + (6 + nl) + count = at + (6 + nl + count)
        /\ at + (6 + nl + count) <= Len(bytes) =>
            /\ at + 5 <= Len(bytes) /\ (at + 5) + nl <= Len(bytes)
            /\ at + (6 + nl) <= Len(bytes)
    BY <1>1, <1>4, <2>1
  <2>. QED
    BY <2>2 DEF count
<1>11. Stands(Fields(entry, first), bytes, at) <=>
        /\ Stands(a, bytes, at) /\ Stands(b, bytes, at + 5)
        /\ Stands(c, bytes, at + (5 + nl)) /\ Stands(d, bytes, at + (6 + nl))
  BY <1>1, <1>6
<1>. DEFINE first5 == /\ bytes[at + 1] = first
                      /\ bytes[at + 2] = Unsigned(entry.min)
                      /\ bytes[at + 3] = Unsigned(entry.max)
                      /\ bytes[at + 4] = entry.id /\ bytes[at + 5] = nl
            named == \A i \in 1..nl : bytes[(at + 5) + i] = b[i]
            counted == bytes[at + (6 + nl)] = nb
            banded == \A i \in 1..nb :
                    /\ bytes[at + (6 + nl) + 2 * i - 1] = entry.bands[i].frequency
                    /\ bytes[at + (6 + nl) + 2 * i] = Unsigned(entry.bands[i].gain)
            fits == at + (6 + nl + 2 * nb) <= Len(bytes)
<1>12. Holds(bytes, at, entry, first) <=> fits /\ first5 /\ named /\ counted /\ banded
  BY Zenon DEF Holds, b
<1>13. /\ Stands(a, bytes, at) <=> at + 5 <= Len(bytes) /\ first5
       /\ Stands(b, bytes, at + 5) <=> (at + 5) + nl <= Len(bytes) /\ named
       /\ Stands(c, bytes, at + (5 + nl)) <=> at + (6 + nl) <= Len(bytes) /\ counted
       /\ Stands(d, bytes, at + (6 + nl)) <=> fits /\ banded
  <2>1. Stands(a, bytes, at) <=> at + 5 <= Len(bytes) /\ first5
    BY <1>7, Zenon
  <2>2. Stands(b, bytes, at + 5) <=> (at + 5) + nl <= Len(bytes) /\ named
    BY <1>8, Zenon
  <2>3. Stands(c, bytes, at + (5 + nl)) <=> at + (6 + nl) <= Len(bytes) /\ counted
    <3>1. (at + (5 + nl)) + 1 = at + (6 + nl)
      BY <1>10, Zenon
    <3>. QED
      BY <1>9, <3>1, Zenon
  <2>4. Stands(d, bytes, at + (6 + nl)) <=> fits /\ banded
    <3>1. at + (6 + nl) + 2 * nb = at + (6 + nl + 2 * nb)
      BY <1>10, Zenon
    <3>. QED
      BY <1>5, <3>1, Zenon
  <2>. QED
    BY <2>1, <2>2, <2>3, <2>4
<1>14. fits => at + 5 <= Len(bytes) /\ (at + 5) + nl <= Len(bytes)
               /\ at + (6 + nl) <= Len(bytes)
  BY <1>10, Zenon
<1>. HIDE DEF first5, named, counted, banded, fits
<1>. QED
  BY <1>11, <1>12, <1>13, <1>14, Zenon

------------------------------------------------------------------------------
(* What EntryAt reads.                                                     *)
NameAt(bytes, at) == SubSeq(bytes, at + 6, at + 5 + bytes[at + 5])

CountAt(bytes, at) == bytes[at + (6 + bytes[at + 5])]

BandsAt(bytes, at) ==
    [i \in 1..CountAt(bytes, at) |->
        [frequency |-> bytes[at + (6 + bytes[at + 5]) + 2 * i - 1],
         gain |-> Signed(bytes[at + (6 + bytes[at + 5]) + 2 * i])]]

ReadAt(bytes, at) ==
    [id |-> bytes[at + 4], name |-> NameAt(bytes, at), selected |-> bytes[at + 1] = 1,
     min |-> Signed(bytes[at + 2]), max |-> Signed(bytes[at + 3]), bands |-> BandsAt(bytes, at)]

\* When it reads it.
Readable(bytes, at) ==
    /\ at + 5 <= Len(bytes)
    /\ bytes[at + 1] \in {0, 1} /\ Signed(bytes[at + 2]) <= Signed(bytes[at + 3])
    /\ at + (6 + bytes[at + 5]) <= Len(bytes)
    /\ ~Contains(NameAt(bytes, at), Undecodable) /\ CountAt(bytes, at) # 0
    /\ at + (6 + bytes[at + 5]) + 2 * CountAt(bytes, at) <= Len(bytes)
    /\ ProperBands(BandsAt(bytes, at), Signed(bytes[at + 2]), Signed(bytes[at + 3]))

\* EntryAt is what it reads if all its checks pass, and Nothing otherwise.
LEMMA EntryAtIs ==
    ASSUME NEW bytes \in Seq(Byte), NEW at \in Nat
    PROVE  EntryAt(bytes, at) =
              IF Readable(bytes, at)
              THEN [entry |-> ReadAt(bytes, at),
                    next |-> at + (6 + bytes[at + 5]) + 2 * CountAt(bytes, at)]
              ELSE Nothing
<1>1. Len(bytes) \in Nat /\ Byte \subseteq Nat /\ Gain \subseteq Int
  BY LenProperties, ByteRange
<1>2. CASE at + 5 > Len(bytes)
  <2>1. ~(at + 5 <= Len(bytes))
    BY <1>1, <1>2
  <2>. QED
    BY <1>2, <2>1, Zenon DEF EntryAt, Readable
<1>3. CASE at + 5 <= Len(bytes)
  <2>1. ~(at + 5 > Len(bytes))
    BY <1>1, <1>3
  <2>2. /\ at + 0 + 1 = at + 1 /\ at + 1 + 1 = at + 2 /\ at + 2 + 1 = at + 3
        /\ at + 3 + 1 = at + 4 /\ at + 4 + 1 = at + 5
    OBVIOUS
  <2>. DEFINE nl == bytes[at + 5]
              x == Signed(bytes[at + 2])
              y == Signed(bytes[at + 3])
              count == CountAt(bytes, at)
  <2>3. nl \in Nat /\ x \in Int /\ y \in Int
    <3>1. at + 5 \in 1..Len(bytes) /\ at + 2 \in 1..Len(bytes) /\ at + 3 \in 1..Len(bytes)
      BY <1>1, <1>3
    <3>2. nl \in Byte /\ bytes[at + 2] \in Byte /\ bytes[at + 3] \in Byte
      BY <3>1, ElementOfSeq
    <3>3. x \in Gain /\ y \in Gain
      BY <3>2, SignedBytes
    <3>. QED
      BY <1>1, <3>2, <3>3
  <2>4. x > y <=> ~(x <= y)
    BY <2>3
  <2>5. /\ at + 5 + nl + 1 = at + (6 + nl) /\ at + (5 + nl) + 1 = at + (6 + nl)
        /\ at + 6 + nl = at + (6 + nl)
    <3>. HIDE DEF nl
    <3>. QED
      BY <2>3
  <2>6. at + (6 + nl) > Len(bytes) <=> ~(at + (6 + nl) <= Len(bytes))
    <3>. HIDE DEF nl
    <3>. QED
      BY <1>1, <2>3
  <2>7. EntryAt(bytes, at) =
          IF bytes[at + 1] \notin {0, 1} \/ x > y \/ at + (6 + nl) > Len(bytes) THEN Nothing
          ELSE IF Contains(NameAt(bytes, at), Undecodable) \/ count = 0
                  \/ at + (6 + nl) + 2 * count > Len(bytes)
          THEN Nothing
          ELSE IF ~ProperBands(BandsAt(bytes, at), x, y) THEN Nothing
          ELSE [entry |-> ReadAt(bytes, at), next |-> at + (6 + nl) + 2 * count]
    BY <2>1, <2>2, <2>5, Zenon DEF EntryAt, NameAt, CountAt, BandsAt, ReadAt
  <2>8. ASSUME at + (6 + nl) <= Len(bytes)
        PROVE  at + (6 + nl) + 2 * count > Len(bytes)
               <=> ~(at + (6 + nl) + 2 * count <= Len(bytes))
    <3>1. at + (6 + nl) \in 1..Len(bytes)
      <4>. HIDE DEF nl
      <4>. QED
        BY <1>1, <2>3, <2>8
    <3>2. count \in Byte
      BY <3>1, ElementOfSeq DEF CountAt
    <3>3. count \in Nat /\ at + (6 + nl) \in Nat
      <4>1. count \in Nat
        BY <1>1, <3>2
      <4>. HIDE DEF nl, count
      <4>. QED
        BY <2>3, <4>1
    <3>. HIDE DEF count, nl
    <3>. QED
      BY <1>1, <3>3
  <2>9. Readable(bytes, at) <=>
          /\ bytes[at + 1] \in {0, 1} /\ x <= y /\ at + (6 + nl) <= Len(bytes)
          /\ ~Contains(NameAt(bytes, at), Undecodable) /\ count # 0
          /\ at + (6 + nl) + 2 * count <= Len(bytes)
          /\ ProperBands(BandsAt(bytes, at), x, y)
    BY <1>3, Zenon DEF Readable
  <2>. DEFINE last == at + (6 + nl)
  <2>10. EntryAt(bytes, at) =
           IF Readable(bytes, at)
           THEN [entry |-> ReadAt(bytes, at), next |-> last + 2 * count] ELSE Nothing
    <3>1. CASE Readable(bytes, at)
      BY <2>4, <2>6, <2>7, <2>8, <2>9, <3>1, Zenon
    <3>2. CASE ~Readable(bytes, at)
      BY <2>4, <2>6, <2>7, <2>8, <2>9, <3>2, Zenon
    <3>. QED
      BY <3>1, <3>2, Zenon
  <2>. QED
    BY <2>10
<1>. QED
  BY <1>1, <1>2, <1>3

------------------------------------------------------------------------------
(* An entry is read as it was written.                                     *)

\* An entry as its own list keeps it.
Sound(entry) ==
    /\ Small(entry) /\ ~Contains(entry.name, Undecodable) /\ entry.bands # <<>>

Mark(entry) == IF entry.selected THEN 1 ELSE 0

\* The fields of an entry are read as that entry, or not at all.
LEMMA EntryReads ==
    ASSUME NEW bytes \in Seq(Byte), NEW at \in Nat, NEW entry \in Entry, Sound(entry),
           Stands(Fields(entry, Mark(entry)), bytes, at)
    PROVE  EntryAt(bytes, at) =
              IF ProperBands(entry.bands, entry.min, entry.max)
              THEN [entry |-> entry, next |-> at + Len(Fields(entry, Mark(entry)))]
              ELSE Nothing
<1>. DEFINE nl == Len(entry.name)
            nb == Len(entry.bands)
<1>1. /\ entry.id \in Byte /\ entry.name \in Seq(Byte) /\ entry.selected \in BOOLEAN
      /\ entry.min \in Gain /\ entry.max \in Gain /\ entry.bands \in Seq(Band)
      /\ entry.name \in Seq(Nat) /\ nl \in Nat /\ nb \in Nat /\ nb # 0
  BY EntryIs, EmptySeq DEF Sound
<1>2. Mark(entry) \in {0, 1} /\ Mark(entry) \in Nat /\ (Mark(entry) = 1 <=> entry.selected)
  BY <1>1 DEF Mark
<1>3. bytes \in Seq(Nat) /\ Len(bytes) \in Nat
  BY ByteRange, SeqMonotonic, LenProperties
<1>4. Holds(bytes, at, entry, Mark(entry))
  BY <1>2, <1>3, FieldsStand
<1>5. /\ at + (6 + nl + 2 * nb) <= Len(bytes)
      /\ bytes[at + 1] = Mark(entry)
      /\ bytes[at + 2] = Unsigned(entry.min) /\ bytes[at + 3] = Unsigned(entry.max)
      /\ bytes[at + 4] = entry.id /\ bytes[at + 5] = nl
      /\ \A i \in 1..nl : bytes[(at + 5) + i] = entry.name[i]
      /\ bytes[at + (6 + nl)] = nb
      /\ \A i \in 1..nb :
          /\ bytes[at + (6 + nl) + 2 * i - 1] = entry.bands[i].frequency
          /\ bytes[at + (6 + nl) + 2 * i] = Unsigned(entry.bands[i].gain)
  BY <1>4 DEF Holds
<1>6. Signed(bytes[at + 2]) = entry.min /\ Signed(bytes[at + 3]) = entry.max
  BY <1>1, <1>5, SignedBytes
<1>7. CountAt(bytes, at) = nb
  BY <1>5 DEF CountAt
<1>8. /\ at + (6 + nl) + 2 * nb = at + (6 + nl + 2 * nb)
      /\ at + (6 + nl) <= Len(bytes) /\ at + 5 <= Len(bytes) /\ at + 5 + nl <= Len(bytes)
  <2>. DEFINE count == 2 * nb
  <2>1. count \in Nat
    BY <1>1
  <2>3. at + (6 + nl + count) <= Len(bytes)
    BY <1>5, Zenon
  <2>. HIDE DEF nl, nb, count
  <2>2. /\ at + (6 + nl) + count = at + (6 + nl + count)
        /\ at + (6 + nl) <= Len(bytes) /\ at + 5 <= Len(bytes) /\ at + 5 + nl <= Len(bytes)
    BY <1>1, <1>3, <2>1, <2>3
  <2>. QED
    BY <2>2 DEF count
<1>9. NameAt(bytes, at) = entry.name
  <2>. DEFINE m == at + 6
              n == at + 5 + nl
              name == SubSeq(bytes, m, n)
  <2>1. m \in Int /\ n \in Int /\ n <= Len(bytes) /\ 1 <= m /\ n - m + 1 = nl
        /\ (m <= n <=> nl # 0) /\ \A i \in 1..nl : m + i - 1 = (at + 5) + i
    <3>. HIDE DEF nl
    <3>. QED
      BY <1>1, <1>3, <1>8
  <2>2. \A i \in m..n : bytes[i] \in Nat
    <3>. SUFFICES ASSUME NEW i \in m..n PROVE bytes[i] \in Nat
      OBVIOUS
    <3>. HIDE DEF m, n
    <3>1. i \in 1..Len(bytes)
      BY <1>3, <2>1
    <3>. QED
      BY <1>3, <3>1, ElementOfSeq
  <2>. HIDE DEF m, n
  <2>3. /\ name \in Seq(Nat) /\ Len(name) = (IF m <= n THEN n - m + 1 ELSE 0)
        /\ \A i \in 1..(n - m + 1) : name[i] = bytes[m + i - 1]
    BY <2>1, <2>2, SubSeqProperties
  <2>4. Len(name) = nl /\ \A i \in 1..nl : name[i] = bytes[(at + 5) + i]
    BY <1>1, <2>1, <2>3
  <2>. HIDE DEF name
  <2>7. \A i \in 1..Len(name) : name[i] = entry.name[i]
    BY <1>5, <2>4
  <2>5. name = entry.name
    BY <1>1, <2>3, <2>4, <2>7, SeqEqual
  <2>6. NameAt(bytes, at) = name
    BY <1>5 DEF NameAt, name, m, n
  <2>. QED
    BY <2>5, <2>6
<1>10. BandsAt(bytes, at) = entry.bands
  <2>1. BandsAt(bytes, at) = [i \in 1..nb |->
          [frequency |-> bytes[at + (6 + nl) + 2 * i - 1],
           gain |-> Signed(bytes[at + (6 + nl) + 2 * i])]]
    BY <1>5, <1>7, Zenon DEF BandsAt
  <2>2. ASSUME NEW i \in 1..nb
        PROVE  entry.bands[i] = [frequency |-> bytes[at + (6 + nl) + 2 * i - 1],
                                 gain |-> Signed(bytes[at + (6 + nl) + 2 * i])]
    <3>1. entry.bands[i] \in Band
      BY <1>1, ElementOfSeq
    <3>2. /\ entry.bands[i] = [frequency |-> entry.bands[i].frequency,
                               gain |-> entry.bands[i].gain]
          /\ entry.bands[i].gain \in Gain
      BY <3>1 DEF Band
    <3>3. Signed(Unsigned(entry.bands[i].gain)) = entry.bands[i].gain
      BY <3>2, SignedBytes
    <3>4. /\ bytes[at + (6 + nl) + 2 * i - 1] = entry.bands[i].frequency
          /\ bytes[at + (6 + nl) + 2 * i] = Unsigned(entry.bands[i].gain)
      BY <1>5
    <3>. QED
      BY <3>2, <3>3, <3>4, Zenon
  <2>3. entry.bands = [i \in 1..nb |-> entry.bands[i]]
    BY <1>1, LenProperties
  <2>. QED
    BY <2>1, <2>2, <2>3, Zenon
<1>11. ReadAt(bytes, at) = entry
  <2>1. ReadAt(bytes, at) =
          [id |-> entry.id, name |-> entry.name, selected |-> (Mark(entry) = 1),
           min |-> entry.min, max |-> entry.max, bands |-> entry.bands]
    BY <1>5, <1>6, <1>9, <1>10, Zenon DEF ReadAt
  <2>2. entry =
          [id |-> entry.id, name |-> entry.name, selected |-> entry.selected,
           min |-> entry.min, max |-> entry.max, bands |-> entry.bands]
    BY DEF Entry
  <2>3. (Mark(entry) = 1) = entry.selected
    BY <1>1, <1>2
  <2>. QED
    BY <2>1, <2>2, <2>3, Zenon
<1>12. at + Len(Fields(entry, Mark(entry))) = at + (6 + nl + 2 * nb)
  BY <1>2, FieldsAre
<1>13. ASSUME ProperBands(entry.bands, entry.min, entry.max) PROVE entry.min <= entry.max
  <2>1. 1 \in 1..nb /\ DOMAIN entry.bands = 1..nb
    BY <1>1, LenProperties
  <2>2. entry.bands[1] \in Band /\ entry.bands[1].gain \in entry.min..entry.max
    BY <1>1, <1>13, <2>1, ElementOfSeq DEF ProperBands
  <2>3. entry.bands[1].gain \in Int /\ entry.min \in Int /\ entry.max \in Int
    BY <1>1, <2>2, ByteRange DEF Band
  <2>. QED
    BY <2>2, <2>3
<1>14. Readable(bytes, at) <=> ProperBands(entry.bands, entry.min, entry.max)
  <2>1. Readable(bytes, at) <=>
          /\ entry.min <= entry.max
          /\ ProperBands(entry.bands, entry.min, entry.max)
    <3>1. ~Contains(NameAt(bytes, at), Undecodable) /\ CountAt(bytes, at) # 0
      BY <1>1, <1>7, <1>9 DEF Sound
    <3>2. at + (6 + bytes[at + 5]) <= Len(bytes)
      BY <1>5, <1>8, Zenon
    <3>3. at + (6 + bytes[at + 5]) + 2 * CountAt(bytes, at) <= Len(bytes)
      BY <1>5, <1>7, <1>8, Zenon
    <3>4. bytes[at + 1] \in {0, 1} /\ at + 5 <= Len(bytes)
      BY <1>2, <1>5, <1>8, Zenon
    <3>. QED
      BY <1>6, <1>10, <3>1, <3>2, <3>3, <3>4, Zenon DEF Readable
  <2>. QED
    BY <1>13, <2>1
<1>15. at + (6 + bytes[at + 5]) + 2 * CountAt(bytes, at)
       = at + Len(Fields(entry, Mark(entry)))
  BY <1>5, <1>7, <1>8, <1>12, Zenon
<1>. QED
  BY <1>11, <1>14, <1>15, EntryAtIs, Zenon

\* What is read as an entry is that entry's fields.
LEMMA EntryMeans ==
    ASSUME NEW bytes \in Seq(Byte), NEW at \in Nat, EntryAt(bytes, at) # Nothing
    PROVE  LET here == EntryAt(bytes, at) IN
           /\ here.entry \in Entry /\ Sound(here.entry)
           /\ ProperBands(here.entry.bands, here.entry.min, here.entry.max)
           /\ here.next = at + Len(Fields(here.entry, Mark(here.entry)))
           /\ Stands(Fields(here.entry, Mark(here.entry)), bytes, at)
<1>. DEFINE entry == ReadAt(bytes, at)
            nl == bytes[at + 5]
            nb == CountAt(bytes, at)
<1>1. /\ Readable(bytes, at)
      /\ EntryAt(bytes, at).entry = entry
      /\ EntryAt(bytes, at).next = at + (6 + nl) + 2 * nb
  <2>1. Readable(bytes, at)
    BY EntryAtIs
  <2>2. EntryAt(bytes, at) = [entry |-> entry, next |-> at + (6 + nl) + 2 * nb]
    BY <2>1, EntryAtIs, Zenon
  <2>. HIDE DEF entry, nl, nb
  <2>. QED
    BY <2>1, <2>2
<1>2. /\ at + 5 <= Len(bytes) /\ at + (6 + nl) <= Len(bytes)
      /\ at + (6 + nl) + 2 * nb <= Len(bytes)
      /\ bytes[at + 1] \in {0, 1} /\ nb # 0
      /\ ~Contains(NameAt(bytes, at), Undecodable)
      /\ ProperBands(BandsAt(bytes, at), Signed(bytes[at + 2]), Signed(bytes[at + 3]))
  BY <1>1, Zenon DEF Readable
<1>3. /\ Len(bytes) \in Nat /\ bytes \in Seq(Nat) /\ Byte \subseteq Nat
      /\ \A i \in 1..Len(bytes) : bytes[i] \in Byte
      /\ Full \in Nat /\ \A b \in Byte : b < Full
  <2>1. Len(bytes) \in Nat /\ bytes \in Seq(Nat) /\ Byte \subseteq Nat /\ Full \in Nat
    BY LenProperties, ByteRange, SeqMonotonic
  <2>2. \A b \in Byte : b < Full
    BY <2>1 DEF Byte
  <2>. QED
    BY <2>1, <2>2, ElementOfSeq
<1>4. nl \in Byte /\ nl \in Nat
  <2>1. at + 5 \in 1..Len(bytes)
    BY <1>2, <1>3
  <2>. QED
    BY <1>3, <2>1
<1>5. nb \in Byte /\ nb \in Nat /\ at + (6 + nl) \in Nat
  <2>1. at + (6 + nl) \in 1..Len(bytes) /\ at + (6 + nl) \in Nat
    <3>. HIDE DEF nl
    <3>. QED
      BY <1>2, <1>3, <1>4
  <2>. QED
    BY <1>3, <2>1 DEF CountAt
<1>6. /\ NameAt(bytes, at) \in Seq(Byte) /\ Len(NameAt(bytes, at)) = nl
      /\ \A i \in 1..nl : bytes[(at + 5) + i] = NameAt(bytes, at)[i]
  <2>. DEFINE m == at + 6
              n == at + 5 + nl
              name == SubSeq(bytes, m, n)
  <2>1. m \in Int /\ n \in Int /\ n <= Len(bytes) /\ 1 <= m /\ n - m + 1 = nl
        /\ (m <= n <=> nl # 0) /\ \A i \in 1..nl : m + i - 1 = (at + 5) + i
    <3>1. /\ at + (6 + nl) <= Len(bytes) /\ Len(bytes) \in Nat /\ nl \in Nat
      BY <1>2, <1>3, <1>4
    <3>. HIDE DEF nl
    <3>. QED
      BY <3>1
  <2>2. \A i \in m..n : bytes[i] \in Byte
    <3>. SUFFICES ASSUME NEW i \in m..n PROVE bytes[i] \in Byte
      OBVIOUS
    <3>. HIDE DEF m, n
    <3>1. i \in 1..Len(bytes)
      BY <1>3, <2>1
    <3>. QED
      BY <1>3, <3>1
  <2>. HIDE DEF m, n
  <2>3. /\ name \in Seq(Byte) /\ Len(name) = (IF m <= n THEN n - m + 1 ELSE 0)
        /\ \A i \in 1..(n - m + 1) : name[i] = bytes[m + i - 1]
    BY <2>1, <2>2, SubSeqProperties
  <2>. HIDE DEF name, nl
  <2>4. Len(name) = nl /\ \A i \in 1..nl : name[i] = bytes[(at + 5) + i]
    BY <1>4, <2>1, <2>3
  <2>5. NameAt(bytes, at) = name
    BY Zenon DEF NameAt, name, m, n, nl
  <2>. QED
    BY <2>3, <2>4, <2>5
<1>7. /\ BandsAt(bytes, at) \in Seq(Band) /\ Len(BandsAt(bytes, at)) = nb
      /\ \A i \in 1..nb :
          /\ bytes[at + (6 + nl) + 2 * i - 1] = BandsAt(bytes, at)[i].frequency
          /\ bytes[at + (6 + nl) + 2 * i] = Unsigned(BandsAt(bytes, at)[i].gain)
  <2>. DEFINE band(i) == [frequency |-> bytes[at + (6 + nl) + 2 * i - 1],
                          gain |-> Signed(bytes[at + (6 + nl) + 2 * i])]
  <2>1. BandsAt(bytes, at) = [i \in 1..nb |-> band(i)]
    BY Zenon DEF BandsAt
  <2>2. ASSUME NEW i \in 1..nb
        PROVE  /\ band(i) \in Band /\ band(i).frequency = bytes[at + (6 + nl) + 2 * i - 1]
               /\ Unsigned(band(i).gain) = bytes[at + (6 + nl) + 2 * i]
    <3>1. /\ at + (6 + nl) + 2 * i - 1 \in 1..Len(bytes)
          /\ at + (6 + nl) + 2 * i \in 1..Len(bytes)
      <4>. DEFINE last == at + (6 + nl)
      <4>1. last \in Nat /\ last + 2 * nb <= Len(bytes)
        BY <1>2, <1>5, Zenon
      <4>. HIDE DEF last, nb
      <4>2. last + 2 * i - 1 \in 1..Len(bytes) /\ last + 2 * i \in 1..Len(bytes)
        BY <1>3, <1>5, <4>1
      <4>. QED
        BY <4>2, Zenon DEF last
    <3>. DEFINE x == bytes[at + (6 + nl) + 2 * i - 1]
                y == bytes[at + (6 + nl) + 2 * i]
    <3>2. x \in Byte /\ y \in Byte
      BY <1>3, <3>1, Zenon
    <3>. HIDE DEF x, y
    <3>3. Signed(y) \in Gain /\ Unsigned(Signed(y)) = y
      BY <3>2, SignedBytes
    <3>. DEFINE this == [frequency |-> x, gain |-> Signed(y)]
    <3>4. this \in Band /\ this.frequency = x /\ this.gain = Signed(y)
      BY <3>2, <3>3 DEF Band
    <3>5. band(i) = this
      BY Zenon DEF x, y
    <3>. HIDE DEF band, this
    <3>6. band(i) \in Band /\ band(i).frequency = x /\ Unsigned(band(i).gain) = y
      BY <3>3, <3>4, <3>5
    <3>. QED
      BY <3>6 DEF x, y
  <2>. HIDE DEF band, nb
  <2>3. [i \in 1..nb |-> band(i)] \in [1..nb -> Band]
    BY <2>2
  <2>4. [i \in 1..nb |-> band(i)] \in Seq(Band) /\ Len([i \in 1..nb |-> band(i)]) = nb
    BY <1>5, <2>3, SeqDef, LenProperties
  <2>5. \A i \in 1..nb : BandsAt(bytes, at)[i] = band(i)
    BY <2>1
  <2>. QED
    BY <2>1, <2>2, <2>4, <2>5
<1>8. /\ entry.id = bytes[at + 4] /\ entry.name = NameAt(bytes, at)
      /\ entry.selected = (bytes[at + 1] = 1)
      /\ entry.min = Signed(bytes[at + 2]) /\ entry.max = Signed(bytes[at + 3])
      /\ entry.bands = BandsAt(bytes, at)
  BY DEF ReadAt
<1>9. /\ bytes[at + 2] \in Byte /\ bytes[at + 3] \in Byte /\ bytes[at + 4] \in Byte
  <2>2. at + 5 <= Len(bytes) /\ Len(bytes) \in Nat
    BY <1>2, <1>3, Zenon
  <2>1. at + 2 \in 1..Len(bytes) /\ at + 3 \in 1..Len(bytes) /\ at + 4 \in 1..Len(bytes)
    BY <2>2
  <2>. QED
    BY <1>3, <2>1
<1>10. /\ Signed(bytes[at + 2]) \in Gain /\ Unsigned(Signed(bytes[at + 2])) = bytes[at + 2]
       /\ Signed(bytes[at + 3]) \in Gain /\ Unsigned(Signed(bytes[at + 3])) = bytes[at + 3]
  BY <1>9, SignedBytes
<1>11. entry \in Entry
  BY <1>6, <1>7, <1>9, <1>10 DEF Entry, ReadAt
<1>. HIDE DEF entry
<1>12. Sound(entry)
  <2>1. entry.bands # <<>>
    BY <1>2, <1>7, <1>8, EmptySeq
  <2>2. Small(entry)
    BY <1>3, <1>4, <1>5, <1>6, <1>7, <1>8 DEF Small
  <2>. QED
    BY <1>2, <1>8, <2>1, <2>2 DEF Sound
<1>13. ProperBands(entry.bands, entry.min, entry.max)
  BY <1>2, <1>8, Zenon
<1>14. Mark(entry) = bytes[at + 1] /\ Mark(entry) \in Nat
  BY <1>2, <1>8 DEF Mark
<1>15. at + (6 + nl) + 2 * nb = at + (6 + nl + 2 * nb)
  <2>. DEFINE count == 2 * nb
  <2>1. count \in Nat
    BY <1>5
  <2>. HIDE DEF nl, count
  <2>2. at + (6 + nl) + count = at + (6 + nl + count)
    BY <1>4, <2>1
  <2>. QED
    BY <2>2 DEF count
<1>16. Len(entry.name) = nl /\ Len(entry.bands) = nb
  BY <1>6, <1>7, <1>8, Zenon
<1>17. Holds(bytes, at, entry, Mark(entry))
  <2>1. at + (6 + Len(entry.name) + 2 * Len(entry.bands)) <= Len(bytes)
    BY <1>2, <1>15, <1>16, Zenon
  <2>2. /\ bytes[at + 2] = Unsigned(entry.min) /\ bytes[at + 3] = Unsigned(entry.max)
        /\ bytes[at + 4] = entry.id /\ bytes[at + 5] = Len(entry.name)
    BY <1>8, <1>10, <1>16, Zenon
  <2>3. \A i \in 1..Len(entry.name) : bytes[(at + 5) + i] = entry.name[i]
    BY <1>6, <1>8, <1>16, Zenon
  <2>4. bytes[at + (6 + Len(entry.name))] = Len(entry.bands)
    BY <1>16, Zenon DEF CountAt
  <2>5. \A i \in 1..Len(entry.bands) :
          /\ bytes[at + (6 + Len(entry.name)) + 2 * i - 1] = entry.bands[i].frequency
          /\ bytes[at + (6 + Len(entry.name)) + 2 * i] = Unsigned(entry.bands[i].gain)
    BY <1>7, <1>8, <1>16, Zenon
  <2>. QED
    BY <1>14, <2>1, <2>2, <2>3, <2>4, <2>5, Zenon DEF Holds
<1>18. Stands(Fields(entry, Mark(entry)), bytes, at)
  BY <1>3, <1>11, <1>14, <1>17, FieldsStand
<1>19. EntryAt(bytes, at).next = at + Len(Fields(entry, Mark(entry)))
  <2>1. Len(Fields(entry, Mark(entry))) = 6 + Len(entry.name) + 2 * Len(entry.bands)
    BY <1>11, <1>14, FieldsAre
  <2>. QED
    BY <1>1, <1>15, <1>16, <2>1, Zenon
<1>. QED
  BY <1>1, <1>11, <1>12, <1>13, <1>18, <1>19, Zenon

------------------------------------------------------------------------------
(* The loop of parse_eq_entries.                                           *)

Progress == [list : Seq(Entry), offset : Nat]

\* One round of the loop.
ReadOn(bytes, before) ==
    IF before = Nothing THEN Nothing
    ELSE LET here == EntryAt(bytes, before.offset) IN
         IF here = Nothing THEN Nothing
         ELSE [list |-> Append(before.list, here.entry), offset |-> here.next]

\* A round reads one entry more, or nothing any more.
LEMMA ReadOnIs ==
    ASSUME NEW bytes \in Seq(Byte), NEW list \in Seq(Entry), NEW offset \in Nat
    PROVE  LET here == EntryAt(bytes, offset)
               next == ReadOn(bytes, [list |-> list, offset |-> offset]) IN
           /\ here = Nothing => next = Nothing
           /\ here # Nothing =>
                /\ next = [list |-> Append(list, here.entry), offset |-> here.next]
                /\ next \in Progress /\ next # Nothing
<1>. DEFINE here == EntryAt(bytes, offset)
            before == [list |-> list, offset |-> offset]
<1>1. before # Nothing /\ before.list = list /\ before.offset = offset
  BY CatalogueAssumption
<1>. HIDE DEF before
<1>2. CASE here = Nothing
  BY <1>1, <1>2, Zenon DEF ReadOn, before
<1>3. CASE here # Nothing
  <2>1. /\ here.entry \in Entry /\ here.next = offset + Len(Fields(here.entry, Mark(here.entry)))
    BY <1>3, EntryMeans
  <2>. DEFINE next == [list |-> Append(list, here.entry), offset |-> here.next]
  <2>2. here.next \in Nat
    <3>1. Mark(here.entry) \in Nat
      BY DEF Mark
    <3>. HIDE DEF here
    <3>2. Fields(here.entry, Mark(here.entry)) \in Seq(Nat)
      BY <2>1, <3>1, FieldsAre
    <3>3. Len(Fields(here.entry, Mark(here.entry))) \in Nat
      BY <3>2, LenProperties
    <3>. QED
      BY <2>1, <3>3
  <2>. HIDE DEF here
  <2>3. Append(list, here.entry) \in Seq(Entry)
    BY <2>1, AppendProperties
  <2>4. next \in Progress
    BY <2>2, <2>3 DEF Progress
  <2>5. next # Nothing
    BY <2>4, CatalogueAssumption DEF Progress
  <2>6. ReadOn(bytes, before) = next
    BY <1>1, <1>3, Zenon DEF ReadOn, here
  <2>. QED
    BY <1>3, <2>4, <2>5, <2>6, Zenon DEF before, here, next
<1>. QED
  BY <1>2, <1>3

LEMMA ReadOnStays ==
    ASSUME NEW bytes \in Seq(Byte), NEW before \in Progress \cup {Nothing}
    PROVE  ReadOn(bytes, before) \in Progress \cup {Nothing}
<1>1. CASE before = Nothing
  BY <1>1 DEF ReadOn
<1>2. CASE before \in Progress
  <2>1. /\ before = [list |-> before.list, offset |-> before.offset]
        /\ before.list \in Seq(Entry) /\ before.offset \in Nat
    BY <1>2 DEF Progress
  <2>2. ReadOn(bytes, [list |-> before.list, offset |-> before.offset])
        \in Progress \cup {Nothing}
    BY <2>1, ReadOnIs
  <2>. QED
    BY <2>1, <2>2, Zenon
<1>. QED
  BY <1>1, <1>2

\* The recursion has a solution, and Reading is one.
LEMMA ReadingIs ==
    ASSUME NEW bytes \in Seq(Byte)
    PROVE  /\ Reading(bytes)[0] = [list |-> <<>>, offset |-> 2]
           /\ \A k \in Nat :
                /\ Reading(bytes)[k] \in Progress \cup {Nothing}
                /\ Reading(bytes)[k + 1] = ReadOn(bytes, Reading(bytes)[k])
<1>. DEFINE first == [list |-> <<>>, offset |-> 2]
            At(f, k) == IF k = 0 THEN first ELSE ReadOn(bytes, f[k - 1])
            Defined(f) == [k \in Nat |-> At(f, k)]
            size == [k \in Nat |-> k]
            D == Nat
            V == Progress \cup {Nothing}
            body == [f \in [D -> V] |-> Defined(f)]
            read == Reading(bytes)
<1>1. first \in V
  BY EmptySeq DEF Progress
<1>. HIDE DEF first
<1>2. \A f \in [Nat -> V], k \in Nat : At(f, k) \in V
  <2>. SUFFICES ASSUME NEW f \in [Nat -> V], NEW k \in Nat PROVE At(f, k) \in V
    OBVIOUS
  <2>1. CASE k = 0
    BY <1>1, <2>1
  <2>2. CASE k # 0
    <3>1. k - 1 \in Nat
      BY <2>2
    <3>2. f[k - 1] \in V
      BY <3>1
    <3>3. ReadOn(bytes, f[k - 1]) \in V
      BY <3>2, ReadOnStays
    <3>. QED
      BY <2>2, <3>3
  <2>. QED
    BY <2>1, <2>2
<1>3. \E f \in [D -> V] : f = Defined(f)
  <2>1. body \in [[D -> V] -> [D -> V]]
    <3>1. ASSUME NEW f \in [D -> V] PROVE Defined(f) \in [D -> V]
      <4>. HIDE DEF At, V
      <4>. QED
        BY <1>2
    <3>. QED
      BY <3>1
  <2>2. \A f, g \in [D -> V], x \in D :
          (\A y \in D : size[y] < size[x] => f[y] = g[y]) => body[f][x] = body[g][x]
    <3>. SUFFICES ASSUME NEW f \in [D -> V], NEW g \in [D -> V], NEW x \in D,
                         \A y \in D : size[y] < size[x] => f[y] = g[y]
                  PROVE  body[f][x] = body[g][x]
      OBVIOUS
    <3>4. body[f][x] = At(f, x) /\ body[g][x] = At(g, x)
      OBVIOUS
    <3>5. SUFFICES At(f, x) = At(g, x)
      BY <3>4, Zenon
    <3>1. \A y \in Nat : y < x => f[y] = g[y]
      OBVIOUS
    <3>. HIDE DEF V
    <3>2. CASE x = 0
      BY <3>2
    <3>3. CASE x # 0
      <4>1. x - 1 \in Nat /\ x - 1 < x
        BY <3>3
      <4>2. f[x - 1] = g[x - 1]
        BY <3>1, <4>1
      <4>. QED
        BY <3>3, <4>2
    <3>. QED
      BY <3>2, <3>3
  <2>3. size \in [D -> Nat] /\ V # {} /\ 1 \in Nat \ {0}
    OBVIOUS
  <2>4. \A f \in [D -> V] : body[f] = Defined(f)
    BY Zenon
  <2>. HIDE DEF size, body, Defined, D, V
  <2>5. Link!AsksForSmaller(D, V, size, body)
    BY <2>1, <2>2, <2>3 DEF Link!AsksForSmaller
  <2>6. \E f \in [D -> V] : f = body[f]
    BY <2>3, <2>5, Link!Recursion
  <2>. QED
    BY <2>4, <2>6
<1>4. read = CHOOSE f : f = Defined(f)
  BY Zenon DEF Reading, ReadOn, first
<1>5. read = Defined(read) /\ read \in [D -> V]
  <2>. HIDE DEF Defined, D, V, read
  <2>1. read = Defined(read)
    BY <1>3, <1>4, Zenon
  <2>2. \A k \in Nat : read[k] \in V
    <3>. DEFINE S == {k \in Nat : read[k] \in V}
    <3>1. \A k \in Nat : read[k] = At(read, k)
      BY <2>1 DEF Defined
    <3>2. 0 \in S
      BY <1>1, <3>1
    <3>3. ASSUME NEW k \in Nat, k \in S PROVE k + 1 \in S
      <4>1. k + 1 \in Nat /\ k + 1 # 0 /\ (k + 1) - 1 = k
        OBVIOUS
      <4>2. read[k + 1] = ReadOn(bytes, read[k])
        BY <3>1, <4>1
      <4>3. ReadOn(bytes, read[k]) \in V
        BY <3>3, ReadOnStays DEF V
      <4>. QED
        BY <4>1, <4>2, <4>3
    <3>4. 1 \in Nat \ {0}
      OBVIOUS
    <3>. HIDE DEF S
    <3>5. Nat \subseteq S
      BY <3>2, <3>3, <3>4, Link!Induction
    <3>. QED
      BY <3>5 DEF S
  <2>. HIDE DEF At
  <2>3. Defined(read) \in [D -> V]
    <3>1. \A k \in Nat : At(read, k) \in V
      BY <2>1, <2>2 DEF Defined
    <3>. QED
      BY <3>1 DEF Defined, D
  <2>. QED
    BY <2>1, <2>3
<1>6. read[0] = first
  <2>. HIDE DEF read
  <2>. QED
    BY <1>5
<1>7. ASSUME NEW k \in Nat PROVE read[k] \in V /\ read[k + 1] = ReadOn(bytes, read[k])
  <2>1. k + 1 \in Nat /\ k + 1 # 0 /\ (k + 1) - 1 = k
    OBVIOUS
  <2>. HIDE DEF read
  <2>2. read[k] \in V
    BY <1>5
  <2>3. read[k + 1] = At(read, k + 1)
    BY <1>5, <2>1
  <2>. QED
    BY <2>1, <2>2, <2>3
<1>. QED
  BY <1>6, <1>7 DEF first

------------------------------------------------------------------------------
(* The payload of a list.                                                  *)

Rows(list) == [i \in DOMAIN list |-> Fields(list[i], IF list[i].selected THEN 1 ELSE 0)]

AllSound(list) == Len(list) < Full /\ \A i \in 1..Len(list) : Sound(list[i])

AllProper(list) ==
    \A i \in 1..Len(list) : ProperBands(list[i].bands, list[i].min, list[i].max)

Different(list) == \A i, j \in DOMAIN list : list[i].id = list[j].id => i = j

\* The fields of every entry.
LEMMA RowsAre ==
    ASSUME NEW list \in Seq(Entry)
    PROVE  /\ Len(list) \in Nat /\ DOMAIN list = 1..Len(list)
           /\ Rows(list) \in Seq(Seq(Nat)) /\ Len(Rows(list)) = Len(list)
           /\ \A i \in 1..Len(list) :
                /\ list[i] \in Entry /\ Rows(list)[i] = Fields(list[i], Mark(list[i]))
                /\ Rows(list)[i] \in Seq(Nat)
           /\ AllSound(list) => Rows(list) \in Seq(Seq(Byte))
           /\ Payload(list) = <<0, Len(list)>> \o FlattenSeq(Rows(list))
<1>1. Len(list) \in Nat /\ DOMAIN list = 1..Len(list)
  BY LenProperties
<1>2. \A i \in 1..Len(list) : list[i] \in Entry
  BY ElementOfSeq
<1>3. ASSUME NEW i \in 1..Len(list)
      PROVE  /\ Rows(list)[i] = Fields(list[i], Mark(list[i])) /\ Rows(list)[i] \in Seq(Nat)
             /\ AllSound(list) => Rows(list)[i] \in Seq(Byte)
  <2>1. Rows(list)[i] = Fields(list[i], Mark(list[i]))
    BY <1>1 DEF Rows, Mark
  <2>2. Mark(list[i]) \in Nat /\ Mark(list[i]) \in Byte
    BY ByteRange DEF Mark
  <2>3. /\ Fields(list[i], Mark(list[i])) \in Seq(Nat)
        /\ Small(list[i]) => Fields(list[i], Mark(list[i])) \in Seq(Byte)
    BY <1>2, <2>2, FieldsAre
  <2>4. AllSound(list) => Small(list[i])
    BY DEF AllSound, Sound
  <2>. QED
    BY <2>1, <2>3, <2>4
<1>4. Rows(list) \in [1..Len(list) -> Seq(Nat)]
  <2>1. Rows(list) = [i \in 1..Len(list) |-> Rows(list)[i]]
    BY <1>1 DEF Rows
  <2>. QED
    BY <1>3, <2>1
<1>5. AllSound(list) => Rows(list) \in [1..Len(list) -> Seq(Byte)]
  <2>1. Rows(list) = [i \in 1..Len(list) |-> Rows(list)[i]]
    BY <1>1 DEF Rows
  <2>. QED
    BY <1>3, <2>1
<1>6. Rows(list) \in Seq(Seq(Nat)) /\ Len(Rows(list)) = Len(list)
  BY <1>1, <1>4, SeqDef, LenProperties
<1>7. AllSound(list) => Rows(list) \in Seq(Seq(Byte))
  BY <1>1, <1>5, SeqDef
<1>8. Payload(list) = <<0, Len(list)>> \o FlattenSeq(Rows(list))
  BY Zenon DEF Payload, Rows
<1>. QED
  BY <1>1, <1>2, <1>3, <1>6, <1>7, <1>8

\* Two bytes, and behind them the fields of every entry.
LEMMA PayloadIs ==
    ASSUME NEW list \in Seq(Entry)
    PROVE  /\ Payload(list) \in Seq(Nat) /\ Payload(list)[1] = 0 /\ Payload(list)[2] = Len(list)
           /\ FlattenSeq(Rows(list)) \in Seq(Nat) /\ Len(FlattenSeq(Rows(list))) \in Nat
           /\ Len(Payload(list)) = 2 + Len(FlattenSeq(Rows(list)))
           /\ Stands(FlattenSeq(Rows(list)), Payload(list), 2)
           /\ AllSound(list) => Payload(list) \in Seq(Byte)
<1>. DEFINE head == <<0, Len(list)>>
            flat == FlattenSeq(Rows(list))
<1>1. /\ Len(list) \in Nat /\ Rows(list) \in Seq(Seq(Nat)) /\ Payload(list) = head \o flat
      /\ AllSound(list) => Rows(list) \in Seq(Seq(Byte))
  BY RowsAre
<1>2. /\ head \in Seq(Nat) /\ Len(head) = 2 /\ head[1] = 0 /\ head[2] = Len(list)
      /\ AllSound(list) => head \in Seq(Byte)
  <2>1. AllSound(list) => Len(list) \in Byte
    BY <1>1, ByteRange DEF AllSound, Byte
  <2>. QED
    BY <1>1, <2>1, ByteRange
<1>3. \A S : Rows(list) \in Seq(Seq(S)) => flat \in Seq(S)
  <2>. SUFFICES ASSUME NEW S, Rows(list) \in Seq(Seq(S)) PROVE flat \in Seq(S)
    OBVIOUS
  <2>1. Len(Rows(list)) \in 0..Len(Rows(list))
    BY <1>1, LenProperties
  <2>2. FlattenSeq(SubSeq(Rows(list), 1, Len(Rows(list)))) \in Seq(S)
    BY <2>1, FlattenGrows
  <2>. QED
    BY <2>2, SubSeqFull
<1>4. flat \in Seq(Nat) /\ (AllSound(list) => flat \in Seq(Byte))
  BY <1>1, <1>3
<1>. HIDE DEF head, flat
<1>5. AllSound(list) => head \o flat \in Seq(Byte)
  BY <1>2, <1>4, ConcatProperties
<1>6. /\ head \o flat \in Seq(Nat) /\ Len(head \o flat) = Len(head) + Len(flat)
      /\ \A i \in 1..(Len(head) + Len(flat)) :
            (head \o flat)[i] = IF i <= Len(head) THEN head[i] ELSE flat[i - Len(head)]
  BY <1>2, <1>4, ConcatProperties
<1>7. Len(flat) \in Nat
  BY <1>4, LenProperties
<1>8. (head \o flat)[1] = 0 /\ (head \o flat)[2] = Len(list)
  BY <1>2, <1>6, <1>7
<1>9. Stands(flat, head \o flat, 2)
  <2>1. Stands(head \o flat, head \o flat, 0)
    BY <1>6, StandsAlone
  <2>2. Stands(flat, head \o flat, 0 + Len(head))
    BY <1>2, <1>4, <1>6, <2>1, StandsInBoth
  <2>3. 0 + Len(head) = 2
    BY <1>2
  <2>. QED
    BY <2>2, <2>3, Zenon
<1>10. Len(head \o flat) = 2 + Len(flat)
  BY <1>2, <1>6
<1>. QED
  BY <1>1, <1>4, <1>5, <1>6, <1>7, <1>8, <1>9, <1>10, Zenon DEF flat

\* Where the loop is after k rounds over the payload of a list.
LEMMA PayloadReads ==
    ASSUME NEW list \in Seq(Entry), AllSound(list), AllProper(list)
    PROVE  \A k \in 0..Len(list) :
              Reading(Payload(list))[k]
              = [list |-> SubSeq(list, 1, k), offset |-> 2 + Len(Flat(Rows(list), k))]
<1>. DEFINE bytes == Payload(list)
            rows == Rows(list)
            there(k) == [list |-> SubSeq(list, 1, k), offset |-> 2 + Len(Flat(rows, k))]
            S == {k \in Nat : k <= Len(list) => Reading(bytes)[k] = there(k)}
<1>1. /\ bytes \in Seq(Byte) /\ bytes \in Seq(Nat)
      /\ FlattenSeq(rows) \in Seq(Nat) /\ Stands(FlattenSeq(rows), bytes, 2)
  BY PayloadIs
<1>2. /\ Len(list) \in Nat /\ rows \in Seq(Seq(Nat)) /\ Len(rows) = Len(list)
      /\ \A i \in 1..Len(list) :
            list[i] \in Entry /\ rows[i] = Fields(list[i], Mark(list[i])) /\ rows[i] \in Seq(Nat)
  BY RowsAre
<1>. HIDE DEF bytes, rows
<1>3. 0 \in S
  <2>1. SubSeq(list, 1, 0) = <<>>
    BY SubSeqEmpty
  <2>2. 2 + Len(Flat(rows, 0)) = 2
    <3>1. Flat(rows, 0) = <<>>
      BY <1>2, FlatIs
    <3>2. Len(<<>>) = 0 /\ 2 + 0 = 2
      OBVIOUS
    <3>. QED
      BY <3>1, <3>2, Zenon
  <2>3. Reading(bytes)[0] = [list |-> <<>>, offset |-> 2]
    BY <1>1, ReadingIs
  <2>4. Reading(bytes)[0] = there(0)
    BY <2>1, <2>2, <2>3, Zenon
  <2>. QED
    BY <2>4
<1>4. ASSUME NEW k \in Nat, k \in S PROVE k + 1 \in S
  <2>. SUFFICES ASSUME k + 1 <= Len(list) PROVE Reading(bytes)[k + 1] = there(k + 1)
    OBVIOUS
  <2>1. k <= Len(list) /\ k + 1 \in 1..Len(list) /\ (k + 1) - 1 = k /\ k \in 0..Len(list)
    BY <1>2
  <2>2. Reading(bytes)[k] = there(k)
    BY <1>4, <2>1
  <2>. DEFINE entry == list[k + 1]
              before == SubSeq(list, 1, k)
              offset == 2 + Len(Flat(rows, k))
              here == EntryAt(bytes, offset)
  <2>3. /\ entry \in Entry /\ rows[k + 1] = Fields(entry, Mark(entry))
        /\ rows[k + 1] \in Seq(Nat)
    BY <1>2, <2>1
  <2>4. /\ Len(Flat(rows, k)) \in Nat
        /\ Len(Flat(rows, k + 1)) = Len(Flat(rows, k)) + Len(rows[k + 1])
    <3>1. Len(Flat(rows, k)) \in Nat
      BY <1>2, <2>1, FlatIs
    <3>2. Len(Flat(rows, k + 1)) = Len(Flat(rows, (k + 1) - 1)) + Len(rows[k + 1])
      BY <1>2, <2>1, FlatIs
    <3>. QED
      BY <2>1, <3>1, <3>2, Zenon
  <2>5. Stands(rows[k + 1], bytes, offset)
    <3>1. Stands(rows[k + 1], FlattenSeq(rows), Len(Flat(rows, (k + 1) - 1)))
      BY <1>2, <2>1, PartStands
    <3>2. Stands(rows[k + 1], FlattenSeq(rows), Len(Flat(rows, k)))
      BY <2>1, <3>1, Zenon
    <3>. QED
      BY <1>1, <2>3, <2>4, <3>2, StandsInside
  <2>6. offset \in Nat /\ before \in Seq(Entry)
    BY <2>1, <2>4, Split
  <2>7. Sound(entry) /\ ProperBands(entry.bands, entry.min, entry.max)
    BY <2>1 DEF AllSound, AllProper
  <2>8. here = [entry |-> entry, next |-> offset + Len(Fields(entry, Mark(entry)))]
    <3>. HIDE DEF entry, offset
    <3>1. Stands(Fields(entry, Mark(entry)), bytes, offset)
      BY <2>3, <2>5, Zenon
    <3>. QED
      BY <1>1, <2>3, <2>6, <2>7, <3>1, EntryReads, Zenon
  <2>9. here # Nothing /\ here.entry = entry /\ here.next = 2 + Len(Flat(rows, k + 1))
    <3>. DEFINE next == offset + Len(Fields(entry, Mark(entry)))
    <3>1. next = 2 + Len(Flat(rows, k + 1)) /\ next \in Nat
      <4>1. Len(rows[k + 1]) \in Nat
        BY <2>3, LenProperties
      <4>2. next = offset + Len(rows[k + 1])
        BY <2>3, Zenon
      <4>. DEFINE x == Len(Flat(rows, k))
                  y == Len(Flat(rows, k + 1))
                  z == Len(rows[k + 1])
      <4>3. x \in Nat /\ z \in Nat /\ y = x + z /\ next = (2 + x) + z
        BY <2>4, <4>1, <4>2, Zenon
      <4>. HIDE DEF next, x, y, z
      <4>4. next = 2 + y /\ next \in Nat
        BY <4>3
      <4>. QED
        BY <4>4 DEF y
    <3>. HIDE DEF next, here, entry, offset
    <3>2. here = [entry |-> entry, next |-> next]
      BY <2>8, Zenon DEF next
    <3>. QED
      BY <2>3, <3>1, <3>2, CatalogueAssumption
  <2>10. Append(before, entry) = SubSeq(list, 1, k + 1)
    <3>1. 1 \in 1..Len(list) /\ k + 1 \in 1..Len(list)
      BY <1>2, <2>1
    <3>2. SubSeq(list, 1, k + 1) = SubSeq(list, 1, (k + 1) - 1) \o <<list[k + 1]>>
      BY <3>1, SubSeqRecursiveSecond
    <3>3. Append(before, entry) = before \o <<entry>>
      <4>. HIDE DEF before, entry
      <4>. QED
        BY <2>3, <2>6, AppendIsConcat
    <3>. QED
      BY <2>1, <3>2, <3>3, Zenon
  <2>11. Reading(bytes)[k + 1] = ReadOn(bytes, Reading(bytes)[k])
    BY <1>1, ReadingIs
  <2>12. ReadOn(bytes, [list |-> before, offset |-> offset])
         = [list |-> Append(before, here.entry), offset |-> here.next]
    <3>. HIDE DEF before, offset
    <3>. QED
      BY <1>1, <2>6, <2>9, ReadOnIs
  <2>. HIDE DEF here, entry
  <2>. QED
    BY <2>2, <2>9, <2>10, <2>11, <2>12, Zenon
<1>5. Nat \subseteq S
  <2>. HIDE DEF S
  <2>1. 1 \in Nat \ {0}
    OBVIOUS
  <2>. QED
    BY <1>3, <1>4, <2>1, Link!Induction
<1>6. \A k \in 0..Len(list) : Reading(bytes)[k] = there(k)
  <2>. HIDE DEF there
  <2>. QED
    BY <1>2, <1>5
<1>. QED
  BY <1>6, Zenon DEF bytes, rows

\* What is sent is parsed.
LEMMA ParsedBack ==
    ASSUME NEW list \in Seq(Entry), AllSound(list), AllProper(list), Different(list)
    PROVE  ParseEqEntries(Payload(list)) = list
<1>. DEFINE bytes == Payload(list)
            last == Reading(bytes)[Len(list)]
            flat == FlattenSeq(Rows(list))
<1>1. /\ bytes \in Seq(Byte) /\ bytes[1] = 0 /\ bytes[2] = Len(list)
      /\ flat \in Seq(Nat) /\ Len(flat) \in Nat /\ Len(bytes) = 2 + Len(flat)
  BY PayloadIs
<1>2. /\ Len(list) \in Nat /\ Rows(list) \in Seq(Seq(Nat)) /\ Len(Rows(list)) = Len(list)
      /\ DOMAIN list = 1..Len(list)
  BY RowsAre
<1>3. last = [list |-> list, offset |-> Len(bytes)]
  <2>1. Len(list) \in 0..Len(list)
    BY <1>2
  <2>2. last = [list |-> SubSeq(list, 1, Len(list)),
                offset |-> 2 + Len(Flat(Rows(list), Len(list)))]
    BY <2>1, PayloadReads
  <2>3. SubSeq(list, 1, Len(list)) = list
    BY SubSeqFull
  <2>4. Flat(Rows(list), Len(list)) = flat
    BY <1>2, FlatIs
  <2>. QED
    BY <1>1, <2>2, <2>3, <2>4, Zenon
<1>. HIDE DEF bytes, flat
<1>4. last # Nothing /\ last.list = list /\ last.offset = Len(bytes)
  <2>. DEFINE n == Len(bytes)
  <2>1. n \in Nat
    BY <1>1
  <2>. HIDE DEF n, last
  <2>2. last = [list |-> list, offset |-> n]
    BY <1>3, Zenon DEF n
  <2>3. last # Nothing /\ last.list = list /\ last.offset = n
    BY <2>1, <2>2, CatalogueAssumption
  <2>. QED
    BY <2>3 DEF n
<1>5. EntriesOf(bytes) = list
  BY <1>1, <1>4, Zenon DEF EntriesOf, EndsAt
<1>6. ~(\E i, j \in DOMAIN list : i # j /\ list[i].id = list[j].id)
  BY Zenon DEF Different
<1>7. ~(Len(bytes) < 2 \/ bytes[1] # 0)
  BY <1>1
<1>. QED
  BY <1>5, <1>6, <1>7, Zenon DEF ParseEqEntries, bytes

\* An entry that breaks the rules of its bands is refused.
LEMMA BreakerRefused ==
    ASSUME NEW entry \in Entry, Sound(entry), ~ProperBands(entry.bands, entry.min, entry.max)
    PROVE  ParseEqEntries(Payload(<<entry>>)) = Nothing
<1>. DEFINE list == <<entry>>
            bytes == Payload(list)
            rows == Rows(list)
<1>1. list \in Seq(Entry) /\ Len(list) = 1 /\ list[1] = entry
  OBVIOUS
<1>. HIDE DEF list
<1>2. AllSound(list)
  BY <1>1, ByteRange DEF AllSound
<1>3. /\ bytes \in Seq(Byte) /\ bytes \in Seq(Nat) /\ bytes[1] = 0 /\ bytes[2] = 1
      /\ FlattenSeq(rows) \in Seq(Nat) /\ Stands(FlattenSeq(rows), bytes, 2)
  BY <1>1, <1>2, PayloadIs
<1>4. /\ rows \in Seq(Seq(Nat)) /\ Len(rows) = 1 /\ rows[1] \in Seq(Nat)
      /\ rows[1] = Fields(entry, Mark(entry))
  <2>1. 1 \in 1..Len(list)
    BY <1>1
  <2>2. /\ rows \in Seq(Seq(Nat)) /\ Len(rows) = Len(list) /\ rows[1] \in Seq(Nat)
        /\ rows[1] = Fields(list[1], Mark(list[1]))
    BY <1>1, <2>1, RowsAre
  <2>. QED
    BY <1>1, <2>2, Zenon
<1>. HIDE DEF bytes, rows
<1>5. Stands(Fields(entry, Mark(entry)), bytes, 2)
  <2>1. 1 \in 1..Len(rows) /\ 1 - 1 = 0
    BY <1>4
  <2>2. Len(Flat(rows, 0)) = 0
    BY <1>4, FlatIs, EmptySeq
  <2>3. Stands(rows[1], FlattenSeq(rows), Len(Flat(rows, 1 - 1)))
    BY <1>4, <2>1, PartStands
  <2>4. Stands(rows[1], FlattenSeq(rows), 0)
    BY <2>1, <2>2, <2>3, Zenon
  <2>5. Stands(rows[1], bytes, 2 + 0)
    BY <1>3, <1>4, <2>4, StandsInside
  <2>6. 2 + 0 = 2
    OBVIOUS
  <2>. QED
    BY <1>4, <2>5, <2>6, Zenon
<1>6. EntryAt(bytes, 2) = Nothing
  BY <1>3, <1>5, EntryReads
<1>7. Reading(bytes)[1] = Nothing
  <2>1. Reading(bytes)[0] = [list |-> <<>>, offset |-> 2]
    BY <1>3, ReadingIs
  <2>2. 0 \in Nat /\ 0 + 1 = 1 /\ 2 \in Nat
    OBVIOUS
  <2>3. Reading(bytes)[0 + 1] = ReadOn(bytes, Reading(bytes)[0])
    BY <1>3, <2>2, ReadingIs
  <2>4. <<>> \in Seq(Entry)
    BY EmptySeq
  <2>5. ReadOn(bytes, [list |-> <<>>, offset |-> 2]) = Nothing
    BY <1>3, <1>6, <2>2, <2>4, ReadOnIs
  <2>. QED
    BY <2>1, <2>2, <2>3, <2>5, Zenon
<1>8. EntriesOf(bytes) = Nothing
  BY <1>3, <1>7, Zenon DEF EntriesOf
<1>9. ParseEqEntries(bytes) = Nothing
  BY <1>8, Zenon DEF ParseEqEntries
<1>. QED
  BY <1>9 DEF bytes, list

------------------------------------------------------------------------------
(* What is parsed was sent.                                                *)

\* The payload of a list with one entry more.
LEMMA RowsGrow ==
    ASSUME NEW list \in Seq(Entry), NEW entry \in Entry
    PROVE  /\ Append(list, entry) \in Seq(Entry) /\ Len(Append(list, entry)) = Len(list) + 1
           /\ FlattenSeq(Rows(Append(list, entry)))
              = FlattenSeq(Rows(list)) \o Fields(entry, Mark(entry))
<1>. DEFINE more == Append(list, entry)
            n == Len(list)
            all == Rows(more)
<1>1. /\ more \in Seq(Entry) /\ Len(more) = n + 1 /\ n \in Nat
      /\ \A i \in 1..n : more[i] = list[i]
      /\ more[n + 1] = entry
  BY AppendProperties, LenProperties
<1>. HIDE DEF more
<1>2. /\ all \in Seq(Seq(Nat)) /\ Len(all) = n + 1
      /\ \A i \in 1..(n + 1) : all[i] = Fields(more[i], Mark(more[i]))
  BY <1>1, RowsAre
<1>3. /\ Rows(list) \in Seq(Seq(Nat)) /\ Len(Rows(list)) = n
      /\ \A i \in 1..n : Rows(list)[i] = Fields(list[i], Mark(list[i]))
  BY RowsAre
<1>. HIDE DEF all
<1>4. SubSeq(all, 1, n) = Rows(list)
  <2>1. n \in 0..Len(all)
    BY <1>1, <1>2
  <2>2. SubSeq(all, 1, n) \in Seq(Seq(Nat)) /\ Len(SubSeq(all, 1, n)) = n
    BY <1>2, <2>1, Split
  <2>3. SubSeq(all, 1, n) = [i \in 1..n |-> all[i]]
    BY <1>2, <2>1, FirstOnes
  <2>4. \A i \in 1..n : SubSeq(all, 1, n)[i] = Rows(list)[i]
    <3>. SUFFICES ASSUME NEW i \in 1..n PROVE SubSeq(all, 1, n)[i] = Rows(list)[i]
      OBVIOUS
    <3>1. i \in 1..(n + 1)
      BY <1>1
    <3>2. SubSeq(all, 1, n)[i] = all[i]
      BY <2>3
    <3>. QED
      BY <1>1, <1>2, <1>3, <3>1, <3>2
  <2>. QED
    BY <1>3, <2>2, <2>4, SeqEqual
<1>5. FlattenSeq(all) = Flat(all, n) \o all[n + 1]
  <2>1. n + 1 \in 1..Len(all) /\ (n + 1) - 1 = n
    BY <1>1, <1>2
  <2>2. Flat(all, Len(all)) = FlattenSeq(all)
    BY <1>2, FlatIs
  <2>3. Flat(all, n + 1) = Flat(all, (n + 1) - 1) \o all[n + 1]
    BY <1>2, <2>1, FlatIs
  <2>. QED
    BY <1>2, <2>1, <2>2, <2>3, Zenon
<1>6. Flat(all, n) = FlattenSeq(Rows(list))
  BY <1>4, Zenon DEF Flat
<1>7. all[n + 1] = Fields(entry, Mark(entry))
  <2>1. n + 1 \in 1..(n + 1)
    BY <1>1
  <2>. QED
    BY <1>1, <1>2, <2>1
<1>8. FlattenSeq(all) = FlattenSeq(Rows(list)) \o Fields(entry, Mark(entry))
  BY <1>5, <1>6, <1>7, Zenon
<1>. QED
  BY <1>1, <1>8 DEF more, all

\* The k entries read so far are what the bytes up to the offset say.
ReadSoFar(bytes, list, offset, k) ==
    /\ list \in Seq(Entry) /\ Len(list) = k
    /\ \A i \in 1..k : /\ Sound(list[i])
                       /\ ProperBands(list[i].bands, list[i].min, list[i].max)
    /\ offset = 2 + Len(FlattenSeq(Rows(list)))
    /\ Stands(FlattenSeq(Rows(list)), bytes, 2)

\* A round that reads keeps to that.
LEMMA ReadMore ==
    ASSUME NEW bytes \in Seq(Byte), NEW k \in Nat, NEW list, NEW offset,
           ReadSoFar(bytes, list, offset, k), EntryAt(bytes, offset) # Nothing
    PROVE  ReadSoFar(bytes, Append(list, EntryAt(bytes, offset).entry),
                     EntryAt(bytes, offset).next, k + 1)
<1>. DEFINE here == EntryAt(bytes, offset)
            entry == here.entry
            flat == FlattenSeq(Rows(list))
            fields == Fields(entry, Mark(entry))
            more == Append(list, entry)
<1>1. /\ list \in Seq(Entry) /\ Len(list) = k
      /\ \A i \in 1..k : Sound(list[i]) /\ ProperBands(list[i].bands, list[i].min, list[i].max)
      /\ offset = 2 + Len(flat) /\ Stands(flat, bytes, 2)
  BY DEF ReadSoFar
<1>2. flat \in Seq(Nat) /\ Len(flat) \in Nat
  BY <1>1, PayloadIs
<1>3. offset \in Nat
  BY <1>1, <1>2
<1>4. /\ entry \in Entry /\ Sound(entry) /\ ProperBands(entry.bands, entry.min, entry.max)
      /\ here.next = offset + Len(fields) /\ Stands(fields, bytes, offset)
  BY <1>3, EntryMeans
<1>5. fields \in Seq(Nat) /\ Len(fields) \in Nat
  <2>1. Mark(entry) \in Nat
    BY DEF Mark
  <2>. HIDE DEF entry
  <2>2. fields \in Seq(Nat)
    BY <1>4, <2>1, FieldsAre
  <2>. QED
    BY <2>2, LenProperties
<1>6. bytes \in Seq(Nat)
  BY ByteRange, SeqMonotonic
<1>. HIDE DEF here, entry
<1>7. /\ more \in Seq(Entry) /\ Len(more) = k + 1 /\ FlattenSeq(Rows(more)) = flat \o fields
      /\ \A i \in 1..k : more[i] = list[i]
      /\ more[k + 1] = entry
  <2>1. /\ more \in Seq(Entry) /\ Len(more) = Len(list) + 1
        /\ FlattenSeq(Rows(more)) = flat \o fields
    BY <1>1, <1>4, RowsGrow
  <2>2. (\A i \in 1..Len(list) : more[i] = list[i]) /\ more[Len(list) + 1] = entry
    BY <1>1, <1>4, AppendProperties
  <2>. HIDE DEF more, flat, fields
  <2>. QED
    BY <1>1, <2>1, <2>2, Zenon
<1>. HIDE DEF flat, fields, more
<1>8. Stands(flat \o fields, bytes, 2)
  BY <1>1, <1>2, <1>4, <1>5, <1>6, StandsInBoth
<1>9. here.next = 2 + Len(flat \o fields)
  <2>1. Len(flat \o fields) = Len(flat) + Len(fields)
    BY <1>2, <1>5, ConcatProperties
  <2>. QED
    BY <1>1, <1>2, <1>4, <1>5, <2>1
<1>10. \A i \in 1..(k + 1) :
          Sound(more[i]) /\ ProperBands(more[i].bands, more[i].min, more[i].max)
  <2>. SUFFICES ASSUME NEW i \in 1..(k + 1)
                PROVE  Sound(more[i]) /\ ProperBands(more[i].bands, more[i].min, more[i].max)
    OBVIOUS
  <2>1. i \in 1..k \/ i = k + 1
    OBVIOUS
  <2>2. CASE i \in 1..k
    BY <1>1, <1>7, <2>2
  <2>3. CASE i = k + 1
    BY <1>4, <1>7, <2>3, Zenon
  <2>. QED
    BY <2>1, <2>2, <2>3
<1>11. ReadSoFar(bytes, more, here.next, k + 1)
  BY <1>7, <1>8, <1>9, <1>10, Zenon DEF ReadSoFar
<1>. QED
  BY <1>11 DEF more, here, entry

\* So does every number of rounds.
LEMMA ReadingMeans ==
    ASSUME NEW bytes \in Seq(Byte), Len(bytes) >= 2
    PROVE  \A k \in Nat : Reading(bytes)[k] # Nothing =>
              ReadSoFar(bytes, Reading(bytes)[k].list, Reading(bytes)[k].offset, k)
<1>. DEFINE r(k) == Reading(bytes)[k]
            S == {k \in Nat : r(k) # Nothing => ReadSoFar(bytes, r(k).list, r(k).offset, k)}
<1>1. /\ r(0) = [list |-> <<>>, offset |-> 2]
      /\ \A k \in Nat : r(k) \in Progress \cup {Nothing} /\ r(k + 1) = ReadOn(bytes, r(k))
  BY ReadingIs
<1>. HIDE DEF r
<1>2. 0 \in S
  <2>1. r(0).list = <<>> /\ r(0).offset = 2
    BY <1>1
  <2>2. <<>> \in Seq(Entry) /\ Len(<<>>) = 0 /\ bytes \in Seq(Nat) /\ Len(bytes) \in Nat
    BY EmptySeq, ByteRange, SeqMonotonic, LenProperties
  <2>3. FlattenSeq(Rows(<<>>)) = <<>>
    <3>1. Rows(<<>>) \in Seq(Seq(Nat)) /\ Len(Rows(<<>>)) = 0
      BY <2>2, RowsAre
    <3>2. Flat(Rows(<<>>), 0) = <<>> /\ Flat(Rows(<<>>), Len(Rows(<<>>))) = FlattenSeq(Rows(<<>>))
      BY <3>1, FlatIs
    <3>. QED
      BY <3>1, <3>2, Zenon
  <2>4. Stands(<<>>, bytes, 2)
    BY <2>2 DEF Stands
  <2>5. 2 = 2 + 0
    OBVIOUS
  <2>6. \A i \in 1..0 : /\ Sound(<<>>[i])
                        /\ ProperBands(<<>>[i].bands, <<>>[i].min, <<>>[i].max)
    OBVIOUS
  <2>7. ReadSoFar(bytes, <<>>, 2, 0)
    BY <2>2, <2>3, <2>4, <2>5, <2>6, Zenon DEF ReadSoFar
  <2>. QED
    BY <2>1, <2>7
<1>3. ASSUME NEW k \in Nat, k \in S PROVE k + 1 \in S
  <2>. SUFFICES ASSUME r(k + 1) # Nothing
                PROVE  ReadSoFar(bytes, r(k + 1).list, r(k + 1).offset, k + 1)
    OBVIOUS
  <2>1. r(k) # Nothing
    BY <1>1 DEF ReadOn
  <2>2. r(k) \in Progress /\ ReadSoFar(bytes, r(k).list, r(k).offset, k)
    BY <1>1, <1>3, <2>1
  <2>. DEFINE list == r(k).list
              offset == r(k).offset
              here == EntryAt(bytes, offset)
  <2>3. r(k) = [list |-> list, offset |-> offset] /\ list \in Seq(Entry) /\ offset \in Nat
    BY <2>2 DEF Progress
  <2>4. r(k + 1) = ReadOn(bytes, [list |-> list, offset |-> offset])
    BY <1>1, <2>3, Zenon
  <2>. HIDE DEF list, offset
  <2>5. here # Nothing
    BY <2>3, <2>4, ReadOnIs, Zenon
  <2>6. r(k + 1) = [list |-> Append(list, here.entry), offset |-> here.next]
    BY <2>3, <2>4, <2>5, ReadOnIs, Zenon
  <2>7. ReadSoFar(bytes, list, offset, k)
    BY <2>2, Zenon DEF list, offset
  <2>8. ReadSoFar(bytes, Append(list, here.entry), here.next, k + 1)
    BY <2>5, <2>7, ReadMore, Zenon
  <2>. HIDE DEF here
  <2>9. r(k + 1).list = Append(list, here.entry) /\ r(k + 1).offset = here.next
    BY <2>6
  <2>. QED
    BY <2>8, <2>9, Zenon
<1>4. Nat \subseteq S
  <2>. HIDE DEF S
  <2>1. 1 \in Nat \ {0}
    OBVIOUS
  <2>. QED
    BY <1>2, <1>3, <2>1, Link!Induction
<1>. QED
  BY <1>4 DEF r

\* What is parsed was sent.
LEMMA ParsedMeans ==
    ASSUME NEW bytes \in Seq(Byte), ParseEqEntries(bytes) # Nothing
    PROVE  LET list == ParseEqEntries(bytes) IN
           /\ list \in Seq(Entry) /\ AllProper(list) /\ Different(list)
           /\ Payload(list) = bytes
<1>. DEFINE list == ParseEqEntries(bytes)
            k == bytes[2]
            last == Reading(bytes)[k]
            flat == FlattenSeq(Rows(list))
<1>1. /\ ~(Len(bytes) < 2) /\ bytes[1] = 0 /\ list = EntriesOf(bytes)
      /\ ~(\E i, j \in DOMAIN list : i # j /\ list[i].id = list[j].id)
  BY Zenon DEF ParseEqEntries
<1>2. last # Nothing /\ last.offset = Len(bytes) /\ list = last.list
  BY <1>1, Zenon DEF EntriesOf, EndsAt
<1>3. Len(bytes) \in Nat /\ bytes \in Seq(Nat) /\ k \in Byte /\ k \in Nat /\ Len(bytes) >= 2
  <2>1. Len(bytes) \in Nat /\ bytes \in Seq(Nat)
    BY ByteRange, SeqMonotonic, LenProperties
  <2>2. 2 \in 1..Len(bytes) /\ Len(bytes) >= 2
    BY <1>1, <2>1
  <2>3. k \in Byte
    BY <2>2, ElementOfSeq
  <2>. QED
    BY <2>1, <2>2, <2>3, ByteRange
<1>. HIDE DEF k, list
<1>4. ReadSoFar(bytes, list, Len(bytes), k)
  <2>1. ReadSoFar(bytes, last.list, last.offset, k)
    BY <1>2, <1>3, ReadingMeans
  <2>. QED
    BY <1>2, <2>1, Zenon
<1>5. /\ list \in Seq(Entry) /\ Len(list) = k
      /\ \A i \in 1..k : Sound(list[i]) /\ ProperBands(list[i].bands, list[i].min, list[i].max)
      /\ Len(bytes) = 2 + Len(flat) /\ Stands(flat, bytes, 2)
  BY <1>4, Zenon DEF ReadSoFar
<1>6. AllProper(list) /\ Different(list)
  <2>1. AllProper(list)
    BY <1>5 DEF AllProper
  <2>2. Different(list)
    BY <1>1, Zenon DEF Different
  <2>. QED
    BY <2>1, <2>2
<1>7. Payload(list) = bytes
  <2>. DEFINE sent == Payload(list)
  <2>1. /\ sent \in Seq(Nat) /\ sent[1] = 0 /\ sent[2] = k /\ Len(flat) \in Nat
        /\ Len(sent) = 2 + Len(flat) /\ Stands(flat, sent, 2)
    BY <1>5, PayloadIs
  <2>. HIDE DEF sent, flat
  <2>2. ASSUME NEW i \in 1..Len(sent) PROVE sent[i] = bytes[i]
    <3>1. CASE i = 1
      BY <1>1, <2>1, <3>1
    <3>2. CASE i = 2
      BY <2>1, <3>2 DEF k
    <3>3. CASE i # 1 /\ i # 2
      <4>1. i - 2 \in 1..Len(flat) /\ 2 + (i - 2) = i
        BY <2>1, <3>3
      <4>2. sent[2 + (i - 2)] = flat[i - 2] /\ bytes[2 + (i - 2)] = flat[i - 2]
        BY <1>5, <2>1, <4>1 DEF Stands
      <4>. QED
        BY <4>1, <4>2
    <3>. QED
      BY <3>1, <3>2, <3>3
  <2>3. sent = bytes
    BY <1>3, <1>5, <2>1, <2>2, SeqEqual
  <2>. QED
    BY <2>3 DEF sent
<1>. QED
  BY <1>5, <1>6, <1>7 DEF list

------------------------------------------------------------------------------
(* Lists of earbuds and entries with other gains.                          *)

\* The rules of a list, part by part.
LEMMA ProperIs ==
    ASSUME NEW list \in Seq(Entry)
    PROVE  ProperList(list) <=> AllSound(list) /\ AllProper(list) /\ Different(list)
<1>1. Len(list) \in Nat /\ DOMAIN list = 1..Len(list)
  BY LenProperties
<1>2. ASSUME NEW i \in 1..Len(list)
      PROVE  Sound(list[i]) <=>
                /\ Len(list[i].name) < Full /\ ~Contains(list[i].name, Undecodable)
                /\ Len(list[i].bands) \in 1..(Full - 1)
  <2>1. list[i] \in Entry
    BY ElementOfSeq
  <2>2. list[i].bands \in Seq(Band) /\ Len(list[i].bands) \in Nat /\ Full \in Nat
    BY <2>1, EntryIs, ByteRange
  <2>3. list[i].bands # <<>> <=> Len(list[i].bands) # 0
    BY <2>2, EmptySeq
  <2>4. Len(list[i].bands) \in 1..(Full - 1)
        <=> Len(list[i].bands) # 0 /\ Len(list[i].bands) < Full
    <3>. DEFINE n == Len(list[i].bands)
    <3>. HIDE DEF n
    <3>1. ASSUME n \in Nat, Full \in Nat PROVE n \in 1..(Full - 1) <=> n # 0 /\ n < Full
      BY <3>1
    <3>. QED
      BY <2>2, <3>1 DEF n
  <2>. QED
    BY <2>3, <2>4, Zenon DEF Sound, Small
<1>3. ASSUME ProperList(list) PROVE AllSound(list) /\ AllProper(list) /\ Different(list)
  BY <1>1, <1>2, <1>3, Zenon DEF ProperList, AllSound, AllProper, Different
<1>4. ASSUME AllSound(list), AllProper(list), Different(list) PROVE ProperList(list)
  BY <1>1, <1>2, <1>4, Zenon DEF ProperList, AllSound, AllProper, Different
<1>. QED
  BY <1>3, <1>4

\* An entry that is selected or not any more is otherwise the same.
LEMMA SelectedIs ==
    ASSUME NEW entry \in Entry, NEW b \in BOOLEAN
    PROVE  LET other == [entry EXCEPT !.selected = b] IN
           /\ other \in Entry /\ other.selected = b /\ other.id = entry.id
           /\ other.name = entry.name /\ other.min = entry.min /\ other.max = entry.max
           /\ other.bands = entry.bands
           /\ other = [id |-> entry.id, name |-> entry.name, selected |-> b,
                       min |-> entry.min, max |-> entry.max, bands |-> entry.bands]
BY DEF Entry

\* The bands of an entry with other gains.
Regained(bands, gains) ==
    [i \in DOMAIN bands |-> [frequency |-> bands[i].frequency, gain |-> gains[i]]]

\* Their number and frequencies are the same.
LEMMA RegainedIs ==
    ASSUME NEW bands \in Seq(Band), NEW gains \in Seq(Gain), Len(gains) = Len(bands)
    PROVE  /\ Len(bands) \in Nat /\ DOMAIN bands = 1..Len(bands)
           /\ [i \in DOMAIN bands |-> [bands[i] EXCEPT !.gain = gains[i]]]
              = Regained(bands, gains)
           /\ Regained(bands, gains) \in Seq(Band)
           /\ Len(Regained(bands, gains)) = Len(bands)
           /\ DOMAIN Regained(bands, gains) = 1..Len(bands)
           /\ \A i \in 1..Len(bands) :
                /\ Regained(bands, gains)[i].frequency = bands[i].frequency
                /\ Regained(bands, gains)[i].gain = gains[i]
<1>1. Len(bands) \in Nat /\ DOMAIN bands = 1..Len(bands)
  BY LenProperties
<1>2. ASSUME NEW i \in 1..Len(bands)
      PROVE  /\ Regained(bands, gains)[i] \in Band
             /\ [bands[i] EXCEPT !.gain = gains[i]]
                = [frequency |-> bands[i].frequency, gain |-> gains[i]]
             /\ Regained(bands, gains)[i].frequency = bands[i].frequency
             /\ Regained(bands, gains)[i].gain = gains[i]
  <2>1. bands[i] \in Band /\ gains[i] \in Gain
    BY ElementOfSeq
  <2>2. Regained(bands, gains)[i] = [frequency |-> bands[i].frequency, gain |-> gains[i]]
    BY <1>1 DEF Regained
  <2>. QED
    BY <2>1, <2>2 DEF Band
<1>3. Regained(bands, gains) \in [1..Len(bands) -> Band]
  <2>1. Regained(bands, gains) = [i \in 1..Len(bands) |-> Regained(bands, gains)[i]]
    BY <1>1 DEF Regained
  <2>. QED
    BY <1>2, <2>1
<1>4. Regained(bands, gains) \in Seq(Band) /\ Len(Regained(bands, gains)) = Len(bands)
      /\ DOMAIN Regained(bands, gains) = 1..Len(bands)
  BY <1>1, <1>3, SeqDef, LenProperties
<1>5. [i \in DOMAIN bands |-> [bands[i] EXCEPT !.gain = gains[i]]] = Regained(bands, gains)
  BY <1>1, <1>2 DEF Regained
<1>. QED
  BY <1>1, <1>2, <1>4, <1>5

\* Nothing else of the entry changes.
LEMMA WithGainsIs ==
    ASSUME NEW entry \in Entry, NEW gains \in Seq(Gain), Len(gains) = Len(entry.bands)
    PROVE  LET other == WithGains(entry, gains) IN
           /\ other \in Entry /\ other.id = entry.id /\ other.name = entry.name
           /\ other.selected = entry.selected
           /\ other.min = entry.min /\ other.max = entry.max
           /\ other.bands = Regained(entry.bands, gains)
<1>1. entry.bands \in Seq(Band)
  BY EntryIs
<1>. DEFINE bands == [i \in DOMAIN entry.bands |-> [entry.bands[i] EXCEPT !.gain = gains[i]]]
<1>2. WithGains(entry, gains) = [entry EXCEPT !.bands = bands]
  BY DEF WithGains
<1>3. bands = Regained(entry.bands, gains) /\ bands \in Seq(Band)
  BY <1>1, RegainedIs
<1>. HIDE DEF bands
<1>4. LET other == [entry EXCEPT !.bands = bands] IN
           /\ other \in Entry /\ other.id = entry.id /\ other.name = entry.name
           /\ other.selected = entry.selected
           /\ other.min = entry.min /\ other.max = entry.max
           /\ other.bands = bands
  BY <1>3 DEF Entry
<1>. QED
  BY <1>2, <1>3, <1>4, Zenon

------------------------------------------------------------------------------
(* What a store sends.                                                     *)

\* Bytes that differ in the first only have the same tail.
LEMMA SameTails ==
    ASSUME NEW s \in Seq(Nat), NEW t \in Seq(Nat), Len(s) = 5, Len(t) = 5,
           s[2] = t[2], s[3] = t[3], s[4] = t[4], s[5] = t[5]
    PROVE  Tail(s) = Tail(t)
<1>1. ASSUME NEW x \in Seq(Nat), Len(x) = 5
      PROVE  /\ Tail(x) \in Seq(Nat) /\ Len(Tail(x)) = 4
             /\ Tail(x)[1] = x[2] /\ Tail(x)[2] = x[3]
             /\ Tail(x)[3] = x[4] /\ Tail(x)[4] = x[5]
  <2>1. x # <<>>
    BY <1>1, EmptySeq
  <2>2. Tail(x) \in Seq(Nat) /\ Len(Tail(x)) = 4
    BY <1>1, <2>1, HeadTailProperties
  <2>3. \A i \in 1..Len(Tail(x)) : Tail(x)[i] = x[i + 1]
    BY <2>1, HeadTailProperties
  <2>4. \A i \in 1..4 : Tail(x)[i] = x[i + 1]
    BY <2>2, <2>3, Zenon
  <2>. DEFINE y == Tail(x)
  <2>5. \A i \in 1..4 : y[i] = x[i + 1]
    BY <2>4, Zenon
  <2>. HIDE DEF y
  <2>6. y[1] = x[2] /\ y[2] = x[3] /\ y[3] = x[4] /\ y[4] = x[5]
    BY <2>5
  <2>. QED
    BY <2>2, <2>6, Zenon DEF y
<1>2. 1..4 = {1, 2, 3, 4}
  OBVIOUS
<1>3. \A i \in 1..4 : Tail(s)[i] = Tail(t)[i]
  BY <1>1, <1>2
<1>4. Tail(s) \in Seq(Nat) /\ Tail(t) \in Seq(Nat) /\ Len(Tail(s)) = 4 /\ Len(Tail(t)) = 4
  BY <1>1
<1>. DEFINE y == Tail(s)
            z == Tail(t)
<1>. HIDE DEF y, z
<1>5. y \in Seq(Nat) /\ z \in Seq(Nat) /\ Len(y) = Len(z) /\ \A i \in 1..Len(y) : y[i] = z[i]
  BY <1>3, <1>4, Zenon DEF y, z
<1>6. y = z
  BY <1>5, SeqEqual
<1>. QED
  BY <1>6 DEF y, z

\* The fields of an entry but for the first, which alone says whether it is selected.
LEMMA FieldsBehind ==
    ASSUME NEW entry \in Entry, NEW other \in Entry, NEW m \in Nat, NEW n \in Nat,
           other.id = entry.id, other.name = entry.name, other.min = entry.min,
           other.max = entry.max, other.bands = entry.bands
    PROVE  /\ Tail(Fields(entry, m)) = Tail(Fields(other, n))
           /\ Fields(entry, m) = <<m>> \o Tail(Fields(entry, m))
           /\ Tail(Fields(entry, m)) \in Seq(Nat)
<1>. DEFINE a == FirstFive(entry, m)
            a2 == FirstFive(other, n)
            b == entry.name
            c == <<Len(entry.bands)>>
            d == FlattenSeq(Pairs(entry.bands))
<1>1. /\ Fields(entry, m) = ((a \o b) \o c) \o d
      /\ a \in Seq(Nat) /\ Len(a) = 5 /\ b \in Seq(Nat) /\ c \in Seq(Nat)
      /\ Fields(entry, m) \in Seq(Nat)
  BY FieldsAre, EntryIs
<1>2. /\ Fields(other, n) = ((a2 \o b) \o c) \o d
      /\ a2 \in Seq(Nat) /\ Len(a2) = 5
  <2>1. Fields(other, n)
        = ((FirstFive(other, n) \o other.name) \o <<Len(other.bands)>>)
          \o FlattenSeq(Pairs(other.bands))
    BY FieldsAre
  <2>2. a2 \in Seq(Nat) /\ Len(a2) = 5
    BY FieldsAre
  <2>. QED
    BY <2>1, <2>2, Zenon
<1>3. d \in Seq(Nat)
  BY EntryIs, PairsFlat
<1>4. a # <<>> /\ a2 # <<>> /\ a[1] = m
  BY DEF FirstFive
<1>5. Tail(a) = Tail(a2)
  <2>1. a[2] = a2[2] /\ a[3] = a2[3] /\ a[4] = a2[4] /\ a[5] = a2[5]
    BY DEF FirstFive
  <2>. HIDE DEF a, a2
  <2>. QED
    BY <1>1, <1>2, <2>1, SameTails
<1>. HIDE DEF a, a2, b, c, d
<1>6. \A x \in Seq(Nat) : x # <<>> =>
          /\ Tail(((x \o b) \o c) \o d) = ((Tail(x) \o b) \o c) \o d
          /\ (((x \o b) \o c) \o d)[1] = x[1] /\ ((x \o b) \o c) \o d # <<>>
  <2>. SUFFICES ASSUME NEW x \in Seq(Nat), x # <<>>
                PROVE  /\ Tail(((x \o b) \o c) \o d) = ((Tail(x) \o b) \o c) \o d
                       /\ (((x \o b) \o c) \o d)[1] = x[1] /\ ((x \o b) \o c) \o d # <<>>
    OBVIOUS
  <2>1. \A s, t \in Seq(Nat) : s # <<>> =>
           /\ s \o t \in Seq(Nat) /\ Tail(s \o t) = Tail(s) \o t
           /\ s \o t # <<>> /\ (s \o t)[1] = s[1]
    BY OthersBehind, ConcatProperties
  <2>2. /\ x \o b \in Seq(Nat) /\ Tail(x \o b) = Tail(x) \o b
        /\ x \o b # <<>> /\ (x \o b)[1] = x[1]
    BY <1>1, <2>1, Zenon
  <2>3. /\ (x \o b) \o c \in Seq(Nat) /\ Tail((x \o b) \o c) = Tail(x \o b) \o c
        /\ (x \o b) \o c # <<>> /\ ((x \o b) \o c)[1] = (x \o b)[1]
    BY <1>1, <2>1, <2>2, Zenon
  <2>4. /\ Tail(((x \o b) \o c) \o d) = Tail((x \o b) \o c) \o d
        /\ ((x \o b) \o c) \o d # <<>> /\ (((x \o b) \o c) \o d)[1] = ((x \o b) \o c)[1]
    BY <1>3, <2>1, <2>3, Zenon
  <2>. QED
    BY <2>2, <2>3, <2>4, Zenon
<1>7. Tail(Fields(entry, m)) = Tail(Fields(other, n))
  BY <1>1, <1>2, <1>4, <1>5, <1>6, Zenon
<1>8. Fields(entry, m) # <<>> /\ Fields(entry, m)[1] = m
  BY <1>1, <1>4, <1>6, Zenon
<1>9. /\ Fields(entry, m) = <<Fields(entry, m)[1]>> \o Tail(Fields(entry, m))
      /\ Tail(Fields(entry, m)) \in Seq(Nat)
  BY <1>1, <1>8, FirstAndOthers
<1>. QED
  BY <1>7, <1>8, <1>9, Zenon

\* The payload of a store, sent back, is a list of one entry that is not selected.
LEMMA SentBack ==
    ASSUME NEW entry \in Entry
    PROVE  LET other == [entry EXCEPT !.selected = FALSE] IN
           <<0, 1, 0>> \o Tail(Fields(entry, 2)) = Payload(<<other>>)
<1>. DEFINE other == [entry EXCEPT !.selected = FALSE]
            list == <<other>>
            x == Tail(Fields(entry, 2))
            rows == Rows(list)
<1>1. /\ other \in Entry /\ other.selected = FALSE /\ other.id = entry.id
      /\ other.name = entry.name /\ other.min = entry.min /\ other.max = entry.max
      /\ other.bands = entry.bands
  BY SelectedIs
<1>. HIDE DEF other
<1>2. list \in Seq(Entry) /\ Len(list) = 1 /\ list[1] = other /\ 1 \in 1..Len(list)
  BY <1>1
<1>. HIDE DEF list
<1>3. /\ Payload(list) = <<0, 1>> \o FlattenSeq(rows)
      /\ rows \in Seq(Seq(Nat)) /\ Len(rows) = 1 /\ rows[1] = Fields(other, 0)
      /\ rows[1] \in Seq(Nat)
  <2>1. Mark(other) = 0
    BY <1>1 DEF Mark
  <2>2. /\ Payload(list) = <<0, Len(list)>> \o FlattenSeq(rows)
        /\ rows \in Seq(Seq(Nat)) /\ Len(rows) = Len(list) /\ rows[1] \in Seq(Nat)
        /\ rows[1] = Fields(list[1], Mark(list[1]))
    BY <1>2, RowsAre
  <2>. QED
    BY <1>2, <2>1, <2>2, Zenon
<1>. HIDE DEF rows
<1>4. FlattenSeq(rows) = rows[1]
  <2>1. 1 \in 1..Len(rows) /\ 1 - 1 = 0
    BY <1>3
  <2>2. Flat(rows, 0) = <<>> /\ Flat(rows, Len(rows)) = FlattenSeq(rows)
    BY <1>3, FlatIs
  <2>3. Flat(rows, 1) = Flat(rows, 1 - 1) \o rows[1]
    BY <1>3, <2>1, FlatIs
  <2>4. <<>> \o rows[1] = rows[1]
    BY <1>3, ConcatEmptySeq
  <2>. QED
    BY <1>3, <2>1, <2>2, <2>3, <2>4, Zenon
<1>5. 0 \in Nat /\ 2 \in Nat
  OBVIOUS
<1>6. Tail(Fields(entry, 2)) = Tail(Fields(other, 0)) /\ Tail(Fields(entry, 2)) \in Seq(Nat)
  BY <1>1, <1>5, FieldsBehind
<1>7. Fields(other, 0) = <<0>> \o Tail(Fields(other, 0))
  BY <1>1, <1>5, FieldsBehind
<1>8. x \in Seq(Nat) /\ Payload(list) = <<0, 1>> \o (<<0>> \o x)
  BY <1>3, <1>4, <1>6, <1>7, Zenon
<1>. HIDE DEF x
<1>9. <<0, 1>> \o (<<0>> \o x) = <<0, 1, 0>> \o x
  <2>1. <<0, 1>> \in Seq(Nat) /\ <<0>> \in Seq(Nat) /\ <<0, 1>> \o <<0>> = <<0, 1, 0>>
    <3>. DEFINE two == <<0, 1>>
                one == <<0>>
                three == <<0, 1, 0>>
    <3>1. /\ two \in Seq(Nat) /\ Len(two) = 2 /\ two[1] = 0 /\ two[2] = 1
          /\ one \in Seq(Nat) /\ Len(one) = 1 /\ one[1] = 0
          /\ three \in Seq(Nat) /\ Len(three) = 3
          /\ three[1] = 0 /\ three[2] = 1 /\ three[3] = 0
      OBVIOUS
    <3>. HIDE DEF two, one, three
    <3>2. /\ two \o one \in Seq(Nat) /\ Len(two \o one) = 3
          /\ \A i \in 1..3 : (two \o one)[i] = IF i <= 2 THEN two[i] ELSE one[i - 2]
      <4>1. /\ two \o one \in Seq(Nat) /\ Len(two \o one) = Len(two) + Len(one)
            /\ \A i \in 1..(Len(two) + Len(one)) :
                  (two \o one)[i] = IF i <= Len(two) THEN two[i] ELSE one[i - Len(two)]
        BY <3>1, ConcatProperties
      <4>2. Len(two) + Len(one) = 3 /\ Len(two) = 2
        BY <3>1
      <4>. QED
        BY <4>1, <4>2, Zenon
    <3>. DEFINE s == two \o one
    <3>. HIDE DEF s
    <3>3. \A i \in 1..3 : s[i] = IF i <= 2 THEN two[i] ELSE one[i - 2]
      BY <3>2 DEF s
    <3>4. s[1] = 0 /\ s[2] = 1 /\ s[3] = 0
      BY <3>1, <3>3
    <3>5. 1..3 = {1, 2, 3}
      OBVIOUS
    <3>6. \A i \in 1..3 : s[i] = three[i]
      BY <3>1, <3>4, <3>5
    <3>7. s \in Seq(Nat) /\ Len(s) = 3
      BY <3>2 DEF s
    <3>8. s = three
      BY <3>1, <3>6, <3>7, SeqEqual
    <3>. QED
      BY <3>1, <3>8 DEF s, two, one, three
  <2>2. (<<0, 1>> \o <<0>>) \o x = <<0, 1>> \o (<<0>> \o x)
    BY <1>8, <2>1, BytesAssociative, ZenonT(40)
  <2>. QED
    BY <2>1, <2>2, Zenon
<1>10. <<0, 1, 0>> \o x = Payload(list)
  BY <1>8, <1>9, Zenon
<1>. QED
  BY <1>10 DEF x, list, other

\* Other gains need no other room.
LEMMA GainsKeepSound ==
    ASSUME NEW entry \in Entry, Sound(entry), NEW gains \in Seq(Gain),
           Len(gains) = Len(entry.bands)
    PROVE  Sound(WithGains(entry, gains))
<1>1. /\ entry.bands \in Seq(Band) /\ Len(entry.bands) \in Nat
      /\ Small(entry) /\ ~Contains(entry.name, Undecodable) /\ entry.bands # <<>>
  BY EntryIs DEF Sound
<1>2. /\ WithGains(entry, gains).name = entry.name
      /\ WithGains(entry, gains).bands = Regained(entry.bands, gains)
  BY WithGainsIs
<1>3. /\ Regained(entry.bands, gains) \in Seq(Band)
      /\ Len(Regained(entry.bands, gains)) = Len(entry.bands)
  BY <1>1, RegainedIs
<1>4. WithGains(entry, gains).bands # <<>>
  BY <1>1, <1>2, <1>3, EmptySeq
<1>. QED
  BY <1>1, <1>2, <1>3, <1>4, Zenon DEF Sound, Small

\* Other gains keep to the rules exactly if they are within the range of the entry.
LEMMA GainsKeepProper ==
    ASSUME NEW entry \in Entry, ProperBands(entry.bands, entry.min, entry.max),
           NEW gains \in Seq(Gain), Len(gains) = Len(entry.bands)
    PROVE  ProperBands(WithGains(entry, gains).bands, entry.min, entry.max)
           <=> GainsAllowed(entry, gains)
<1>. DEFINE bands == entry.bands
            other == Regained(bands, gains)
            n == Len(bands)
<1>1. bands \in Seq(Band) /\ WithGains(entry, gains).bands = other
  BY EntryIs, WithGainsIs
<1>2. /\ DOMAIN bands = 1..n /\ DOMAIN other = 1..n
      /\ \A i \in 1..n : other[i].frequency = bands[i].frequency /\ other[i].gain = gains[i]
  BY <1>1, RegainedIs
<1>3. DOMAIN gains = 1..n
  BY LenProperties
<1>4. /\ \A i \in 1..n : bands[i].frequency # 0
      /\ \A i, j \in 1..n : bands[j].frequency = bands[i].frequency => i = j
  BY <1>2 DEF ProperBands
<1>. HIDE DEF other, n
<1>5. ProperBands(other, entry.min, entry.max)
      <=> \A i \in 1..n : gains[i] \in entry.min..entry.max
  BY <1>2, <1>4, Zenon DEF ProperBands
<1>6. GainsAllowed(entry, gains) <=> \A i \in 1..n : gains[i] \in entry.min..entry.max
  BY <1>3, Zenon DEF GainsAllowed
<1>. QED
  BY <1>1, <1>5, <1>6, Zenon

\* What a store sends is read back as the entry with its gains exchanged.
LEMMA StoreReadBack ==
    ASSUME NEW entry \in Entry, Sound(entry), ProperBands(entry.bands, entry.min, entry.max),
           NEW gains \in Seq(Gain), GainsAllowed(entry, gains)
    PROVE  LET other == [WithGains(entry, gains) EXCEPT !.selected = FALSE] IN
           /\ EncodeEqDetail(entry, gains) # Nothing
           /\ ReadBack(EncodeEqDetail(entry, gains)) = <<other>>
           /\ Len(gains) = Len(entry.bands)
           /\ other \in Entry /\ Sound(other)
           /\ ProperBands(other.bands, other.min, other.max)
           /\ other.id = entry.id
<1>. DEFINE changed == WithGains(entry, gains)
            other == [changed EXCEPT !.selected = FALSE]
            list == <<other>>
<1>1. Len(gains) = Len(entry.bands)
  BY DEF GainsAllowed
<1>2. /\ changed \in Entry /\ Sound(changed)
      /\ ProperBands(changed.bands, changed.min, changed.max)
      /\ changed.id = entry.id
  <2>1. /\ changed \in Entry /\ changed.min = entry.min /\ changed.max = entry.max
        /\ changed.id = entry.id
    BY <1>1, WithGainsIs
  <2>2. Sound(changed)
    BY <1>1, GainsKeepSound
  <2>3. ProperBands(changed.bands, entry.min, entry.max)
    BY <1>1, GainsKeepProper
  <2>. QED
    BY <2>1, <2>2, <2>3, Zenon
<1>3. EncodeEqDetail(entry, gains) = Fields(changed, 2)
  BY Zenon DEF EncodeEqDetail
<1>. HIDE DEF changed
<1>4. Fields(changed, 2) \in Seq(Nat)
  BY <1>2, FieldsAre
<1>5. Fields(changed, 2) # Nothing
  BY <1>4, CatalogueAssumption
<1>6. /\ other \in Entry /\ other.name = changed.name /\ other.min = changed.min
      /\ other.max = changed.max /\ other.bands = changed.bands /\ other.id = changed.id
  BY <1>2, SelectedIs
<1>7. ReadBack(Fields(changed, 2)) = ParseEqEntries(Payload(list))
  BY <1>2, SentBack, Zenon DEF ReadBack
<1>. HIDE DEF other
<1>8. Sound(other) /\ ProperBands(other.bands, other.min, other.max)
  BY <1>2, <1>6, Zenon DEF Sound, Small
<1>9. ParseEqEntries(Payload(list)) = list
  <2>1. list \in Seq(Entry) /\ Len(list) = 1 /\ list[1] = other /\ DOMAIN list = {1}
    BY <1>6
  <2>. HIDE DEF list
  <2>2. AllSound(list) /\ AllProper(list) /\ Different(list)
    <3>1. 1 < Full /\ \A i \in 1..1 : i = 1
      BY ByteRange
    <3>2. \A i \in 1..Len(list) : list[i] = other
      BY <2>1, <3>1
    <3>3. Len(list) < Full /\ \A i, j \in DOMAIN list : i = j
      BY <2>1, <3>1
    <3>4. AllSound(list)
      BY <1>8, <3>2, <3>3 DEF AllSound
    <3>5. AllProper(list)
      BY <1>8, <3>2 DEF AllProper
    <3>6. Different(list)
      BY <3>3 DEF Different
    <3>. QED
      BY <3>4, <3>5, <3>6
  <2>. QED
    BY <2>1, <2>2, ParsedBack
<1>10. /\ EncodeEqDetail(entry, gains) # Nothing
       /\ ReadBack(EncodeEqDetail(entry, gains)) = <<other>>
  BY <1>3, <1>5, <1>7, <1>9, Zenon
<1>11. other.id = entry.id
  BY <1>2, <1>6, Zenon
<1>. QED
  BY <1>1, <1>6, <1>8, <1>10, <1>11, Zenon DEF other, changed

\* A store that is refused is one the earbuds could not hold.
LEMMA StoreRefused ==
    ASSUME NEW entry \in Entry, Sound(entry), ProperBands(entry.bands, entry.min, entry.max),
           NEW gains \in Seq(Gain), ~GainsAllowed(entry, gains)
    PROVE  /\ EncodeEqDetail(entry, gains) = Nothing
           /\ \/ Len(gains) # Len(entry.bands)
              \/ ParseEqEntries(Payload(<<WithGains(entry, gains)>>)) = Nothing
<1>1. EncodeEqDetail(entry, gains) = Nothing
  BY Zenon DEF EncodeEqDetail
<1>2. ASSUME Len(gains) = Len(entry.bands)
      PROVE  ParseEqEntries(Payload(<<WithGains(entry, gains)>>)) = Nothing
  <2>. DEFINE changed == WithGains(entry, gains)
  <2>1. changed \in Entry /\ changed.min = entry.min /\ changed.max = entry.max
    BY <1>2, WithGainsIs
  <2>2. Sound(changed)
    BY <1>2, GainsKeepSound
  <2>3. ~ProperBands(changed.bands, entry.min, entry.max)
    BY <1>2, GainsKeepProper
  <2>. HIDE DEF changed
  <2>4. ~ProperBands(changed.bands, changed.min, changed.max)
    BY <2>1, <2>3, Zenon
  <2>5. ParseEqEntries(Payload(<<changed>>)) = Nothing
    BY <2>1, <2>2, <2>4, BreakerRefused
  <2>. QED
    BY <2>5 DEF changed
<1>. QED
  BY <1>1, <1>2

\* Damaged bytes are bytes.
LEMMA DamageIsBytes ==
    ASSUME NEW bytes \in Seq(Byte)
    PROVE  Damage(bytes) \subseteq Seq(Byte)
<1>1. Len(bytes) \in Nat /\ DOMAIN bytes = 1..Len(bytes)
  BY LenProperties
<1>2. ASSUME NEW m \in Int, NEW n \in Int, 1 <= m, n <= Len(bytes)
      PROVE  SubSeq(bytes, m, n) \in Seq(Byte)
  <2>1. \A i \in m..n : bytes[i] \in Byte
    <3>. SUFFICES ASSUME NEW i \in m..n PROVE bytes[i] \in Byte
      OBVIOUS
    <3>1. i \in 1..Len(bytes)
      BY <1>1, <1>2
    <3>. QED
      BY <3>1, ElementOfSeq
  <2>. QED
    BY <2>1, SubSeqProperties
<1>3. ASSUME NEW i \in DOMAIN bytes, NEW b \in Byte PROVE [bytes EXCEPT ![i] = b] \in Seq(Byte)
  BY <1>1, ExceptSeq
<1>4. ASSUME NEW i \in DOMAIN bytes PROVE RemoveAt(bytes, i) \in Seq(Byte)
  <2>1. SubSeq(bytes, 1, i - 1) \in Seq(Byte) /\ SubSeq(bytes, i + 1, Len(bytes)) \in Seq(Byte)
    BY <1>1, <1>2
  <2>. QED
    BY <2>1, ConcatProperties DEF RemoveAt
<1>5. ASSUME NEW i \in 1..(Len(bytes) + 1), NEW b \in Byte
      PROVE  InsertAt(bytes, i, b) \in Seq(Byte)
  <2>1. SubSeq(bytes, 1, i - 1) \in Seq(Byte) /\ SubSeq(bytes, i, Len(bytes)) \in Seq(Byte)
    BY <1>1, <1>2
  <2>2. <<b>> \in Seq(Byte)
    OBVIOUS
  <2>3. SubSeq(bytes, 1, i - 1) \o <<b>> \in Seq(Byte)
    BY <2>1, <2>2, ConcatProperties
  <2>. QED
    BY <2>1, <2>3, ConcatProperties DEF InsertAt
<1>6. ASSUME NEW n \in 0..Len(bytes) PROVE SubSeq(bytes, 1, n) \in Seq(Byte)
  BY <1>1, <1>2
<1>7. Changed(bytes) \subseteq Seq(Byte)
  BY <1>3 DEF Changed
<1>8. Shortened(bytes) \subseteq Seq(Byte)
  BY <1>4 DEF Shortened
<1>9. Lengthened(bytes) \subseteq Seq(Byte)
  BY <1>5 DEF Lengthened
<1>10. CutOff(bytes) \subseteq Seq(Byte)
  BY <1>6 DEF CutOff
<1>. QED
  BY <1>7, <1>8, <1>9, <1>10 DEF Damage

------------------------------------------------------------------------------
(* What the earbuds hold.                                                  *)

\* What the earbuds hold keeps to the rules.
ListIsProper == catalogue \in Seq(Entry) /\ ProperList(catalogue)

\* Earbuds begin with a list that keeps to the rules.
LEMMA InitListIsProper == HoldsOneOf => ListIsProper
BY CatalogueAssumption DEF HoldsOneOf, ListIsProper

\* A list that keeps to the rules is parsed as it is.
LEMMA ListParses ==
    ASSUME ListIsProper
    PROVE  /\ ParseEqEntries(Payload(catalogue)) = catalogue
           /\ Len(catalogue) \in Nat /\ DOMAIN catalogue = 1..Len(catalogue)
           /\ AllSound(catalogue) /\ AllProper(catalogue) /\ Different(catalogue)
           /\ \A k \in DOMAIN catalogue :
                /\ catalogue[k] \in Entry /\ Sound(catalogue[k])
                /\ ProperBands(catalogue[k].bands, catalogue[k].min, catalogue[k].max)
<1>1. catalogue \in Seq(Entry) /\ ProperList(catalogue)
  BY DEF ListIsProper
<1>2. AllSound(catalogue) /\ AllProper(catalogue) /\ Different(catalogue)
  BY <1>1, ProperIs
<1>3. Len(catalogue) \in Nat /\ DOMAIN catalogue = 1..Len(catalogue)
  BY <1>1, LenProperties
<1>4. ASSUME NEW k \in DOMAIN catalogue
      PROVE  /\ catalogue[k] \in Entry /\ Sound(catalogue[k])
             /\ ProperBands(catalogue[k].bands, catalogue[k].min, catalogue[k].max)
  <2>1. k \in 1..Len(catalogue)
    BY <1>3
  <2>. QED
    BY <1>1, <1>2, <2>1, ElementOfSeq DEF AllSound, AllProper
<1>5. ParseEqEntries(Payload(catalogue)) = catalogue
  BY <1>1, <1>2, ParsedBack
<1>. QED
  BY <1>2, <1>3, <1>4, <1>5

\* The gains of a store are a sequence.
LEMMA GainsAre ==
    ASSUME NEW gains \in SeqOf(Gain, MaxGains)
    PROVE  gains \in Seq(Gain)
<1>1. PICK m \in 0..MaxGains : gains \in [1..m -> Gain]
  BY DEF SeqOf
<1>2. m \in Nat
  BY CatalogueAssumption
<1>. QED
  BY <1>1, <1>2, SeqDef

\* A store keeps the list within the rules: what the earbuds take over is the entry
\* that was sent, and no other entry changes but in being selected.
LEMMA StoreKeepsProper ==
    ASSUME ListIsProper, NEW k \in DOMAIN catalogue, NEW gains \in SeqOf(Gain, MaxGains),
           StoreEntry(k, gains)
    PROVE  ListIsProper'
<1>. DEFINE entry == catalogue[k]
            stored == [WithGains(entry, gains) EXCEPT !.selected = FALSE]
            new == [stored EXCEPT !.selected = TRUE]
            others(j) == [catalogue[j] EXCEPT !.selected = FALSE]
            next(j) == IF j = k THEN new ELSE others(j)
            n == Len(catalogue)
<1>1. /\ n \in Nat /\ DOMAIN catalogue = 1..n
      /\ AllSound(catalogue) /\ AllProper(catalogue) /\ Different(catalogue)
      /\ \A j \in 1..n :
            /\ catalogue[j] \in Entry /\ Sound(catalogue[j])
            /\ ProperBands(catalogue[j].bands, catalogue[j].min, catalogue[j].max)
  BY ListParses
<1>2. gains \in Seq(Gain) /\ k \in 1..n
  BY <1>1, GainsAre
<1>3. ParseEqEntries(Payload(catalogue))[k] = entry
  BY ListParses
<1>4. GainsAllowed(entry, gains)
  BY <1>3, Zenon DEF StoreEntry, EncodeEqDetail
<1>5. /\ ReadBack(EncodeEqDetail(entry, gains)) = <<stored>>
      /\ stored \in Entry /\ Sound(stored)
      /\ ProperBands(stored.bands, stored.min, stored.max)
      /\ stored.id = entry.id
  BY <1>1, <1>2, <1>4, StoreReadBack
<1>6. catalogue' = [j \in 1..n |-> next(j)]
  <2>1. catalogue' = [j \in DOMAIN catalogue |->
                        IF j = k THEN [ReadBack(EncodeEqDetail(entry, gains))[1]
                                          EXCEPT !.selected = TRUE]
                        ELSE [catalogue[j] EXCEPT !.selected = FALSE]]
    BY <1>3, Zenon DEF StoreEntry
  <2>2. ReadBack(EncodeEqDetail(entry, gains))[1] = stored
    <3>. HIDE DEF stored
    <3>. QED
      BY <1>5
  <2>. QED
    BY <1>1, <2>1, <2>2, Zenon
<1>. HIDE DEF stored
<1>7. /\ new \in Entry /\ Sound(new) /\ ProperBands(new.bands, new.min, new.max)
      /\ new.id = entry.id
  <2>1. /\ new \in Entry /\ new.id = stored.id /\ new.name = stored.name
        /\ new.min = stored.min /\ new.max = stored.max /\ new.bands = stored.bands
    BY <1>5, SelectedIs
  <2>. HIDE DEF new
  <2>. QED
    BY <1>5, <2>1, Zenon DEF Sound, Small
<1>8. ASSUME NEW j \in 1..n
      PROVE  /\ others(j) \in Entry /\ Sound(others(j))
             /\ ProperBands(others(j).bands, others(j).min, others(j).max)
             /\ others(j).id = catalogue[j].id
  <2>. DEFINE old == catalogue[j]
              other == [old EXCEPT !.selected = FALSE]
  <2>1. old \in Entry /\ Sound(old) /\ ProperBands(old.bands, old.min, old.max)
    BY <1>1
  <2>. HIDE DEF old
  <2>2. /\ other \in Entry /\ other.id = old.id /\ other.name = old.name
        /\ other.min = old.min /\ other.max = old.max /\ other.bands = old.bands
    BY <2>1, SelectedIs
  <2>3. others(j) = other
    BY Zenon DEF old
  <2>. HIDE DEF other, others
  <2>4. /\ other \in Entry /\ Sound(other)
        /\ ProperBands(other.bands, other.min, other.max) /\ other.id = old.id
    BY <2>1, <2>2, Zenon DEF Sound, Small
  <2>. QED
    BY <2>3, <2>4, Zenon DEF old
<1>. HIDE DEF new, others
<1>9. \A j \in 1..n :
         /\ next(j) \in Entry /\ Sound(next(j))
         /\ ProperBands(next(j).bands, next(j).min, next(j).max)
         /\ next(j).id = catalogue[j].id
  BY <1>7, <1>8, Zenon
<1>. DEFINE after == [j \in 1..n |-> next(j)]
<1>. HIDE DEF next, n
<1>10. after \in [1..n -> Entry] /\ \A j \in 1..n : after[j] = next(j)
  BY <1>9
<1>11. after \in Seq(Entry) /\ Len(after) = n /\ DOMAIN after = 1..n
  BY <1>1, <1>10, SeqDef, LenProperties
<1>12. AllSound(after)
  <2>1. n < Full
    BY <1>1 DEF AllSound, n
  <2>. QED
    BY <1>9, <1>10, <1>11, <2>1, Zenon DEF AllSound
<1>13. AllProper(after)
  BY <1>9, <1>10, <1>11, Zenon DEF AllProper
<1>14. Different(after)
  <2>. SUFFICES ASSUME NEW i \in 1..n, NEW j \in 1..n, after[j].id = after[i].id PROVE i = j
    BY <1>11, Zenon DEF Different
  <2>1. catalogue[j].id = catalogue[i].id
    BY <1>9, <1>10, Zenon
  <2>. QED
    BY <1>1, <2>1, Zenon DEF Different
<1>15. ProperList(after)
  BY <1>11, <1>12, <1>13, <1>14, ProperIs
<1>16. catalogue' = after
  BY <1>6
<1>. HIDE DEF after
<1>. QED
  BY <1>11, <1>15, <1>16, Zenon DEF ListIsProper, ProperList

LEMMA StepKeepsProper == ListIsProper /\ [Stores]_catalogue => ListIsProper'
<1>. SUFFICES ASSUME ListIsProper, [Stores]_catalogue PROVE ListIsProper'
  OBVIOUS
<1>1. CASE Stores
  BY <1>1, StoreKeepsProper DEF Stores
<1>2. CASE UNCHANGED catalogue
  BY <1>2 DEF ListIsProper, ProperList
<1>. QED
  BY <1>1, <1>2

\* What the rules say is enough for ParsedIsSent.
LEMMA ProperParses == ListIsProper => ParsedIsSent
<1>. SUFFICES ASSUME ListIsProper PROVE ParsedIsSent
  OBVIOUS
<1>1. ParseEqEntries(Payload(catalogue)) = catalogue /\ AllSound(catalogue)
  BY ListParses
<1>2. Payload(catalogue) \in Seq(Byte)
  BY <1>1, PayloadIs DEF ListIsProper
<1>3. ASSUME NEW bytes \in Damage(Payload(catalogue)), ParseEqEntries(bytes) # Nothing
      PROVE  LET entries == ParseEqEntries(bytes) IN
             /\ Payload(entries) = bytes
             /\ \A i, j \in DOMAIN entries : entries[i].id = entries[j].id => i = j
             /\ \A i \in DOMAIN entries :
                 ProperBands(entries[i].bands, entries[i].min, entries[i].max)
  <2>. DEFINE entries == ParseEqEntries(bytes)
  <2>1. bytes \in Seq(Byte)
    BY <1>2, DamageIsBytes
  <2>2. /\ entries \in Seq(Entry) /\ AllProper(entries) /\ Different(entries)
        /\ Payload(entries) = bytes
    BY <1>3, <2>1, ParsedMeans
  <2>. HIDE DEF entries
  <2>3. DOMAIN entries = 1..Len(entries)
    BY <2>2, LenProperties
  <2>4. \A i \in DOMAIN entries :
           ProperBands(entries[i].bands, entries[i].min, entries[i].max)
    BY <2>2, <2>3, Zenon DEF AllProper
  <2>5. \A i, j \in DOMAIN entries : entries[i].id = entries[j].id => i = j
    BY <2>2, Zenon DEF Different
  <2>. QED
    BY <2>2, <2>4, <2>5, Zenon DEF entries
<1>. QED
  BY <1>1, <1>3, Zenon DEF ParsedIsSent

\* And for StoreChangesGainsOnly.
LEMMA ProperStores == ListIsProper => StoreChangesGainsOnly
<1>. SUFFICES ASSUME ListIsProper, NEW k \in DOMAIN catalogue, NEW gains \in SeqOf(Gain, MaxGains)
              PROVE  LET entry == catalogue[k]
                         bytes == EncodeEqDetail(entry, gains)
                     IN IF bytes # Nothing
                        THEN ReadBack(bytes)
                             = <<WithGains([entry EXCEPT !.selected = FALSE], gains)>>
                        ELSE \/ Len(gains) # Len(entry.bands)
                             \/ ParseEqEntries(Payload(<<WithGains(entry, gains)>>)) = Nothing
  BY Zenon DEF StoreChangesGainsOnly
<1>. DEFINE entry == catalogue[k]
            bytes == EncodeEqDetail(entry, gains)
<1>1. entry \in Entry /\ Sound(entry) /\ ProperBands(entry.bands, entry.min, entry.max)
  BY ListParses
<1>2. gains \in Seq(Gain)
  BY GainsAre
<1>. HIDE DEF entry
<1>3. CASE GainsAllowed(entry, gains)
  <2>. DEFINE changed == WithGains(entry, gains)
              other == [changed EXCEPT !.selected = FALSE]
              off == [entry EXCEPT !.selected = FALSE]
              changedOff == WithGains(off, gains)
  <2>1. bytes # Nothing /\ ReadBack(bytes) = <<other>> /\ Len(gains) = Len(entry.bands)
    BY <1>1, <1>2, <1>3, StoreReadBack
  <2>2. /\ changed \in Entry /\ changed.id = entry.id /\ changed.name = entry.name
        /\ changed.min = entry.min /\ changed.max = entry.max
        /\ changed.bands = Regained(entry.bands, gains)
    BY <1>1, <1>2, <2>1, WithGainsIs
  <2>3. /\ off \in Entry /\ off.id = entry.id /\ off.name = entry.name
        /\ off.selected = FALSE
        /\ off.min = entry.min /\ off.max = entry.max /\ off.bands = entry.bands
    BY <1>1, SelectedIs
  <2>. HIDE DEF changed, off
  <2>4. /\ changedOff \in Entry /\ changedOff.id = entry.id /\ changedOff.name = entry.name
        /\ changedOff.selected = FALSE
        /\ changedOff.min = entry.min /\ changedOff.max = entry.max
        /\ changedOff.bands = Regained(entry.bands, gains)
    BY <1>2, <2>1, <2>3, WithGainsIs
  <2>5. other = [id |-> changed.id, name |-> changed.name, selected |-> FALSE,
                 min |-> changed.min, max |-> changed.max, bands |-> changed.bands]
    BY <2>2, SelectedIs
  <2>. HIDE DEF changedOff
  <2>6. changedOff = [id |-> changedOff.id, name |-> changedOff.name,
                      selected |-> changedOff.selected,
                      min |-> changedOff.min, max |-> changedOff.max,
                      bands |-> changedOff.bands]
    BY <2>4 DEF Entry
  <2>7. other = changedOff
    BY <2>2, <2>4, <2>5, <2>6, Zenon
  <2>8. ReadBack(bytes) = <<changedOff>>
    BY <2>1, <2>7, Zenon
  <2>. QED
    BY <2>1, <2>8, Zenon DEF entry, changedOff, off
<1>4. CASE ~GainsAllowed(entry, gains)
  <2>1. /\ bytes = Nothing
        /\ \/ Len(gains) # Len(entry.bands)
           \/ ParseEqEntries(Payload(<<WithGains(entry, gains)>>)) = Nothing
    BY <1>1, <1>2, <1>4, StoreRefused
  <2>. QED
    BY <2>1, Zenon DEF entry
<1>. QED
  BY <1>3, <1>4

\* The earbuds hold a list that keeps to the rules, after any number of stores.
THEOREM ListAlwaysProper == EqSpec => []ListIsProper
BY InitListIsProper, StepKeepsProper, PTL DEF EqSpec

\* What the earbuds hold is what parse_eq_entries says; damaged bytes are refused, or
\* are themselves the payload of the list that is parsed, and that list keeps to the rules.
THEOREM ParsedAlwaysSent == EqSpec => []ParsedIsSent
BY ListAlwaysProper, ProperParses, PTL

\* What encode_eq_detail_payload writes is the entry with its gains exchanged, and
\* what it refuses is what the earbuds could not hold.
THEOREM StoresAlwaysChangeGainsOnly == EqSpec => []StoreChangesGainsOnly
BY ListAlwaysProper, ProperStores, PTL
==============================================================================
