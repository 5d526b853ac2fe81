---------------------------- MODULE OpoWireProofs ----------------------------
(***************************************************************************)
(* What a receive takes from the frames that have arrived and what it      *)
(* leaves, for the proofs about the sessions that use the link.            *)
(*                                                                         *)
(* Also induction over numbers and sizes, and what a recursive function    *)
(* computes, without operators as parameters: the predicates are sets and  *)
(* the right-hand sides of definitions are functions.                      *)
(***************************************************************************)
EXTENDS OpoWire, SequenceTheorems, FiniteSetTheorems, TLAPS

\* The frames of a chunk are the first that arrived, in the same order.
LEMMA ChunkFrames ==
    ASSUME NEW S, NEW arrived \in Seq(S), NEW n \in 0..Len(arrived)
    PROVE  /\ Chunk(arrived, n) \in Seq(S)
           /\ DOMAIN Chunk(arrived, n) = 1..n
           /\ \A i \in 1..n : Chunk(arrived, n)[i] = arrived[i] /\ i \in DOMAIN arrived
<1>1. Len(arrived) \in Nat /\ \A i \in 1..Len(arrived) : arrived[i] \in S
  BY LenProperties, ElementOfSeq
<1>2. DOMAIN arrived = 1..Len(arrived)
  BY LenProperties
<1>3. n \in Int /\ 1 \in Int /\ \A i \in 1..n : arrived[i] \in S
  BY <1>1
<1>4. /\ SubSeq(arrived, 1, n) \in Seq(S)
      /\ Len(SubSeq(arrived, 1, n)) = IF 1 <= n THEN n - 1 + 1 ELSE 0
      /\ \A i \in 1..(n - 1 + 1) : SubSeq(arrived, 1, n)[i] = arrived[1 + i - 1]
  BY <1>3, SubSeqProperties
<1>5. Len(SubSeq(arrived, 1, n)) = n
  BY <1>1, <1>4
<1>6. DOMAIN SubSeq(arrived, 1, n) = 1..n
  BY <1>4, <1>5, LenProperties
<1>. QED
  BY <1>1, <1>2, <1>4, <1>6 DEF Chunk

\* Those unread are the others, in the same order.
LEMMA UnreadFrames ==
    ASSUME NEW S, NEW arrived \in Seq(S), NEW n \in 0..Len(arrived)
    PROVE  /\ Unread(arrived, n) \in Seq(S)
           /\ DOMAIN Unread(arrived, n) = 1..(Len(arrived) - n)
           /\ \A i \in 1..(Len(arrived) - n) :
                 Unread(arrived, n)[i] = arrived[n + i] /\ n + i \in DOMAIN arrived
<1>. DEFINE m == Len(arrived)
<1>1. m \in Nat /\ \A i \in 1..m : arrived[i] \in S
  BY LenProperties, ElementOfSeq
<1>2. DOMAIN arrived = 1..m
  BY LenProperties
<1>. HIDE DEF m
<1>3. n + 1 \in Int /\ m \in Int /\ \A i \in (n + 1)..m : arrived[i] \in S
  BY <1>1 DEF m
<1>4. /\ SubSeq(arrived, n + 1, m) \in Seq(S)
      /\ Len(SubSeq(arrived, n + 1, m)) = IF n + 1 <= m THEN m - (n + 1) + 1 ELSE 0
      /\ \A i \in 1..(m - (n + 1) + 1) :
            SubSeq(arrived, n + 1, m)[i] = arrived[(n + 1) + i - 1]
  BY <1>3, SubSeqProperties
<1>5. n \in 0..m
  BY DEF m
<1>6. Len(SubSeq(arrived, n + 1, m)) = m - n
  BY <1>1, <1>4, <1>5
<1>7. DOMAIN SubSeq(arrived, n + 1, m) = 1..(m - n)
  BY <1>4, <1>6, LenProperties
<1>8. \A i \in 1..(m - n) : (n + 1) + i - 1 = n + i /\ n + i \in 1..m
                            /\ i \in 1..(m - (n + 1) + 1)
  BY <1>1, <1>5
<1>. QED
  BY <1>2, <1>4, <1>7, <1>8 DEF Unread, m

\* A frame behind the others.
LEMMA OneMoreFrame ==
    ASSUME NEW S, NEW arrived \in Seq(S), NEW frame \in S
    PROVE  /\ Append(arrived, frame) \in Seq(S)
           /\ DOMAIN Append(arrived, frame) = 1..(Len(arrived) + 1)
           /\ \A i \in DOMAIN arrived : Append(arrived, frame)[i] = arrived[i]
           /\ Append(arrived, frame)[Len(arrived) + 1] = frame
           /\ DOMAIN arrived = 1..Len(arrived) /\ Len(arrived) \in Nat
           /\ Len(Append(arrived, frame)) = Len(arrived) + 1
BY AppendProperties, LenProperties

\* The frames behind the first.
LEMMA OneFrameLess ==
    ASSUME NEW S, NEW arrived \in Seq(S), arrived # <<>>
    PROVE  /\ Head(arrived) \in S /\ Head(arrived) = arrived[1] /\ 1 \in DOMAIN arrived
           /\ Tail(arrived) \in Seq(S)
           /\ Len(arrived) \in Nat \ {0} /\ Len(Tail(arrived)) = Len(arrived) - 1
           /\ DOMAIN Tail(arrived) = 1..(Len(arrived) - 1)
           /\ \A i \in DOMAIN Tail(arrived) :
                 Tail(arrived)[i] = arrived[i + 1] /\ i + 1 \in DOMAIN arrived
<1>1. /\ Head(arrived) \in S /\ Tail(arrived) \in Seq(S)
      /\ Len(Tail(arrived)) = Len(arrived) - 1
      /\ \A i \in 1..Len(Tail(arrived)) : Tail(arrived)[i] = arrived[i + 1]
  BY HeadTailProperties
<1>2. Len(arrived) \in Nat \ {0}
  BY EmptySeq
<1>3. DOMAIN Tail(arrived) = 1..(Len(arrived) - 1) /\ DOMAIN arrived = 1..Len(arrived)
  BY <1>1, LenProperties
<1>. QED
  BY <1>1, <1>2, <1>3

LEMMA SequenceCounts ==
    ASSUME NEW s \in SequenceNumbers
    PROVE  NextSequence(s) \in SequenceNumbers /\ s # 0 /\ 1 \in SequenceNumbers
BY LastSequenceAssumption DEF SequenceNumbers, NextSequence

\* Some index is the last: otherwise k + 1 would map the indices below one of a finite
\* set one to one to those that are not 1.
LEMMA LastIndex ==
    ASSUME NEW n \in Nat, NEW indices \in SUBSET (1..n), indices # {}
    PROVE  /\ \E i \in indices : \A j \in indices : j <= i
           /\ Max(indices) \in indices /\ \A j \in indices : j <= Max(indices)
<1>1. \E i \in indices : \A j \in indices : j <= i
  <2>. SUFFICES ASSUME \A i \in indices : \E j \in indices : ~(j <= i) PROVE FALSE
    OBVIOUS
  <2>. DEFINE below == {k \in 1..n : \E i \in indices : k <= i}
              above == below \ {1}
              next == [k \in below |-> k + 1]
  <2>1. IsFiniteSet(below)
    <3>1. IsFiniteSet(1..n)
      BY FS_Interval
    <3>. QED
      BY <3>1, FS_Subset
  <2>2. 1 \in below
    <3>1. PICK i \in indices : TRUE
      OBVIOUS
    <3>. QED
      BY <3>1
  <2>3. IsFiniteSet(above) /\ Cardinality(above) = Cardinality(below) - 1
        /\ Cardinality(below) \in Nat
    BY <2>1, <2>2, FS_RemoveElement, FS_CardinalityType
  <2>4. next \in [below -> above]
    <3>1. ASSUME NEW k \in below PROVE k + 1 \in above
      <4>1. PICK i \in indices : k <= i
        OBVIOUS
      <4>2. PICK j \in indices : ~(j <= i)
        OBVIOUS
      <4>. QED
        BY <4>1, <4>2
    <3>. QED
      BY <3>1
  <2>5. PICK k \in below, l \in below : k # l /\ next[k] = next[l]
    <3>. HIDE DEF below, above, next
    <3>. QED
      BY <2>1, <2>3, <2>4, FS_PigeonHole
  <2>. QED
    BY <2>5
<1>2. \E i \in indices : \A j \in indices : i >= j
  BY <1>1
<1>3. Max(indices) \in indices /\ \A j \in indices : Max(indices) >= j
  BY <1>2 DEF Max
<1>. QED
  BY <1>1, <1>3

\* And some the first.
LEMMA FirstIndex ==
    ASSUME NEW n \in Nat, NEW indices \in SUBSET (1..n), indices # {}
    PROVE  \E i \in indices : \A j \in indices : i <= j
<1>. DEFINE mirrored == {k \in 1..n : n + 1 - k \in indices}
<1>1. mirrored # {}
  <2>1. PICK i \in indices : TRUE
    OBVIOUS
  <2>2. n + 1 - i \in 1..n /\ n + 1 - (n + 1 - i) = i
    OBVIOUS
  <2>. QED
    BY <2>1, <2>2
<1>2. PICK k \in mirrored : \A l \in mirrored : l <= k
  <2>. HIDE DEF mirrored
  <2>1. mirrored \in SUBSET (1..n)
    BY DEF mirrored
  <2>. QED
    BY <1>1, <2>1, LastIndex
<1>3. ASSUME NEW j \in indices PROVE n + 1 - k <= j
  <2>1. n + 1 - j \in 1..n /\ n + 1 - (n + 1 - j) = j
    OBVIOUS
  <2>2. n + 1 - j \in mirrored
    BY <2>1
  <2>. QED
    BY <1>2, <2>1, <2>2
<1>. QED
  BY <1>2, <1>3

\* Induction over the natural numbers: the first number that is missing from a set would
\* have to follow one that is not.
LEMMA Induction ==
    ASSUME NEW S, 0 \in S, \A n \in Nat : n \in S => n + 1 \in S
    PROVE  Nat \subseteq S
<1>. SUFFICES ASSUME NEW n \in Nat, n \notin S PROVE FALSE
  OBVIOUS
<1>. DEFINE missing == {k \in 1..(n + 1) : k - 1 \notin S}
<1>1. PICK k \in missing : \A l \in missing : k <= l
  <2>1. missing \in SUBSET (1..(n + 1)) /\ n + 1 \in missing /\ n + 1 \in Nat
    OBVIOUS
  <2>. HIDE DEF missing
  <2>. QED
    BY <2>1, FirstIndex
<1>2. k \in 1..(n + 1) /\ k - 1 \notin S /\ k # 1
  OBVIOUS
<1>3. k - 1 \in 1..(n + 1) /\ ~(k <= k - 1) /\ k - 2 \in Nat /\ (k - 2) + 1 = k - 1
      /\ (k - 1) - 1 = k - 2
  BY <1>2
<1>4. k - 1 \notin missing
  BY <1>1, <1>3
<1>5. k - 2 \in S
  BY <1>3, <1>4
<1>. QED
  BY <1>2, <1>3, <1>5

\* Induction over anything that has a size.
LEMMA SizeInduction ==
    ASSUME NEW D, NEW size \in [D -> Nat], NEW S,
           \A x \in D : (\A y \in D : size[y] < size[x] => y \in S) => x \in S
    PROVE  D \subseteq S
<1>. DEFINE Done == {n \in Nat : \A x \in D : size[x] < n => x \in S}
<1>1. 0 \in Done
  OBVIOUS
<1>2. ASSUME NEW n \in Nat, n \in Done PROVE n + 1 \in Done
  <2>. SUFFICES ASSUME NEW x \in D, size[x] < n + 1 PROVE x \in S
    OBVIOUS
  <2>1. ASSUME NEW y \in D, size[y] < size[x] PROVE y \in S
    <3>1. size[y] < n
      BY <2>1
    <3>. QED
      BY <1>2, <3>1
  <2>. QED
    BY <2>1
<1>3. Nat \subseteq Done
  <2>. HIDE DEF Done
  <2>. QED
    BY <1>1, <1>2, Induction
<1>4. ASSUME NEW x \in D PROVE x \in S
  <2>1. size[x] \in Nat /\ size[x] + 1 \in Nat /\ size[x] < size[x] + 1
    OBVIOUS
  <2>. QED
    BY <1>3, <2>1
<1>. QED
  BY <1>4

\* A recursive definition, body mapping a function to the one that the right-hand side
\* defines from it, that asks only for values at what is smaller.
AsksForSmaller(D, V, size, body) ==
    /\ V # {}
    /\ size \in [D -> Nat]
    /\ body \in [[D -> V] -> [D -> V]]
    /\ \A f, g \in [D -> V], x \in D :
          (\A y \in D : size[y] < size[x] => f[y] = g[y]) => body[f][x] = body[g][x]

\* Such a definition has a solution.
LEMMA Recursion ==
    ASSUME NEW D, NEW V, NEW size, NEW body, AsksForSmaller(D, V, size, body)
    PROVE  \E f \in [D -> V] : f = body[f]
<1>. SUFFICES ASSUME V # {}, size \in [D -> Nat], body \in [[D -> V] -> [D -> V]],
                     \A f, g \in [D -> V], x \in D :
                        (\A y \in D : size[y] < size[x] => f[y] = g[y])
                        => body[f][x] = body[g][x]
              PROVE  \E f \in [D -> V] : f = body[f]
  BY DEF AsksForSmaller
<1>. DEFINE Solves(f, n) == \A x \in D : size[x] < n => f[x] = body[f][x]
<1>1. \A n \in Nat : \E f \in [D -> V] : Solves(f, n)
  <2>. DEFINE Solved == {n \in Nat : \E f \in [D -> V] : Solves(f, n)}
  <2>1. 0 \in Solved
    <3>1. PICK v \in V : TRUE
      OBVIOUS
    <3>2. [x \in D |-> v] \in [D -> V] /\ Solves([x \in D |-> v], 0)
      OBVIOUS
    <3>. QED
      BY <3>2
  <2>2. ASSUME NEW n \in Nat, n \in Solved PROVE n + 1 \in Solved
    <3>1. PICK f \in [D -> V] : Solves(f, n)
      BY <2>2
    <3>2. body[f] \in [D -> V]
      OBVIOUS
    <3>3. ASSUME NEW x \in D, size[x] < n + 1 PROVE body[f][x] = body[body[f]][x]
      <4>1. ASSUME NEW y \in D, size[y] < size[x] PROVE f[y] = body[f][y]
        <5>1. size[y] < n
          BY <3>3, <4>1
        <5>. QED
          BY <3>1, <5>1
      <4>. QED
        BY <3>2, <4>1
    <3>. QED
      BY <3>2, <3>3
  <2>3. Nat \subseteq Solved
    <3>. HIDE DEF Solved
    <3>. QED
      BY <2>1, <2>2, Induction
  <2>. QED
    BY <2>3
<1>2. \A f, g \in [D -> V], m, n \in Nat :
        Solves(f, m) /\ Solves(g, n)
        => \A x \in D : size[x] < m /\ size[x] < n => f[x] = g[x]
  <2>. HIDE DEF Solves
  <2>. SUFFICES ASSUME NEW f \in [D -> V], NEW g \in [D -> V], NEW m \in Nat, NEW n \in Nat,
                       Solves(f, m), Solves(g, n)
                PROVE  \A x \in D : size[x] < m /\ size[x] < n => f[x] = g[x]
    OBVIOUS
  <2>. DEFINE Same == {x \in D : size[x] < m /\ size[x] < n => f[x] = g[x]}
  <2>1. ASSUME NEW x \in D, \A y \in D : size[y] < size[x] => y \in Same PROVE x \in Same
    <3>. SUFFICES ASSUME size[x] < m, size[x] < n PROVE f[x] = g[x]
      OBVIOUS
    <3>1. ASSUME NEW y \in D, size[y] < size[x] PROVE f[y] = g[y]
      <4>1. size[y] < m /\ size[y] < n
        BY <3>1
      <4>. QED
        BY <2>1, <3>1, <4>1
    <3>2. body[f][x] = body[g][x]
      BY <3>1
    <3>3. f[x] = body[f][x] /\ g[x] = body[g][x]
      BY DEF Solves
    <3>. QED
      BY <3>2, <3>3
  <2>2. D \subseteq Same
    <3>. HIDE DEF Same
    <3>. QED
      BY <2>1, SizeInduction
  <2>. QED
    BY <2>2
<1>. DEFINE Solution(n) == CHOOSE f \in [D -> V] : Solves(f, n)
            whole == [x \in D |-> Solution(size[x] + 1)[x]]
<1>3. \A n \in Nat : Solution(n) \in [D -> V] /\ Solves(Solution(n), n)
  BY <1>1
<1>. HIDE DEF Solution
<1>4. \A x \in D : size[x] \in Nat /\ size[x] + 1 \in Nat /\ size[x] < size[x] + 1
  OBVIOUS
<1>5. whole \in [D -> V]
  BY <1>3, <1>4
<1>6. ASSUME NEW n \in Nat, NEW x \in D, size[x] < n PROVE whole[x] = Solution(n)[x]
  <2>1. whole[x] = Solution(size[x] + 1)[x]
    OBVIOUS
  <2>2. \A y \in D : size[y] < size[x] + 1 /\ size[y] < n
                    => Solution(size[x] + 1)[y] = Solution(n)[y]
    <3>. DEFINE m == size[x] + 1
    <3>1. m \in Nat /\ n \in Nat
      BY <1>4
    <3>. HIDE DEF m, Solves
    <3>2. /\ Solution(m) \in [D -> V] /\ Solves(Solution(m), m)
          /\ Solution(n) \in [D -> V] /\ Solves(Solution(n), n)
      BY <1>3, <3>1
    <3>3. \A y \in D : size[y] < m /\ size[y] < n => Solution(m)[y] = Solution(n)[y]
      BY <1>2, <3>1, <3>2
    <3>. QED
      BY <3>3 DEF m
  <2>. QED
    BY <1>4, <1>6, <2>1, <2>2
<1>7. ASSUME NEW x \in D PROVE whole[x] = body[whole][x]
  <2>. DEFINE n == size[x] + 1
  <2>1. n \in Nat /\ Solution(n) \in [D -> V] /\ whole[x] = Solution(n)[x]
        /\ Solution(n)[x] = body[Solution(n)][x]
    BY <1>3, <1>4
  <2>2. ASSUME NEW y \in D, size[y] < size[x] PROVE whole[y] = Solution(n)[y]
    <3>1. size[y] < n
      BY <1>4, <2>2
    <3>. QED
      BY <1>6, <2>1, <3>1
  <2>. HIDE DEF n, whole
  <2>3. body[whole][x] = body[Solution(n)][x]
    BY <1>5, <2>1, <2>2
  <2>. QED
    BY <2>1, <2>3
<1>8. whole = body[whole]
  <2>1. body[whole] \in [D -> V]
    BY <1>5
  <2>. HIDE DEF whole
  <2>. QED
    BY <1>5, <1>7, <2>1
<1>. HIDE DEF whole
<1>. QED
  BY <1>5, <1>8

\* The reply that a chunk has is the first frame that answers.
LEMMA FirstAnswer ==
    ASSUME NEW S, NEW chunk \in Seq(S), NEW want, HasReply(chunk, want)
    PROVE  \E i \in DOMAIN chunk : IsReplyAt(chunk, want, i)
<1>. DEFINE answers == {i \in DOMAIN chunk : Answers(chunk[i], want)}
<1>1. DOMAIN chunk = 1..Len(chunk) /\ Len(chunk) \in Nat
  BY LenProperties
<1>2. answers # {} /\ answers \in SUBSET (1..Len(chunk))
  BY <1>1 DEF HasReply
<1>3. PICK i \in answers : \A j \in answers : i <= j
  <2>. HIDE DEF answers
  <2>. QED
    BY <1>1, <1>2, FirstIndex
<1>. QED
  BY <1>1, <1>3 DEF IsReplyAt

\* Every frame but the reply is passed on: none that arrived is lost.
LEMMA OtherFrames ==
    ASSUME NEW S, NEW chunk \in Seq(S), NEW want,
           NEW k \in DOMAIN chunk, ~Answers(chunk[k], want)
    PROVE  \E j \in DOMAIN Others(chunk, want) : Others(chunk, want)[j] = chunk[k]
<1>1. CASE ~HasReply(chunk, want)
  BY <1>1 DEF Others
<1>2. CASE HasReply(chunk, want)
  <2>. DEFINE reply == CHOOSE i \in DOMAIN chunk : IsReplyAt(chunk, want, i)
  <2>1. reply \in DOMAIN chunk /\ IsReplyAt(chunk, want, reply)
    BY <1>2, FirstAnswer
  <2>2. Others(chunk, want) = RemoveAt(chunk, reply)
    BY <1>2 DEF Others
  <2>. HIDE DEF reply
  <2>. DEFINE before == Chunk(chunk, reply - 1)
              behind == Unread(chunk, reply)
  <2>3. DOMAIN chunk = 1..Len(chunk) /\ Len(chunk) \in Nat
    BY LenProperties
  <2>4. reply \in 1..Len(chunk) /\ reply - 1 \in 0..Len(chunk) /\ reply \in 0..Len(chunk)
        /\ k \in 1..Len(chunk) /\ k # reply
    BY <2>1, <2>3 DEF IsReplyAt
  <2>5. /\ before \in Seq(S) /\ DOMAIN before = 1..(reply - 1)
        /\ \A i \in 1..(reply - 1) : before[i] = chunk[i]
    BY <2>4, ChunkFrames
  <2>6. /\ behind \in Seq(S) /\ DOMAIN behind = 1..(Len(chunk) - reply)
        /\ \A i \in 1..(Len(chunk) - reply) : behind[i] = chunk[reply + i]
    BY <2>4, UnreadFrames
  <2>7. Others(chunk, want) = before \o behind
    <3>1. before = SubSeq(chunk, 1, reply - 1) /\ behind = SubSeq(chunk, reply + 1, Len(chunk))
      BY DEF Chunk, Unread
    <3>2. RemoveAt(chunk, reply)
          = SubSeq(chunk, 1, reply - 1) \o SubSeq(chunk, reply + 1, Len(chunk))
      BY DEF RemoveAt
    <3>. QED
      BY <2>2, <3>1, <3>2
  <2>. HIDE DEF before, behind
  <2>8. Len(before) = reply - 1 /\ Len(behind) = Len(chunk) - reply
    <3>1. DOMAIN before = 1..Len(before) /\ Len(before) \in Nat
          /\ DOMAIN behind = 1..Len(behind) /\ Len(behind) \in Nat
      BY <2>5, <2>6, LenProperties
    <3>2. \A p, q \in Nat : 1..p = 1..q => p = q
      OBVIOUS
    <3>3. reply - 1 \in Nat /\ Len(chunk) - reply \in Nat
      BY <2>3, <2>4
    <3>. QED
      BY <2>5, <2>6, <3>1, <3>2, <3>3
  <2>9. /\ before \o behind \in Seq(S) /\ Len(before \o behind) = Len(before) + Len(behind)
        /\ \A i \in 1..(Len(before) + Len(behind)) :
              (before \o behind)[i] = IF i <= Len(before) THEN before[i]
                                      ELSE behind[i - Len(before)]
    BY <2>5, <2>6, ConcatProperties
  <2>10. DOMAIN (before \o behind) = 1..(Len(chunk) - 1)
    <3>1. DOMAIN (before \o behind) = 1..Len(before \o behind)
      BY <2>9, LenProperties
    <3>2. Len(before \o behind) = Len(chunk) - 1
      BY <2>3, <2>4, <2>8, <2>9
    <3>. QED
      BY <3>1, <3>2
  <2>11. CASE k < reply
    <3>1. k \in 1..(Len(chunk) - 1) /\ (before \o behind)[k] = chunk[k]
      BY <2>3, <2>4, <2>5, <2>8, <2>9, <2>11
    <3>. QED
      BY <2>7, <2>10, <3>1
  <2>12. CASE k > reply
    <3>1. /\ k - 1 \in 1..(Len(chunk) - 1) /\ ~(k - 1 <= Len(before))
          /\ k - 1 \in 1..(Len(before) + Len(behind))
          /\ k - 1 - Len(before) = k - reply /\ k - reply \in 1..(Len(chunk) - reply)
          /\ reply + (k - reply) = k
      BY <2>3, <2>4, <2>8, <2>12
    <3>2. (before \o behind)[k - 1] = chunk[k]
      BY <2>6, <2>9, <3>1
    <3>. QED
      BY <2>7, <2>10, <3>1, <3>2
  <2>. QED
    BY <2>4, <2>11, <2>12
<1>. QED
  BY <1>1, <1>2
==============================================================================
