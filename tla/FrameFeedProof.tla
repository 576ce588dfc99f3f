--------------------------- MODULE FrameFeedProof ---------------------------
(* What the abstract feed promises, for every set of samples.              *)
EXTENDS FrameFeed, SequenceTheorems, TLAPS

\* Leaving out the first elements of a sequence renumbers the others.
LEMMA FromProperties ==
  ASSUME NEW S, NEW q \in Seq(S), NEW n \in 1 .. Len(q) + 1
  PROVE  /\ From(q, n) \in Seq(S)
         /\ Len(From(q, n)) = Len(q) - n + 1
         /\ \A i \in 1 .. Len(q) - n + 1 : From(q, n)[i] = q[i + n - 1]
<1>1. Len(q) \in Nat
  BY LenProperties
<1>2. \A i \in n .. Len(q) : q[i] \in S
  BY <1>1, ElementOfSeq
<1>3. /\ SubSeq(q, n, Len(q)) \in Seq(S)
      /\ Len(SubSeq(q, n, Len(q))) = IF n <= Len(q) THEN Len(q) - n + 1 ELSE 0
      /\ \A i \in 1 .. Len(q) - n + 1 : SubSeq(q, n, Len(q))[i] = q[n + i - 1]
  BY <1>1, <1>2, SubSeqProperties
<1>4. \A i \in 1 .. Len(q) - n + 1 : n + i - 1 = i + n - 1
  BY <1>1
<1> QED
  BY <1>1, <1>3, <1>4 DEF From

\* What InOrder says of a queue, of its newest and of the last number seen.
Sorted(q, hi, lo) ==
  /\ \A i, j \in 1 .. Len(q) : i < j => q[i].frame < q[j].frame
  /\ \A i \in 1 .. Len(q) : lo < q[i].frame /\ q[i].frame <= hi
  /\ lo <= hi

\* A suffix of a sorted queue is sorted.
LEMMA SortedSuffix ==
  ASSUME NEW q \in Seq(Samples), NEW hi \in Int, NEW lo \in Int,
         Sorted(q, hi, lo), NEW n \in 1 .. Len(q) + 1
  PROVE  Sorted(From(q, n), hi, lo)
<1>1. Len(q) \in Nat
  BY LenProperties
<1> DEFINE t == From(q, n)
<1>2. /\ Len(t) = Len(q) - n + 1
      /\ \A i \in 1 .. Len(q) - n + 1 : t[i] = q[i + n - 1]
  BY FromProperties
<1> HIDE DEF t
<1>3. \A i \in 1 .. Len(t) : i + n - 1 \in 1 .. Len(q)
  BY <1>1, <1>2
<1>4. \A i \in 1 .. Len(t) : t[i] = q[i + n - 1]
  BY <1>1, <1>2
<1>5. ASSUME NEW i \in 1 .. Len(t), NEW j \in 1 .. Len(t), i < j
      PROVE  t[i].frame < t[j].frame
  <2>1. i + n - 1 < j + n - 1
    BY <1>1, <1>2, <1>5
  <2> QED
    BY <1>3, <1>4, <2>1 DEF Sorted
<1>6. ASSUME NEW i \in 1 .. Len(t)
      PROVE  lo < t[i].frame /\ t[i].frame <= hi
  BY <1>3, <1>4 DEF Sorted
<1>7. lo <= hi
  BY DEF Sorted
<1>8. Sorted(t, hi, lo)
  BY <1>5, <1>6, <1>7 DEF Sorted
<1> QED
  BY <1>8 DEF t

\* A sample that is newer than all of a sorted queue can be put at its end.
LEMMA SortedAppend ==
  ASSUME Numbered, NEW q \in Seq(Samples), NEW hi \in Int, NEW lo \in Int,
         Sorted(q, hi, lo), NEW s \in Samples, s.frame > hi
  PROVE  Append(q, s) \in Seq(Samples) /\ Sorted(Append(q, s), s.frame, lo)
<1>1. Len(q) \in Nat /\ s.frame \in Nat /\ \A i \in 1 .. Len(q) : q[i].frame \in Nat
  BY LenProperties, ElementOfSeq DEF Numbered
<1>2. /\ Append(q, s) \in Seq(Samples)
      /\ Len(Append(q, s)) = Len(q) + 1
      /\ \A i \in 1 .. Len(q) : Append(q, s)[i] = q[i]
      /\ Append(q, s)[Len(q) + 1] = s
  BY <1>1
<1> QED
  BY <1>1, <1>2 DEF Sorted

\* The front of a sorted queue is older than the rest.
LEMMA SortedHandOut ==
  ASSUME Numbered, NEW q \in Seq(Samples), NEW hi \in Int, NEW lo \in Int,
         Sorted(q, hi, lo), NEW n \in 1 .. Len(q)
  PROVE  Sorted(From(q, n + 1), hi, q[n].frame) /\ lo < q[n].frame
<1>1. Len(q) \in Nat /\ \A i \in 1 .. Len(q) : q[i].frame \in Nat
  BY LenProperties, ElementOfSeq DEF Numbered
<1>2. n + 1 \in 1 .. Len(q) + 1
  BY <1>1
<1>3. Sorted(From(q, n + 1), hi, lo)
  BY <1>2, SortedSuffix
<1> DEFINE t == From(q, n + 1)
<1>4. /\ Len(t) = Len(q) - (n + 1) + 1
      /\ \A i \in 1 .. Len(q) - (n + 1) + 1 : t[i] = q[i + (n + 1) - 1]
  BY <1>2, FromProperties
<1>5. \A i \in 1 .. Len(t) : t[i] = q[i + n] /\ i + n \in 1 .. Len(q) /\ n < i + n
  BY <1>1, <1>4
<1> HIDE DEF t
<1>6. \A i \in 1 .. Len(t) : q[n].frame < t[i].frame
  BY <1>5 DEF Sorted
<1>7. q[n].frame <= hi /\ lo < q[n].frame
  BY DEF Sorted
<1>8. Sorted(t, hi, lo)
  BY <1>3 DEF t
<1>9. Sorted(t, hi, q[n].frame)
  BY <1>6, <1>7, <1>8 DEF Sorted
<1> QED
  BY <1>7, <1>9 DEF t

-----------------------------------------------------------------------------
FeedInv == TypeOK /\ Sorted(queue, newest, seen)

LEMMA FeedInit == Init => FeedInv
<1> SUFFICES ASSUME Init PROVE FeedInv
  OBVIOUS
<1>1. queue \in Seq(Samples) /\ Len(queue) = 0
  BY EmptySeq DEF Init
<1> QED
  BY <1>1 DEF Init, FeedInv, TypeOK, Sorted

\* One step of the feed keeps the order and never hands out an old number.
LEMMA FeedStep ==
  ASSUME Numbered, FeedInv, [Next]_vars
  PROVE  FeedInv' /\ seen' >= seen
<1>0. queue \in Seq(Samples) /\ newest \in Int /\ seen \in Int /\ Len(queue) \in Nat
  BY LenProperties DEF FeedInv, TypeOK
<1>1. ASSUME NEW s \in Samples, Enter(s) PROVE FeedInv' /\ seen' >= seen
  <2>1. PICK n \in 1 .. Len(queue) + 2 : queue' = From(Append(queue, s), n)
    BY <1>1 DEF Enter
  <2> DEFINE q == Append(queue, s)
  <2>2. q \in Seq(Samples) /\ Sorted(q, s.frame, seen)
    BY <1>0, <1>1, SortedAppend DEF Enter, FeedInv
  <2>3. s.frame \in Nat
    BY DEF Numbered
  <2>4. n \in 1 .. Len(q) + 1 /\ queue' = From(q, n)
    BY <1>0, <2>1
  <2> HIDE DEF q
  <2>5. queue' \in Seq(Samples)
    BY <2>2, <2>4, FromProperties
  <2>6. Sorted(queue', s.frame, seen)
    BY <1>0, <2>2, <2>3, <2>4, SortedSuffix
  <2> QED
    BY <1>0, <1>1, <2>3, <2>5, <2>6 DEF Enter, FeedInv, TypeOK
<1>2. ASSUME NEW n \in 1 .. Len(queue), HandOut(n) PROVE FeedInv' /\ seen' >= seen
  <2>1. Sorted(queue', newest', seen') /\ seen < queue[n].frame
    BY <1>0, <1>2, SortedHandOut DEF HandOut, FeedInv
  <2>2. queue' \in Seq(Samples) /\ queue[n].frame \in Nat
    <3>1. n + 1 \in 1 .. Len(queue) + 1
      BY <1>0
    <3> QED
      BY <1>0, <1>2, <3>1, FromProperties, ElementOfSeq DEF HandOut, Numbered
  <2> QED
    BY <1>0, <1>2, <2>1, <2>2 DEF HandOut, FeedInv, TypeOK
<1>3. ASSUME NEW n \in 1 .. Len(queue), Forget(n) PROVE FeedInv' /\ seen' >= seen
  <2>1. n + 1 \in 1 .. Len(queue) + 1
    BY <1>0
  <2>2. queue' \in Seq(Samples) /\ Sorted(queue', newest, seen)
    BY <1>0, <1>3, <2>1, FromProperties, SortedSuffix DEF Forget, FeedInv
  <2> QED
    BY <1>0, <1>3, <2>2 DEF Forget, FeedInv, TypeOK
<1>4. CASE UNCHANGED vars
  BY <1>0, <1>4 DEF vars, FeedInv, TypeOK, Sorted
<1> QED
  BY <1>1, <1>2, <1>3, <1>4 DEF Next

\* Every behaviour of the feed keeps its samples in order.
THEOREM FeedInOrder == ASSUME Numbered PROVE Spec => [](TypeOK /\ InOrder)
<1>1. FeedInv /\ [Next]_vars => FeedInv'
  BY FeedStep
<1>2. FeedInv => TypeOK /\ InOrder
  BY DEF FeedInv, Sorted, InOrder
<1> QED
  BY FeedInit, <1>1, <1>2, PTL DEF Spec

\* The numbers that the feed hands out never go back.
THEOREM FeedNeverBack == ASSUME Numbered PROVE Spec => NeverBack
<1>1. FeedInv /\ [Next]_vars => FeedInv'
  BY FeedStep
<1>2. FeedInv /\ [Next]_vars => [seen' >= seen]_vars
  BY FeedStep
<1> QED
  BY FeedInit, <1>1, <1>2, PTL DEF Spec, NeverBack
=============================================================================
