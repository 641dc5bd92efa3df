------------------------ MODULE LimiterRotationProofs ------------------------
(***************************************************************************)
(* RateLimiter for any number of requests, permits and grants, and         *)
(* IpRotation for any tasks and any interval.                              *)
(*                                                                         *)
(* The limiter: what is left of request_times once the old entries are     *)
(* popped is the history of the last RateWindow, at every instant: popping *)
(* late, only when somebody asks, makes no difference.                     *)
(*                                                                         *)
(* The rotation: whoever is between the lock and its release is its        *)
(* holder, so nobody else runs a command meanwhile: what a rotation has    *)
(* achieved so far is still so at its next command.  And the stamp is      *)
(* renewed no later than a rotation completes, so it is never older than   *)
(* the last completion.                                                    *)
(*                                                                         *)
(* Both queues: who stands in one does so once, nobody who joins later     *)
(* comes before it, and each turn that is taken brings it nearer.          *)
(*                                                                         *)
(* The window: who is refused sleeps until a grant leaves it, no longer,   *)
(* and then one grant less is in its way.                                  *)
(***************************************************************************)
EXTENDS RateLimiter, IpRotation, FiniteSetTheorems, SequenceTheorems, TLAPS

LEMMA Constants ==
    /\ IsFiniteSet(Requests)
    /\ RateLimit \in Nat \ {0} /\ RateWindow \in Nat \ {0}
    /\ MaxConcurrency \in Nat \ {0} /\ BlockSeconds \in Nat \ {0}
BY RateLimiterAssumption DEF RateLimiterAssumption

-----------------------------------------------------------------------------
(***************************************************************************)
(* Popping.                                                                *)
(***************************************************************************)
Ages == 0 .. RateWindow

\* Older grants come first.
Sorted(times) == \A i, j \in 1 .. Len(times) : i <= j => times[i] >= times[j]

\* An initial segment of the numbers up to n is the numbers up to its size.
LEMMA InitialSegment ==
    ASSUME NEW n \in Nat, NEW S \in SUBSET (1 .. n),
           \A i \in S : \A j \in 1 .. i : j \in S
    PROVE  Cardinality(S) \in 0 .. n /\ S = 1 .. Cardinality(S)
<1> DEFINE c == Cardinality(S)
<1>1. IsFiniteSet(1 .. n) /\ Cardinality(1 .. n) = n
  BY FS_Interval
<1>2. IsFiniteSet(S) /\ c <= n
  BY <1>1, FS_Subset
<1>3. c \in Nat
  BY <1>2, FS_CardinalityType
<1>4. IsFiniteSet(1 .. c) /\ Cardinality(1 .. c) = c
  BY <1>3, FS_Interval
<1>5. S \subseteq 1 .. c
  <2> SUFFICES ASSUME NEW i \in S PROVE i \in 1 .. c
    OBVIOUS
  <2>1. i \in Nat /\ 1 <= i /\ 1 .. i \subseteq S
    OBVIOUS
  <2>2. Cardinality(1 .. i) = i
    BY <2>1, FS_Interval
  <2>3. i <= c
    BY <1>2, <2>1, <2>2, FS_Subset
  <2>4. QED
    BY <1>3, <2>1, <2>3
<1>6. S = 1 .. c
  BY <1>4, <1>5, FS_Subset
<1> HIDE DEF c
<1>7. QED
  BY <1>2, <1>3, <1>6 DEF c

\* The loop that pops stops somewhere, and at one place only.
LEMMA OldExists ==
    ASSUME NEW times \in Seq(Ages)
    PROVE  \E n \in 0 .. Len(times) : Old(times, n)
<1> DEFINE S == {i \in 1 .. Len(times) : \A j \in 1 .. i : times[j] >= RateWindow}
<1>1. Len(times) \in Nat
  OBVIOUS
<1>2. Cardinality(S) \in 0 .. Len(times) /\ S = 1 .. Cardinality(S)
  <2>1. \A i \in S : \A j \in 1 .. i : j \in S
    BY <1>1
  <2>2. S \in SUBSET (1 .. Len(times))
    OBVIOUS
  <2> HIDE DEF S
  <2>3. QED
    BY <1>1, <2>1, <2>2, InitialSegment
<1>3. PICK n : n = Cardinality(S)
  OBVIOUS
<1>4. \A i \in 1 .. n : times[i] >= RateWindow
  <2>1. \A i \in S : times[i] >= RateWindow
    OBVIOUS
  <2>2. QED
    BY <1>2, <1>3, <2>1
<1>5. n < Len(times) => times[n + 1] < RateWindow
  <2> SUFFICES ASSUME n < Len(times), times[n + 1] >= RateWindow PROVE FALSE
    <3>1. n + 1 \in 1 .. Len(times) => times[n + 1] \in Ages
      OBVIOUS
    <3>2. QED
      BY <1>1, <1>2, <1>3, <3>1, Constants DEF Ages
  <2>1. n + 1 \in S
    <3>1. n \in Nat /\ n + 1 \in 1 .. Len(times)
      BY <1>1, <1>2, <1>3
    <3>2. \A j \in 1 .. n + 1 : j \in 1 .. n \/ j = n + 1
      BY <3>1
    <3>3. \A j \in 1 .. n + 1 : times[j] >= RateWindow
      BY <1>4, <3>2
    <3>4. QED
      BY <3>1, <3>3
  <2>2. n + 1 \in 1 .. n
    BY <1>2, <1>3, <2>1
  <2>3. QED
    BY <1>2, <1>3, <2>2
<1>6. QED
  BY <1>2, <1>3, <1>4, <1>5 DEF Old

LEMMA PoppedIs ==
    ASSUME NEW times \in Seq(Ages), NEW n \in 0 .. Len(times), Old(times, n)
    PROVE  Popped(times) = SubSeq(times, n + 1, Len(times))
<1>1. \A m \in 0 .. Len(times) : Old(times, m) => m = n
  <2> SUFFICES ASSUME NEW m \in 0 .. Len(times), Old(times, m) PROVE m = n
    OBVIOUS
  <2>1. \A i \in 1 .. Len(times) : times[i] \in Ages
    OBVIOUS
  <2>2. ~(m < n)
    BY <2>1, Constants DEF Old, Ages
  <2>3. ~(n < m)
    BY <2>1, Constants DEF Old, Ages
  <2>4. QED
    BY <2>2, <2>3
<1>2. (CHOOSE m \in 0 .. Len(times) : Old(times, m)) = n
  BY <1>1
<1>3. QED
  BY <1>2 DEF Popped

LEMMA PoppedFacts ==
    ASSUME NEW times \in Seq(Ages), Sorted(times)
    PROVE  /\ Popped(times) \in Seq(0 .. RateWindow - 1) /\ Popped(times) \in Seq(Ages)
           /\ Sorted(Popped(times)) /\ Len(Popped(times)) <= Len(times)
<1>1. PICK n \in 0 .. Len(times) : Old(times, n)
  BY OldExists
<1>2. Len(times) \in Nat /\ \A i \in 1 .. Len(times) : times[i] \in Ages
  OBVIOUS
<1>3. PICK live : live = SubSeq(times, n + 1, Len(times))
  OBVIOUS
<1>4. Popped(times) = live
  BY <1>1, <1>3, PoppedIs
<1>5. \A i \in n + 1 .. Len(times) : times[i] \in 0 .. RateWindow - 1
  <2> SUFFICES ASSUME NEW i \in n + 1 .. Len(times) PROVE times[i] \in 0 .. RateWindow - 1
    OBVIOUS
  <2>1. n < Len(times) /\ n + 1 \in 1 .. Len(times) /\ i \in 1 .. Len(times)
    BY <1>1, <1>2
  <2>2. times[n + 1] < RateWindow /\ times[n + 1] >= times[i] /\ times[i] \in Ages /\ times[n + 1] \in Ages
    BY <1>1, <1>2, <2>1 DEF Old, Sorted
  <2>3. QED
    BY <2>2, Constants DEF Ages
<1>6. /\ live \in Seq(0 .. RateWindow - 1)
      /\ Len(live) = (IF n + 1 <= Len(times) THEN Len(times) - n ELSE 0)
      /\ \A i \in 1 .. Len(times) - n : live[i] = times[n + i]
  <2>1. n + 1 \in Int /\ Len(times) \in Int
    BY <1>1, <1>2
  <2>2. /\ live \in Seq(0 .. RateWindow - 1)
        /\ Len(live) = IF n + 1 <= Len(times) THEN Len(times) - (n + 1) + 1 ELSE 0
        /\ \A i \in 1 .. Len(times) - (n + 1) + 1 : live[i] = times[(n + 1) + i - 1]
    BY <1>3, <1>5, <2>1, SubSeqProperties
  <2>3. QED
    BY <1>1, <1>2, <2>2
<1>7. live \in Seq(Ages)
  <2>1. 0 .. RateWindow - 1 \subseteq Ages
    BY Constants DEF Ages
  <2>2. QED
    BY <1>6, <2>1, SeqMonotonic
<1>8. Sorted(live)
  <2> SUFFICES ASSUME NEW i \in 1 .. Len(live), NEW j \in 1 .. Len(live), i <= j
               PROVE  live[i] >= live[j]
    BY DEF Sorted
  <2>1. /\ n + i \in 1 .. Len(times) /\ n + j \in 1 .. Len(times) /\ n + i <= n + j
        /\ live[i] = times[n + i] /\ live[j] = times[n + j]
    BY <1>1, <1>2, <1>6
  <2>2. QED
    BY <2>1 DEF Sorted
<1>9. QED
  BY <1>1, <1>2, <1>4, <1>6, <1>7, <1>8

\* Nothing is popped from a sequence without old entries.
LEMMA PoppedYoung ==
    ASSUME NEW times \in Seq(0 .. RateWindow - 1)
    PROVE  Popped(times) = times
<1>1. times \in Seq(Ages)
  <2>1. 0 .. RateWindow - 1 \subseteq Ages
    BY Constants DEF Ages
  <2>2. QED
    BY <2>1, SeqMonotonic
<1>2. 0 \in 0 .. Len(times) /\ Old(times, 0)
  <2>1. Len(times) \in Nat
    OBVIOUS
  <2>2. 0 < Len(times) => times[1] \in 0 .. RateWindow - 1
    <3>1. 0 < Len(times) => 1 \in 1 .. Len(times)
      BY <2>1
    <3>2. QED
      BY <3>1, ElementOfSeq
  <2>3. QED
    BY <2>1, <2>2, Constants DEF Old
<1>3. QED
  BY <1>1, <1>2, PoppedIs, SubSeqFull

\* Growing older.
LEMMA OlderFacts ==
    ASSUME NEW times \in Seq(Ages)
    PROVE  /\ Older(times) \in Seq(Ages) /\ Len(Older(times)) = Len(times)
           /\ \A i \in 1 .. Len(times) :
                Older(times)[i] = IF times[i] < RateWindow THEN times[i] + 1 ELSE RateWindow
           /\ Sorted(times) => Sorted(Older(times))
<1>1. Len(times) \in Nat /\ DOMAIN times = 1 .. Len(times) /\ \A i \in 1 .. Len(times) : times[i] \in Ages
  OBVIOUS
<1>2. \A a \in Ages : (IF a < RateWindow THEN a + 1 ELSE RateWindow) \in Ages
  BY Constants DEF Ages
<1>3. /\ Older(times) \in [1 .. Len(times) -> Ages]
      /\ \A i \in 1 .. Len(times) :
           Older(times)[i] = IF times[i] < RateWindow THEN times[i] + 1 ELSE RateWindow
  BY <1>1, <1>2 DEF Older
<1>4. Older(times) \in Seq(Ages) /\ Len(Older(times)) = Len(times)
  BY <1>1, <1>3
<1>5. Sorted(times) => Sorted(Older(times))
  <2> SUFFICES ASSUME Sorted(times), NEW i \in 1 .. Len(times), NEW j \in 1 .. Len(times), i <= j
               PROVE  Older(times)[i] >= Older(times)[j]
    BY <1>4 DEF Sorted
  <2>1. times[i] >= times[j] /\ times[i] \in Ages /\ times[j] \in Ages
    BY <1>1 DEF Sorted
  <2>2. QED
    BY <1>3, <2>1, Constants DEF Ages
<1>6. QED
  BY <1>3, <1>4, <1>5

\* What was popped before time passes would have been popped afterwards.
LEMMA PoppedOlder ==
    ASSUME NEW times \in Seq(Ages), Sorted(times)
    PROVE  Popped(Older(times)) = Popped(Older(Popped(times)))
<1>1. PICK n \in 0 .. Len(times) : Old(times, n)
  BY OldExists
<1>2. PICK live : live = Popped(times)
  OBVIOUS
<1>3. Len(times) \in Nat /\ n \in Nat /\ \A i \in 1 .. Len(times) : times[i] \in Ages
  BY <1>1
<1>4. /\ live \in Seq(Ages) /\ Len(live) = Len(times) - n
      /\ \A i \in 1 .. Len(live) : live[i] = times[n + i]
  <2>1. live = SubSeq(times, n + 1, Len(times))
    BY <1>1, <1>2, PoppedIs
  <2>2. \A i \in n + 1 .. Len(times) : times[i] \in Ages
    BY <1>3
  <2>3. n + 1 \in Int /\ Len(times) \in Int
    BY <1>3
  <2>4. /\ live \in Seq(Ages)
        /\ Len(live) = IF n + 1 <= Len(times) THEN Len(times) - (n + 1) + 1 ELSE 0
        /\ \A i \in 1 .. Len(times) - (n + 1) + 1 : live[i] = times[(n + 1) + i - 1]
    BY <2>1, <2>2, <2>3, SubSeqProperties
  <2>5. QED
    BY <1>1, <1>3, <2>4
<1>5. PICK o, l : o = Older(times) /\ l = Older(live)
  OBVIOUS
<1>6. /\ o \in Seq(Ages) /\ Len(o) = Len(times)
      /\ \A i \in 1 .. Len(times) : o[i] = IF times[i] < RateWindow THEN times[i] + 1 ELSE RateWindow
  BY <1>5, OlderFacts
<1>7. /\ l \in Seq(Ages) /\ Len(l) = Len(live)
      /\ \A i \in 1 .. Len(live) : l[i] = IF live[i] < RateWindow THEN live[i] + 1 ELSE RateWindow
  BY <1>4, <1>5, OlderFacts
<1>8. \A i \in 1 .. Len(l) : n + i \in 1 .. Len(o) /\ l[i] = o[n + i]
  BY <1>3, <1>4, <1>6, <1>7, SMTT(20)
<1>9. PICK m \in 0 .. Len(l) : Old(l, m)
  BY <1>7, OldExists
<1>10. n + m \in 0 .. Len(o) /\ m \in Nat /\ Len(l) = Len(o) - n
  BY <1>3, <1>4, <1>6, <1>7, <1>9
<1>11. Old(o, n + m)
  <2>1. \A i \in 1 .. n : o[i] >= RateWindow
    <3> SUFFICES ASSUME NEW i \in 1 .. n PROVE o[i] >= RateWindow
      OBVIOUS
    <3>1. i \in 1 .. Len(times) /\ times[i] >= RateWindow /\ times[i] \in Ages
      BY <1>1, <1>3 DEF Old
    <3>2. QED
      BY <1>6, <3>1, Constants DEF Ages
  <2>2. \A i \in n + 1 .. n + m : o[i] >= RateWindow
    <3> SUFFICES ASSUME NEW i \in n + 1 .. n + m PROVE o[i] >= RateWindow
      OBVIOUS
    <3>1. i - n \in 1 .. m /\ i - n \in 1 .. Len(l) /\ n + (i - n) = i
      BY <1>3, <1>7, <1>9, <1>10
    <3>2. l[i - n] >= RateWindow
      BY <1>9, <3>1 DEF Old
    <3>3. QED
      BY <1>8, <3>1, <3>2
  <2>3. n + m < Len(o) => o[n + m + 1] < RateWindow
    <3> SUFFICES ASSUME n + m < Len(o) PROVE o[n + m + 1] < RateWindow
      OBVIOUS
    <3>1. m < Len(l) /\ m + 1 \in 1 .. Len(l) /\ n + (m + 1) = n + m + 1
      BY <1>3, <1>6, <1>10
    <3>2. l[m + 1] < RateWindow
      BY <1>9, <3>1 DEF Old
    <3>3. QED
      BY <1>8, <3>1, <3>2
  <2>4. \A i \in 1 .. n + m : i \in 1 .. n \/ i \in n + 1 .. n + m
    BY <1>3, <1>10
  <2>5. QED
    BY <2>1, <2>2, <2>3, <2>4 DEF Old
<1>12. Popped(o) = SubSeq(o, n + m + 1, Len(o)) /\ Popped(l) = SubSeq(l, m + 1, Len(l))
  BY <1>6, <1>7, <1>9, <1>10, <1>11, PoppedIs
<1>13. SubSeq(o, n + m + 1, Len(o)) = SubSeq(l, m + 1, Len(l))
  <2>1. /\ n + m + 1 \in Int /\ Len(o) \in Int /\ m + 1 \in Int /\ Len(l) \in Int
        /\ \A i \in n + m + 1 .. Len(o) : o[i] \in Ages
        /\ \A i \in m + 1 .. Len(l) : l[i] \in Ages
    <3>1. Len(o) \in Nat /\ Len(l) \in Nat /\ n + m \in Nat
      BY <1>3, <1>6, <1>10
    <3>2. \A i \in 1 .. Len(o) : o[i] \in Ages
      BY <1>6
    <3>3. \A i \in 1 .. Len(l) : l[i] \in Ages
      BY <1>7
    <3>4. QED
      BY <1>10, <3>1, <3>2, <3>3
  <2>2. PICK s, t : s = SubSeq(o, n + m + 1, Len(o)) /\ t = SubSeq(l, m + 1, Len(l))
    OBVIOUS
  <2>3. /\ s \in Seq(Ages)
        /\ Len(s) = IF n + m + 1 <= Len(o) THEN Len(o) - (n + m + 1) + 1 ELSE 0
        /\ \A i \in 1 .. Len(o) - (n + m + 1) + 1 : s[i] = o[(n + m + 1) + i - 1]
    BY <2>1, <2>2, SubSeqProperties
  <2>4. /\ t \in Seq(Ages)
        /\ Len(t) = IF m + 1 <= Len(l) THEN Len(l) - (m + 1) + 1 ELSE 0
        /\ \A i \in 1 .. Len(l) - (m + 1) + 1 : t[i] = l[(m + 1) + i - 1]
    BY <2>1, <2>2, SubSeqProperties
  <2>5. Len(s) = Len(t)
    BY <1>3, <1>10, <2>1, <2>3, <2>4
  <2>6. \A i \in 1 .. Len(s) : s[i] = t[i]
    <3> SUFFICES ASSUME NEW i \in 1 .. Len(s) PROVE s[i] = t[i]
      OBVIOUS
    <3>1. i \in Nat /\ i \in 1 .. Len(o) - (n + m + 1) + 1 /\ i \in 1 .. Len(l) - (m + 1) + 1
      BY <1>3, <1>10, <2>1, <2>3, <2>4
    <3>2. /\ m + i \in 1 .. Len(l)
          /\ (n + m + 1) + i - 1 = n + (m + i) /\ (m + 1) + i - 1 = m + i
      BY <1>3, <1>10, <2>1, <3>1
    <3>3. s[i] = o[n + (m + i)] /\ t[i] = l[m + i]
      BY <2>3, <2>4, <3>1, <3>2
    <3>4. QED
      BY <1>8, <3>2, <3>3
  <2>7. QED
    BY <2>2, <2>3, <2>4, <2>5, <2>6, SeqEqual
<1>14. QED
  BY <1>2, <1>5, <1>12, <1>13

\* What the history keeps is what the limiter does not pop.
LEMMA YoungestIs ==
    ASSUME NEW times \in Seq(Ages), Sorted(times)
    PROVE  Youngest(times) = Popped(times)
<1>1. PICK n \in 0 .. Len(times) : Old(times, n)
  BY OldExists
<1>2. Len(times) \in Nat /\ DOMAIN times = 1 .. Len(times)
      /\ \A i \in 1 .. Len(times) : times[i] \in Ages
  OBVIOUS
<1>3. PICK young : young = {i \in DOMAIN times : times[i] < RateWindow}
  OBVIOUS
<1>4. young = n + 1 .. Len(times)
  <2>1. ASSUME NEW i \in 1 .. Len(times), i > n PROVE times[i] < RateWindow
    <3>1. n < Len(times) /\ n + 1 \in 1 .. Len(times) /\ n + 1 <= i
      BY <1>1, <1>2, <2>1
    <3>2. times[n + 1] < RateWindow /\ times[n + 1] >= times[i]
      BY <1>1, <3>1 DEF Old, Sorted
    <3>3. times[n + 1] \in Ages /\ times[i] \in Ages
      BY <1>2, <3>1
    <3>4. QED
      BY <3>2, <3>3, Constants DEF Ages
  <2>2. ASSUME NEW i \in 1 .. Len(times), i <= n PROVE ~(times[i] < RateWindow)
    <3>1. times[i] >= RateWindow /\ times[i] \in Ages
      BY <1>1, <1>2, <2>2 DEF Old
    <3>2. QED
      BY <3>1, Constants DEF Ages
  <2>3. QED
    BY <1>1, <1>2, <1>3, <2>1, <2>2
<1>5. Cardinality(young) = Len(times) - n
  <2>1. n + 1 \in Int /\ Len(times) \in Int
    BY <1>1, <1>2
  <2>2. Cardinality(n + 1 .. Len(times)) = IF n + 1 > Len(times) THEN 0 ELSE Len(times) - (n + 1) + 1
    BY <2>1, FS_Interval
  <2>3. QED
    BY <1>1, <1>2, <1>4, <2>2
<1>6. Youngest(times) = SubSeq(times, Len(times) - Cardinality(young) + 1, Len(times))
  BY <1>3 DEF Youngest
<1>7. Len(times) - Cardinality(young) + 1 = n + 1
  BY <1>1, <1>2, <1>5
<1>8. QED
  BY <1>1, <1>6, <1>7, PoppedIs

-----------------------------------------------------------------------------
(***************************************************************************)
(* The invariants.                                                         *)
(***************************************************************************)
\* The queue and where everybody is.
QueueOK ==
    /\ waiters \in Seq(Requests)
    /\ pc \in [Requests -> Holding \cup {"idle", "permit"}]

\* The times: those of the window, of the block and of the sleepers.
TimesOK ==
    /\ requestTimes \in Seq(Ages) /\ Sorted(requestTimes)
    /\ grants = Popped(requestTimes) /\ Len(grants) <= RateLimit
    /\ blockedUntil \in NoTime .. BlockSeconds
    /\ sleep \in [Requests -> 0 .. RateWindow + BlockSeconds]

LimiterInv == QueueOK /\ TimesOK

LEMMA Implied == LimiterInv => TypeOK /\ WindowRespected
<1> SUFFICES ASSUME LimiterInv PROVE TypeOK /\ WindowRespected
  OBVIOUS
<1>1. grants \in Seq(0 .. RateWindow - 1)
  BY PoppedFacts DEF LimiterInv, TimesOK
<1>2. QED
  BY <1>1 DEF LimiterInv, QueueOK, TimesOK, TypeOK, WindowRespected, Ages

LEMMA InitLimiter == Init => LimiterInv
<1> SUFFICES ASSUME Init PROVE LimiterInv
  OBVIOUS
<1>1. QueueOK
  BY DEF Init, QueueOK
<1>2. TimesOK
  <2>1. <<>> \in Seq(0 .. RateWindow - 1) /\ <<>> \in Seq(Ages) /\ Len(<<>>) = 0
    OBVIOUS
  <2>2. Popped(<<>>) = <<>>
    BY <2>1, PoppedYoung
  <2>3. Sorted(<<>>)
    BY <2>1 DEF Sorted
  <2>4. NoTime \in NoTime .. BlockSeconds /\ 0 \in 0 .. RateWindow + BlockSeconds
    BY Constants DEF NoTime
  <2>5. QED
    BY <2>1, <2>2, <2>3, <2>4, Constants DEF Init, TimesOK
<1>3. QED
  BY <1>1, <1>2 DEF LimiterInv

\* A request leaves the queue at most once.
LEMMA WithoutFacts ==
    ASSUME NEW queue \in Seq(Requests), NEW r
    PROVE  Without(queue, r) \in Seq(Requests)
<1>1. CASE \E i \in DOMAIN queue : queue[i] = r
  <2>1. PICK i : i = CHOOSE j \in DOMAIN queue : queue[j] = r
    OBVIOUS
  <2>2. i \in 1 .. Len(queue) /\ Len(queue) \in Nat
    BY <1>1, <2>1
  <2>3. Without(queue, r) = SubSeq(queue, 1, i - 1) \o SubSeq(queue, i + 1, Len(queue))
    BY <1>1, <2>1 DEF Without
  <2>4. SubSeq(queue, 1, i - 1) \in Seq(Requests) /\ SubSeq(queue, i + 1, Len(queue)) \in Seq(Requests)
    <3>1. \A j \in 1 .. Len(queue) : queue[j] \in Requests
      OBVIOUS
    <3>2. (\A j \in 1 .. i - 1 : queue[j] \in Requests) /\ (\A j \in i + 1 .. Len(queue) : queue[j] \in Requests)
      BY <2>2, <3>1
    <3>3. 1 \in Int /\ i - 1 \in Int /\ i + 1 \in Int /\ Len(queue) \in Int
      BY <2>2
    <3>4. QED
      BY <3>2, <3>3, SubSeqProperties
  <2>5. QED
    BY <2>3, <2>4, ConcatProperties
<1>2. CASE ~ \E i \in DOMAIN queue : queue[i] = r
  BY <1>2 DEF Without
<1>3. QED
  BY <1>1, <1>2

LEMMA RequestQueue == ASSUME QueueOK, NEW r \in Requests, RequestStep(r) PROVE QueueOK'
<1>1. waiters \in Seq(Requests) /\ pc \in [Requests -> Holding \cup {"idle", "permit"}]
  BY DEF QueueOK
<1>2. pc' \in [Requests -> Holding \cup {"idle", "permit"}]
  BY <1>1 DEF RequestStep, AskPermit, GetPermit, CheckBlock, Wake, TryWindow, NextAttempt, Leave,
              MoveTo, Holding
<1>3. waiters' \in Seq(Requests)
  <2>1. CASE AskPermit(r)
    BY <1>1, <2>1, AppendProperties DEF AskPermit
  <2>2. CASE GetPermit(r)
    BY <1>1, <2>2, HeadTailProperties DEF GetPermit
  <2>3. CASE Leave(r)
    BY <1>1, <2>3, WithoutFacts DEF Leave
  <2>4. CASE CheckBlock(r) \/ Wake(r) \/ TryWindow(r) \/ NextAttempt(r)
    BY <1>1, <2>4 DEF CheckBlock, Wake, TryWindow, NextAttempt
  <2>5. QED
    BY <2>1, <2>2, <2>3, <2>4 DEF RequestStep
<1>4. QED
  BY <1>2, <1>3 DEF QueueOK

\* The window: what is left of it is granted one more, or waited for.
LEMMA WindowTimes == ASSUME TimesOK, NEW r \in Requests, TryWindow(r) PROVE TimesOK'
<1>1. PICK live : live = Popped(requestTimes)
  OBVIOUS
<1>2. /\ live \in Seq(0 .. RateWindow - 1) /\ live \in Seq(Ages) /\ Sorted(live)
      /\ grants = live /\ Len(live) <= RateLimit /\ Len(live) \in Nat
      /\ blockedUntil \in NoTime .. BlockSeconds
      /\ sleep \in [Requests -> 0 .. RateWindow + BlockSeconds]
  BY <1>1, PoppedFacts DEF TimesOK
<1>3. UNCHANGED blockedUntil
  BY DEF TryWindow
<1>4. CASE HasRoom(live) /\ requestTimes' = Append(live, 0) /\ grants' = Append(grants, 0) /\ UNCHANGED sleep
  <2>1. PICK new : new = Append(live, 0)
    OBVIOUS
  <2>2. 0 \in 0 .. RateWindow - 1 /\ 0 \in Ages
    BY Constants DEF Ages
  <2>3. new \in Seq(0 .. RateWindow - 1) /\ new \in Seq(Ages) /\ Len(new) = Len(live) + 1
        /\ \A i \in 1 .. Len(live) : new[i] = live[i]
        /\ new[Len(live) + 1] = 0
    BY <1>2, <2>1, <2>2, AppendProperties
  <2>4. Sorted(new)
    <3> SUFFICES ASSUME NEW i \in 1 .. Len(new), NEW j \in 1 .. Len(new), i <= j
                 PROVE  new[i] >= new[j]
      BY DEF Sorted
    <3>1. new[i] \in Ages
      BY <2>3
    <3>2. CASE j = Len(live) + 1
      BY <2>3, <3>1, <3>2, Constants DEF Ages
    <3>3. CASE j # Len(live) + 1
      BY <1>2, <2>3, <3>3 DEF Sorted
    <3>4. QED
      BY <3>2, <3>3
  <2>5. Popped(new) = new
    BY <2>3, PoppedYoung
  <2>6. Len(new) <= RateLimit
    BY <1>2, <1>4, <2>3, Constants DEF HasRoom
  <2>7. QED
    BY <1>2, <1>3, <1>4, <2>1, <2>3, <2>4, <2>5, <2>6 DEF TimesOK
<1>5. CASE /\ ~HasRoom(live) /\ requestTimes' = live /\ UNCHANGED grants
           /\ sleep' = [sleep EXCEPT ![r] = RateWindow - Head(live)]
  <2>1. Head(live) \in 0 .. RateWindow - 1
    <3>1. live # <<>>
      BY <1>2, <1>5, Constants DEF HasRoom
    <3>2. QED
      BY <1>2, <3>1, HeadTailProperties
  <2>2. RateWindow - Head(live) \in 0 .. RateWindow + BlockSeconds
    BY <2>1, Constants
  <2>3. Popped(live) = live
    BY <1>2, PoppedYoung
  <2>4. QED
    BY <1>2, <1>3, <1>5, <2>2, <2>3 DEF TimesOK
<1>6. QED
  BY <1>1, <1>4, <1>5 DEF TryWindow

LEMMA RequestTimes == ASSUME TimesOK, NEW r \in Requests, RequestStep(r) PROVE TimesOK'
<1>1. CASE TryWindow(r)
  BY <1>1, WindowTimes
<1>2. CASE AskPermit(r) \/ GetPermit(r) \/ CheckBlock(r) \/ Wake(r) \/ NextAttempt(r) \/ Leave(r)
  <2>1. UNCHANGED <<requestTimes, blockedUntil, grants>>
    BY <1>2 DEF AskPermit, GetPermit, CheckBlock, Wake, NextAttempt, Leave, limiterVars
  <2>2. sleep' \in [Requests -> 0 .. RateWindow + BlockSeconds]
    <3>1. CASE UNCHANGED sleep
      BY <3>1 DEF TimesOK
    <3>2. CASE sleep' = [sleep EXCEPT ![r] = blockedUntil] /\ blockedUntil > 0
      <4>1. blockedUntil \in 0 .. RateWindow + BlockSeconds
        BY <3>2, Constants DEF TimesOK, NoTime
      <4>2. QED
        BY <3>2, <4>1 DEF TimesOK
    <3>3. CASE sleep' = [sleep EXCEPT ![r] = 0]
      <4>1. 0 \in 0 .. RateWindow + BlockSeconds
        BY Constants
      <4>2. QED
        BY <3>3, <4>1 DEF TimesOK
    <3>4. QED
      BY <1>2, <3>1, <3>2, <3>3 DEF AskPermit, GetPermit, CheckBlock, Wake, NextAttempt, Leave
  <2>3. QED
    BY <2>1, <2>2 DEF TimesOK
<1>3. QED
  BY <1>1, <1>2 DEF RequestStep

LEMMA TickTimes == ASSUME TimesOK, Tick PROVE TimesOK'
<1>1. /\ requestTimes' = Older(requestTimes) /\ grants' = Youngest(Older(grants))
      /\ blockedUntil' = Elapse(blockedUntil) /\ sleep' = [r \in Requests |-> Elapse(sleep[r])]
  BY DEF Tick
<1>2. requestTimes' \in Seq(Ages) /\ Sorted(requestTimes')
  BY <1>1, OlderFacts DEF TimesOK
<1>3. /\ grants' = Popped(Older(grants)) /\ grants \in Seq(Ages)
      /\ Older(grants) \in Seq(Ages) /\ Sorted(Older(grants)) /\ Len(Older(grants)) = Len(grants)
  <2>1. grants \in Seq(Ages) /\ Sorted(grants)
    BY PoppedFacts DEF TimesOK
  <2>2. Older(grants) \in Seq(Ages) /\ Sorted(Older(grants)) /\ Len(Older(grants)) = Len(grants)
    BY <2>1, OlderFacts
  <2>3. QED
    BY <1>1, <2>1, <2>2, YoungestIs
<1>4. grants' = Popped(requestTimes') /\ Len(grants') <= RateLimit
  <2>1. grants' = Popped(requestTimes')
    BY <1>1, <1>3, PoppedOlder DEF TimesOK
  <2>2. Len(Popped(Older(grants))) <= Len(Older(grants)) /\ Popped(Older(grants)) \in Seq(Ages)
    BY <1>3, PoppedFacts
  <2>3. QED
    BY <1>3, <2>1, <2>2, Constants DEF TimesOK
<1>5. blockedUntil' \in NoTime .. BlockSeconds
  BY <1>1, Constants DEF TimesOK, Elapse, NoTime
<1>6. sleep' \in [Requests -> 0 .. RateWindow + BlockSeconds]
  <2>1. \A t \in 0 .. RateWindow + BlockSeconds : Elapse(t) \in 0 .. RateWindow + BlockSeconds
    BY Constants DEF Elapse
  <2>2. QED
    BY <1>1, <2>1 DEF TimesOK
<1>7. QED
  BY <1>2, <1>4, <1>5, <1>6 DEF TimesOK

LEMMA StepLimiter == LimiterInv /\ [Next]_vars => LimiterInv'
<1> SUFFICES ASSUME QueueOK, TimesOK, [Next]_vars PROVE QueueOK' /\ TimesOK'
  BY DEF LimiterInv
<1>1. CASE \E r \in Requests : RequestStep(r)
  BY <1>1, RequestQueue, RequestTimes
<1>2. CASE (SetBlocked \/ ClearBlock) /\ UNCHANGED <<requestVars, grants>>
  <2>1. UNCHANGED <<waiters, pc, sleep, requestTimes, grants>>
    BY <1>2 DEF SetBlocked, ClearBlock, requestVars
  <2>2. blockedUntil' \in NoTime .. BlockSeconds
    BY <1>2, Constants DEF SetBlocked, ClearBlock, TimesOK, NoTime
  <2>3. QED
    BY <2>1, <2>2 DEF QueueOK, TimesOK
<1>3. CASE Tick
  <2>1. UNCHANGED <<waiters, pc>>
    BY <1>3 DEF Tick
  <2>2. QED
    BY <1>3, <2>1, TickTimes DEF QueueOK
<1>4. CASE UNCHANGED vars
  BY <1>4 DEF vars, limiterVars, requestVars, QueueOK, TimesOK
<1>5. QED
  BY <1>1, <1>2, <1>3, <1>4 DEF Next

\* rate_limiter.rs: every variable stays in its domain; no sleep is negative or
\* longer than the window, and the history is young.
THEOREM TypeCorrect == Spec => []TypeOK
BY InitLimiter, StepLimiter, Implied, PTL DEF Spec

\* rate_limiter.rs acquire: in no interval of RateWindow are more than RateLimit
\* attempts granted, however requests, wake-ups, blocks and hang-ups interleave.
THEOREM WindowIsRespected == Spec => []WindowRespected
BY InitLimiter, StepLimiter, Implied, PTL DEF Spec

-----------------------------------------------------------------------------
(***************************************************************************)
(* Nobody sleeps in vain: every grant there is has at least as long to     *)
(* stay in the window as anybody has left to sleep, so none leaves before, *)
(* and none is added to a full window.                                     *)
(***************************************************************************)
SleptFor(r) ==
    pc[r] = "sleep" /\ sleep[r] > 0 =>
        /\ Len(grants) = RateLimit
        /\ \A i \in 1 .. Len(grants) : grants[i] + sleep[r] <= RateWindow

AllSleptFor == \A r \in Requests : SleptFor(r)

\* Whoever is refused sleeps as long as the oldest grant stays, and the window
\* that refuses one refuses all.
LEMMA RefusedSleeps ==
    ASSUME LimiterInv, NEW r \in Requests, TryWindow(r), NEW s \in Requests, SleptFor(s)
    PROVE  SleptFor(s)'
<1> DEFINE live == Popped(requestTimes)
<1>1. /\ live = grants /\ live \in Seq(Ages) /\ Sorted(live) /\ Len(live) \in Nat /\ Len(live) <= RateLimit
      /\ RateLimit \in Nat \ {0} /\ RateWindow \in Nat
      /\ sleep \in [Requests -> 0 .. RateWindow + BlockSeconds]
      /\ pc \in [Requests -> Holding \cup {"idle", "permit"}]
  BY PoppedFacts, Constants DEF LimiterInv, TimesOK, QueueOK
<1> HIDE DEF live
<1>2. CASE HasRoom(live)
  <2>1. /\ pc' = [pc EXCEPT ![r] = "granted"] /\ sleep' = sleep
    BY <1>2 DEF TryWindow, MoveTo, live
  <2>2. ~(pc[s] = "sleep" /\ sleep[s] > 0)
    BY <1>1, <1>2 DEF SleptFor, HasRoom
  <2>3. QED
    BY <1>1, <2>1, <2>2 DEF SleptFor
<1>3. CASE ~HasRoom(live)
  <2>1. /\ pc' = [pc EXCEPT ![r] = "sleep"] /\ grants' = grants
        /\ sleep' = [sleep EXCEPT ![r] = RateWindow - Head(live)]
    BY <1>3 DEF TryWindow, MoveTo, live
  <2>2. Len(live) = RateLimit /\ Head(live) = live[1]
    BY <1>1, <1>3 DEF HasRoom
  <2>3. CASE s = r
    <3>1. sleep'[s] = RateWindow - live[1]
      BY <1>1, <2>1, <2>2, <2>3
    <3>2. \A i \in 1 .. Len(live) : live[1] >= live[i] /\ live[i] \in Ages /\ live[1] \in Ages
      <4>1. 1 \in 1 .. Len(live) /\ \A i \in 1 .. Len(live) : 1 <= i
        BY <1>1, <2>2
      <4>2. QED
        BY <1>1, <4>1, ElementOfSeq DEF Sorted
    <3>3. \A i \in 1 .. Len(live) : live[i] + sleep'[s] <= RateWindow
      BY <1>1, <3>1, <3>2 DEF Ages
    <3>4. QED
      BY <1>1, <2>1, <2>2, <3>3 DEF SleptFor
  <2>4. CASE s # r
    BY <1>1, <2>1, <2>4 DEF SleptFor
  <2>5. QED
    BY <2>3, <2>4
<1>4. QED
  BY <1>2, <1>3

\* While somebody has to sleep on, nothing leaves the window.
LEMMA TickSleeps ==
    ASSUME LimiterInv, Tick, NEW s \in Requests, SleptFor(s)
    PROVE  SleptFor(s)'
<1>1. /\ grants \in Seq(Ages) /\ Sorted(grants) /\ Len(grants) \in Nat
      /\ RateWindow \in Nat \ {0} /\ sleep[s] \in Nat
      /\ grants' = Youngest(Older(grants)) /\ pc' = pc
      /\ sleep'[s] = IF sleep[s] > 0 THEN sleep[s] - 1 ELSE sleep[s]
  BY PoppedFacts, Constants DEF LimiterInv, TimesOK, Tick, Elapse
<1>2. SUFFICES ASSUME pc[s] = "sleep", sleep'[s] > 0
               PROVE  /\ Len(grants') = RateLimit
                      /\ \A i \in 1 .. Len(grants') : grants'[i] + sleep'[s] <= RateWindow
  BY <1>1 DEF SleptFor
<1>3. /\ sleep[s] > 1 /\ sleep'[s] = sleep[s] - 1
      /\ Len(grants) = RateLimit /\ \A i \in 1 .. Len(grants) : grants[i] + sleep[s] <= RateWindow
  BY <1>1, <1>2 DEF SleptFor
<1>4. PICK older : older = Older(grants)
  OBVIOUS
<1>5. /\ older \in Seq(Ages) /\ Sorted(older) /\ Len(older) = Len(grants)
      /\ \A i \in 1 .. Len(grants) :
            older[i] = IF grants[i] < RateWindow THEN grants[i] + 1 ELSE RateWindow
  BY <1>1, <1>4, OlderFacts
<1>6. \A i \in 1 .. Len(grants) : grants[i] \in Ages
  BY <1>1, ElementOfSeq
<1>7. \A i \in 1 .. Len(older) : older[i] + sleep'[s] <= RateWindow /\ older[i] \in 0 .. RateWindow - 1
  BY <1>1, <1>3, <1>5, <1>6 DEF Ages
<1>8. older \in Seq(0 .. RateWindow - 1)
  <2>1. older \in [1 .. Len(older) -> 0 .. RateWindow - 1] /\ Len(older) \in Nat
    BY <1>5, <1>7
  <2>2. QED
    BY <2>1, SeqDef
<1>9. grants' = older
  BY <1>1, <1>4, <1>5, <1>8, YoungestIs, PoppedYoung
<1>10. QED
  BY <1>3, <1>5, <1>7, <1>9

LEMMA StepSleptFor == LimiterInv /\ AllSleptFor /\ [Next]_vars => AllSleptFor'
<1> SUFFICES ASSUME LimiterInv, [Next]_vars, NEW s \in Requests, SleptFor(s) PROVE SleptFor(s)'
  BY DEF AllSleptFor
<1>1. ASSUME NEW r \in Requests, RequestStep(r), ~TryWindow(r) PROVE SleptFor(s)'
  <2>1. /\ pc \in [Requests -> Holding \cup {"idle", "permit"}]
        /\ sleep \in [Requests -> 0 .. RateWindow + BlockSeconds]
    BY DEF LimiterInv, QueueOK, TimesOK
  <2>2. grants' = grants /\ (pc'[s] = "sleep" => pc[s] = "sleep" /\ sleep'[s] = sleep[s])
    BY <1>1, <2>1 DEF RequestStep, AskPermit, GetPermit, CheckBlock, Wake, NextAttempt, Leave, MoveTo
  <2>3. QED
    BY <2>2 DEF SleptFor
<1>2. CASE UNCHANGED <<requestVars, grants>>
  BY <1>2 DEF requestVars, SleptFor
<1>3. QED
  BY <1>1, <1>2, RefusedSleeps, TickSleeps DEF Next, vars

\* rate_limiter.rs acquire 51-59: whoever sleeps for the window sleeps no longer than
\* the window is full: no grant goes unused while somebody waits for it.
THEOREM NoSleepInVain == Spec => []NobodySleepsInVain
<1>1. Init => AllSleptFor
  BY DEF Init, AllSleptFor, SleptFor
<1>2. AllSleptFor => NobodySleepsInVain
  BY DEF AllSleptFor, SleptFor, NobodySleepsInVain
<1>3. QED
  BY <1>1, <1>2, InitLimiter, StepLimiter, StepSleptFor, PTL DEF Spec

-----------------------------------------------------------------------------
(***************************************************************************)
(* The rotation of the egress address.                                     *)
(***************************************************************************)
Places == Locked \cup {"idle", "serving", "queued", "unblock"}

LEMMA RotationConstants ==
    /\ NoTask \notin Tasks /\ Rotators \cap Syncs = {} /\ Rotators \subseteq Tasks
    /\ Syncs \subseteq Tasks /\ Inliners \subseteq Rotators /\ Spawners \subseteq Rotators
    /\ Tasks = Rotators \cup Syncs /\ RotationInterval \in Nat \ {0}
    /\ LeftOverBound \in Nat
BY IpRotationAssumption DEF IpRotationAssumption, Tasks, Rotators

\* What the holder of the lock has achieved so far.
Achieved ==
    \A t \in Rotators :
        /\ doing[t] = "connect" => (registered => renewed)
        /\ doing[t] = "stamp" => (connected /\ registered /\ renewed) \/ undone

Stamped == lastRotation <= sinceDone

RotationInv == RotationTypeOK /\ Achieved /\ Stamped

-----------------------------------------------------------------------------
(***************************************************************************)
(* The lock and its queue.                                                 *)
(***************************************************************************)
LEMMA DequeuedTyped ==
    ASSUME NEW queue \in Seq(Tasks), NEW t
    PROVE  Dequeued(queue, t) \in Seq(Tasks)
<1>1. CASE \E i \in DOMAIN queue : queue[i] = t
  <2>1. PICK i : i = CHOOSE j \in DOMAIN queue : queue[j] = t
    OBVIOUS
  <2>2. i \in 1 .. Len(queue) /\ Len(queue) \in Nat
    BY <1>1, <2>1
  <2>3. Dequeued(queue, t) = SubSeq(queue, 1, i - 1) \o SubSeq(queue, i + 1, Len(queue))
    BY <1>1, <2>1 DEF Dequeued
  <2>4. SubSeq(queue, 1, i - 1) \in Seq(Tasks) /\ SubSeq(queue, i + 1, Len(queue)) \in Seq(Tasks)
    <3>1. \A j \in 1 .. Len(queue) : queue[j] \in Tasks
      OBVIOUS
    <3>2. /\ \A j \in 1 .. i - 1 : queue[j] \in Tasks
          /\ \A j \in i + 1 .. Len(queue) : queue[j] \in Tasks
      BY <2>2, <3>1
    <3>3. 1 \in Int /\ i - 1 \in Int /\ i + 1 \in Int /\ Len(queue) \in Int
      BY <2>2
    <3>4. QED
      BY <3>2, <3>3, SubSeqProperties
  <2>5. QED
    BY <2>3, <2>4, ConcatProperties
<1>2. CASE ~ \E i \in DOMAIN queue : queue[i] = t
  BY <1>2 DEF Dequeued
<1>3. QED
  BY <1>1, <1>2

LockTyped ==
    /\ doing \in [Tasks -> Places]
    /\ holder \in Tasks \cup {NoTask} /\ lockQueue \in Seq(Tasks)
    /\ \A t \in Tasks : doing[t] \in Locked <=> holder = t

\* A task moves, and keeps, takes or releases the lock as its new place says.
LEMMA Moves ==
    ASSUME LockTyped, NEW t \in Tasks, NEW place \in Places, Goes(t, place),
           holder' = holder \/ (holder \in {NoTask, t} /\ holder' \in {NoTask, t}),
           place \in Locked <=> holder' = t,
           lockQueue' \in Seq(Tasks)
    PROVE  LockTyped'
<1>1. doing' \in [Tasks -> Places] /\ doing'[t] = place
  BY DEF LockTyped, Goes
<1>2. ASSUME NEW u \in Tasks, u # t PROVE doing'[u] = doing[u]
  BY <1>2 DEF LockTyped, Goes
<1>3. ASSUME NEW u \in Tasks PROVE doing'[u] \in Locked <=> holder' = u
  BY <1>1, <1>2, <1>3, RotationConstants DEF LockTyped
<1>4. QED
  BY <1>1, <1>3 DEF LockTyped

LEMMA StepLock == LockTyped /\ [RotationNext]_rotationVars => LockTyped'
<1> SUFFICES ASSUME LockTyped, [RotationNext]_rotationVars PROVE LockTyped'
  OBVIOUS
<1> USE RotationConstants DEF Places, Locked, Commands, LockTyped
<1>1. ASSUME NEW t \in Rotators, StartRequest(t) PROVE LockTyped'
  BY <1>1, Moves DEF StartRequest, lockVars
<1>2. ASSUME NEW t \in Rotators, EndRequest(t) PROVE LockTyped'
  BY <1>2, Moves DEF EndRequest, lockVars
<1>3. ASSUME NEW t \in Rotators, LastResort(t) PROVE LockTyped'
  <2>1. lockQueue' \in Seq(Tasks)
    BY <1>3, AppendProperties DEF LastResort
  <2>2. QED
    BY <1>3, <2>1, Moves DEF LastResort
<1>4. ASSUME NEW t \in Rotators, Cancel(t) PROVE LockTyped'
  <2>1. lockQueue' \in Seq(Tasks)
    BY <1>4, DequeuedTyped DEF Cancel
  <2>2. QED
    BY <1>4, <2>1, Moves DEF Cancel
<1>5. ASSUME NEW t \in Syncs, Reconfigure(t) PROVE LockTyped'
  <2>1. lockQueue' \in Seq(Tasks)
    BY <1>5, AppendProperties DEF Reconfigure
  <2>2. QED
    BY <1>5, <2>1, Moves DEF Reconfigure
<1>6. ASSUME NEW t \in Tasks, Work(t) PROVE LockTyped'
  <2>1. CASE Lock(t)
    <3>1. lockQueue' \in Seq(Tasks)
      BY <2>1, HeadTailProperties DEF Lock
    <3>2. FirstStep(t) \in Locked
      BY DEF FirstStep
    <3>3. QED
      BY <2>1, <3>1, <3>2, Moves DEF Lock
  <2>2. CASE Skip(t)
    BY <2>2, Moves DEF Skip, AnswerOk, Release
  <2>3. CASE StampStart(t)
    BY <2>3, Moves DEF StampStart, lockVars
  <2>4. CASE Disconnect(t)
    BY <2>4, Moves DEF Disconnect, lockVars
  <2>5. CASE Delete(t)
    BY <2>5, Moves DEF Delete, Return, Release, lockVars
  <2>6. CASE NewRegistration(t)
    BY <2>6, Moves DEF NewRegistration, Return, Release, lockVars
  <2>7. CASE Connect(t)
    BY <2>7, Moves DEF Connect, Return, Release, lockVars
  <2>8. CASE StampEnd(t)
    BY <2>8, Moves DEF StampEnd, AnswerOk, Release
  <2>9. CASE LiftBlock(t)
    BY <2>9, Moves DEF LiftBlock, lockVars
  <2>10. QED
    BY <1>6, <2>1, <2>2, <2>3, <2>4, <2>5, <2>6, <2>7, <2>8, <2>9 DEF Work
<1>7. CASE \/ ClockTicks \/ BlockRunsOut \/ UNCHANGED rotationVars
           \/ \E command \in Commands : LeftOverRuns(command)
  BY <1>7 DEF ClockTicks, BlockRunsOut, LeftOverRuns, rotationVars, lockVars
<1>8. QED
  BY <1>1, <1>2, <1>3, <1>4, <1>5, <1>6, <1>7 DEF RotationNext

-----------------------------------------------------------------------------
(***************************************************************************)
(* What is not the lock: the flags and the two ages.                       *)
(***************************************************************************)
DataTyped ==
    /\ enabled \in BOOLEAN /\ wanted \in [Syncs -> BOOLEAN]
    /\ lastRotation \in 0 .. RotationInterval /\ sinceDone \in 0 .. RotationInterval
    /\ blocked \in BOOLEAN /\ registered \in BOOLEAN /\ connected \in BOOLEAN
    /\ leftOver \in [Commands -> 0 .. LeftOverBound]
    /\ renewed \in BOOLEAN /\ undone \in BOOLEAN

LEMMA TypeParts == RotationTypeOK <=> LockTyped /\ DataTyped
BY DEF RotationTypeOK, LockTyped, DataTyped, Places

LEMMA StepData == DataTyped /\ Stamped /\ [RotationNext]_rotationVars => DataTyped' /\ Stamped'
<1> SUFFICES ASSUME DataTyped, Stamped, [RotationNext]_rotationVars PROVE DataTyped' /\ Stamped'
  OBVIOUS
<1> USE RotationConstants DEF DataTyped, Stamped
<1>1. ASSUME NEW t \in Rotators, StartRequest(t) \/ EndRequest(t) \/ LastResort(t) \/ Cancel(t)
      PROVE  DataTyped' /\ Stamped'
  <2>1. CASE StartRequest(t) \/ EndRequest(t) \/ LastResort(t)
    BY <2>1 DEF StartRequest, EndRequest, LastResort, warpVars, leftVars
  <2>2. CASE Cancel(t)
    BY <2>2 DEF Cancel, warpVars
  <2>3. QED
    BY <1>1, <2>1, <2>2
<1>2. ASSUME NEW s \in Syncs, Reconfigure(s) PROVE DataTyped' /\ Stamped'
  BY <1>2 DEF Reconfigure, warpVars, leftVars
<1>3. ASSUME NEW t \in Tasks, Work(t) PROVE DataTyped' /\ Stamped'
  <2>1. CASE Lock(t)
    BY <2>1 DEF Lock, warpVars, leftVars
  <2>2. CASE Skip(t)
    BY <2>2 DEF Skip, warpVars, leftVars
  <2>3. CASE StampStart(t)
    BY <2>3 DEF StampStart, warpVars, leftVars
  <2>4. CASE Disconnect(t)
    BY <2>4 DEF Disconnect, TunnelDown, Fails, warpVars, leftVars
  <2>5. CASE Delete(t)
    BY <2>5 DEF Delete, RegistrationGone, Fails, warpVars, leftVars
  <2>6. CASE NewRegistration(t)
    BY <2>6 DEF NewRegistration, RegistrationMade, Fails, warpVars, leftVars
  <2>7. CASE Connect(t)
    BY <2>7 DEF Connect, TunnelUp, Fails, warpVars, leftVars
  <2>8. CASE StampEnd(t)
    <3>1. /\ lastRotation' = 0 /\ sinceDone' = 0 /\ undone' = FALSE
          /\ UNCHANGED <<enabled, wanted, blocked, registered, connected, renewed, leftOver>>
      BY <2>8 DEF StampEnd, warpVars
    <3>2. 0 \in 0 .. RotationInterval
      BY RotationConstants
    <3>3. enabled' \in BOOLEAN /\ wanted' \in [Syncs -> BOOLEAN] /\ leftOver' \in [Commands -> 0 .. LeftOverBound]
      BY <3>1
    <3>4. blocked' \in BOOLEAN /\ registered' \in BOOLEAN /\ connected' \in BOOLEAN /\ renewed' \in BOOLEAN
      BY <3>1
    <3>5. lastRotation' \in 0 .. RotationInterval /\ sinceDone' \in 0 .. RotationInterval
          /\ lastRotation' <= sinceDone'
      BY <3>1, <3>2
    <3>6. undone' \in BOOLEAN
      BY <3>1
    <3>7. QED
      BY <3>3, <3>4, <3>5, <3>6
  <2>9. CASE LiftBlock(t)
    BY <2>9 DEF LiftBlock, warpVars, leftVars
  <2>10. QED
    BY <1>3, <2>1, <2>2, <2>3, <2>4, <2>5, <2>6, <2>7, <2>8, <2>9 DEF Work
<1>4. CASE ClockTicks
  BY <1>4 DEF ClockTicks, Aged, warpVars, leftVars
<1>5. CASE BlockRunsOut \/ UNCHANGED rotationVars
  BY <1>5 DEF BlockRunsOut, rotationVars, warpVars, leftVars
<1>6. ASSUME NEW command \in Commands, LeftOverRuns(command) PROVE DataTyped' /\ Stamped'
  <2>1. leftOver' \in [Commands -> 0 .. LeftOverBound]
    <3>1. leftOver[command] - 1 \in 0 .. LeftOverBound
      BY <1>6 DEF LeftOverRuns
    <3>2. QED
      BY <1>6, <3>1 DEF LeftOverRuns
  <2>2. registered' \in BOOLEAN /\ connected' \in BOOLEAN /\ renewed' \in BOOLEAN
    BY <1>6 DEF LeftOverRuns, TunnelDown, RegistrationGone, RegistrationMade, TunnelUp, Fails, warpVars
  <2>3. undone' \in BOOLEAN
    BY <1>6 DEF LeftOverRuns
  <2>4. QED
    BY <1>6, <2>1, <2>2, <2>3 DEF LeftOverRuns
<1>7. QED
  BY <1>1, <1>2, <1>3, <1>4, <1>5, <1>6 DEF RotationNext

-----------------------------------------------------------------------------
(***************************************************************************)
(* The daemon under the lock.                                              *)
(***************************************************************************)
\* Nobody but the task itself moves it, and outside the lock no task has
\* anything to lose.
LEMMA OneAtWork ==
    ASSUME LockTyped, Achieved, NEW t \in Tasks, doing[t] \in Locked, NEW place, Goes(t, place),
           t \in Rotators => /\ place = "connect" => (registered' => renewed')
                             /\ place = "stamp" => (connected' /\ registered' /\ renewed') \/ undone'
    PROVE  Achieved'
<1> SUFFICES ASSUME NEW u \in Rotators
             PROVE  /\ doing'[u] = "connect" => (registered' => renewed')
                    /\ doing'[u] = "stamp" => (connected' /\ registered' /\ renewed') \/ undone'
  BY DEF Achieved
<1>1. CASE u = t
  <2>1. doing'[u] = place
    BY <1>1 DEF LockTyped, Goes
  <2>2. QED
    BY <1>1, <2>1
<1>2. CASE u # t
  <2>1. doing'[u] = doing[u] /\ u \in Tasks
    BY <1>2, RotationConstants DEF LockTyped, Goes
  <2>2. doing[u] \notin Locked
    BY <1>2, <2>1 DEF LockTyped
  <2>3. QED
    BY <2>1, <2>2 DEF Locked, Commands
<1>3. QED
  BY <1>1, <1>2

\* A task that leaves the daemon alone and does not go where something is due;
\* what was undone to the holder is forgotten with its lock only.
LEMMA Elsewhere ==
    ASSUME LockTyped, Achieved, NEW t \in Tasks, NEW place, Goes(t, place),
           place \notin {"connect", "stamp"}, UNCHANGED warpVars,
           (undone => undone') \/ doing[t] \in Locked
    PROVE  Achieved'
<1> SUFFICES ASSUME NEW u \in Rotators
             PROVE  /\ doing'[u] = "connect" => (registered' => renewed')
                    /\ doing'[u] = "stamp" => (connected' /\ registered' /\ renewed') \/ undone'
  BY DEF Achieved
<1>1. CASE u = t
  BY <1>1 DEF LockTyped, Goes
<1>2. CASE u # t
  <2>1. doing'[u] = doing[u] /\ u \in Tasks
    BY <1>2, RotationConstants DEF LockTyped, Goes
  <2>2. doing[u] = "stamp" /\ undone => undone'
    BY <1>2, <2>1 DEF LockTyped, Locked, Commands
  <2>3. QED
    BY <2>1, <2>2 DEF Achieved, warpVars
<1>3. QED
  BY <1>1, <1>2

\* A command left over: before the holder connects it makes no registration
\* older, and after that it is remembered.
LEMMA LeftOverAchieved ==
    ASSUME Achieved, NEW command \in Commands, LeftOverRuns(command)
    PROVE  Achieved'
<1> SUFFICES ASSUME NEW u \in Rotators
             PROVE  /\ doing'[u] = "connect" => (registered' => renewed')
                    /\ doing'[u] = "stamp" => (connected' /\ registered' /\ renewed') \/ undone'
  BY DEF Achieved
<1>1. doing'[u] = doing[u]
  BY DEF LeftOverRuns
<1>2. CASE (TunnelDown \/ RegistrationGone) /\ undone' = (undone \/ SomebodyConnected)
  <2>1. doing[u] = "connect" => (registered' => renewed')
    <3>1. CASE TunnelDown
      BY <3>1 DEF Achieved, TunnelDown
    <3>2. CASE RegistrationGone
      BY <3>2 DEF RegistrationGone
    <3>3. QED
      BY <1>2, <3>1, <3>2
  <2>2. doing[u] = "stamp" => undone'
    BY <1>2 DEF SomebodyConnected
  <2>3. QED
    BY <1>1, <2>1, <2>2
<1>3. CASE RegistrationMade /\ undone' = undone
  BY <1>1, <1>3 DEF Achieved, RegistrationMade
<1>4. CASE TunnelUp /\ undone' = undone
  BY <1>1, <1>4 DEF Achieved, TunnelUp
<1>5. CASE Fails(command) /\ undone' = undone
  BY <1>1, <1>5 DEF Achieved, Fails, warpVars
<1>6. QED
  BY <1>2, <1>3, <1>4, <1>5 DEF LeftOverRuns

LEMMA StepAchieved == LockTyped /\ Achieved /\ [RotationNext]_rotationVars => Achieved'
<1> SUFFICES ASSUME LockTyped, Achieved, [RotationNext]_rotationVars PROVE Achieved'
  OBVIOUS
<1>1. ASSUME NEW t \in Rotators, StartRequest(t) \/ EndRequest(t) \/ LastResort(t) \/ Cancel(t)
      PROVE  Achieved'
  <2>1. CASE StartRequest(t) \/ EndRequest(t) \/ LastResort(t)
    BY <2>1, Elsewhere, RotationConstants DEF StartRequest, EndRequest, LastResort, leftVars
  <2>2. CASE Cancel(t)
    <3>1. (undone => undone') \/ doing[t] \in Locked
      BY <2>2, RotationConstants DEF Cancel, LockTyped
    <3>2. QED
      BY <2>2, <3>1, Elsewhere, RotationConstants DEF Cancel
  <2>3. QED
    BY <1>1, <2>1, <2>2
<1>2. ASSUME NEW s \in Syncs, Reconfigure(s) PROVE Achieved'
  BY <1>2, Elsewhere, RotationConstants DEF Reconfigure, leftVars
<1>3. ASSUME NEW t \in Tasks, Work(t) PROVE Achieved'
  <2>1. CASE Lock(t)
    <3>1. \A u \in Tasks : doing[u] \notin Locked
      BY <2>1, RotationConstants DEF Lock, LockTyped
    <3>2. \A u \in Rotators : doing'[u] \notin {"connect", "stamp"}
      BY <2>1, <3>1, RotationConstants DEF Lock, LockTyped, Goes, Locked, Commands, FirstStep
    <3>3. QED
      BY <3>2 DEF Achieved
  <2>2. CASE Skip(t)
    BY <2>2, Elsewhere DEF Skip, AnswerOk, leftVars
  <2>3. CASE StampStart(t)
    BY <2>3, Elsewhere DEF StampStart, leftVars
  <2>4. CASE Disconnect(t)
    BY <2>4, OneAtWork DEF Disconnect, Locked, Commands
  <2>5. CASE Delete(t)
    BY <2>5, OneAtWork, RotationConstants DEF Delete, Return, Locked, Commands
  <2>6. CASE NewRegistration(t)
    BY <2>6, OneAtWork, RotationConstants DEF NewRegistration, RegistrationMade, Return, Locked, Commands
  <2>7. CASE Connect(t)
    <3>1. t \in Rotators /\ TunnelUp => connected' /\ registered' /\ renewed'
      BY <2>7 DEF Connect, Achieved, TunnelUp
    <3>2. QED
      BY <2>7, <3>1, OneAtWork, RotationConstants DEF Connect, Return, Locked, Commands
  <2>8. CASE StampEnd(t)
    BY <2>8, Elsewhere DEF StampEnd, AnswerOk, Locked
  <2>9. CASE LiftBlock(t)
    BY <2>9, Elsewhere DEF LiftBlock, leftVars
  <2>10. QED
    BY <1>3, <2>1, <2>2, <2>3, <2>4, <2>5, <2>6, <2>7, <2>8, <2>9 DEF Work
<1>4. CASE ClockTicks \/ BlockRunsOut \/ UNCHANGED rotationVars
  BY <1>4 DEF ClockTicks, BlockRunsOut, rotationVars, warpVars, leftVars, Achieved
<1>5. ASSUME NEW command \in Commands, LeftOverRuns(command) PROVE Achieved'
  BY <1>5, LeftOverAchieved
<1>6. QED
  BY <1>1, <1>2, <1>3, <1>4, <1>5 DEF RotationNext

-----------------------------------------------------------------------------
LEMMA InitRotation == RotationInit => RotationInv
<1> SUFFICES ASSUME RotationInit PROVE RotationInv
  OBVIOUS
<1>1. LockTyped
  BY RotationConstants DEF RotationInit, LockTyped, Places, Locked, Commands
<1>2. DataTyped /\ Stamped
  <2>1. /\ lastRotation \in 0 .. RotationInterval /\ sinceDone \in 0 .. RotationInterval
        /\ lastRotation <= sinceDone
    BY RotationConstants DEF RotationInit
  <2>2. registered \in BOOLEAN /\ connected \in BOOLEAN /\ enabled \in BOOLEAN
    BY DEF RotationInit
  <2>3. wanted \in [Syncs -> BOOLEAN] /\ blocked \in BOOLEAN /\ renewed \in BOOLEAN
    BY DEF RotationInit
  <2>4. leftOver \in [Commands -> 0 .. LeftOverBound] /\ undone \in BOOLEAN
    <3>1. 0 \in 0 .. LeftOverBound
      BY RotationConstants
    <3>2. QED
      BY <3>1 DEF RotationInit
  <2>5. QED
    BY <2>1, <2>2, <2>3, <2>4 DEF DataTyped, Stamped
<1>3. Achieved
  BY RotationConstants DEF RotationInit, Achieved
<1>4. QED
  BY <1>1, <1>2, <1>3, TypeParts DEF RotationInv

LEMMA StepRotation == RotationInv /\ [RotationNext]_rotationVars => RotationInv'
<1> SUFFICES ASSUME RotationInv, [RotationNext]_rotationVars PROVE RotationInv'
  OBVIOUS
<1>1. LockTyped /\ DataTyped /\ Achieved /\ Stamped
  BY TypeParts DEF RotationInv
<1>2. LockTyped' /\ DataTyped' /\ Achieved' /\ Stamped'
  BY <1>1, StepLock, StepData, StepAchieved
<1>3. RotationTypeOK' <=> LockTyped' /\ DataTyped'
  BY TypeParts, PTL
<1>4. QED
  BY <1>2, <1>3 DEF RotationInv

\* ip_rotator.rs: whoever runs warp-cli holds IP_ROTATION_LOCK, a failed command,
\* an early return and a hung-up client included.
THEOREM RotationTypeCorrect == RotationSpec => []RotationTypeOK
<1>1. RotationInv => RotationTypeOK
  BY DEF RotationInv
<1>2. QED
  BY <1>1, InitRotation, StepRotation, PTL DEF RotationSpec

\* ip_rotator.rs rotate_ip 59-111: a rotation that ran its commands answers Ok only
\* with the tunnel up on a registration made since it took the lock, unless a command
\* left over by a client that hung up got to the daemon after it had connected.
THEOREM RotationsRenew == RotationSpec => []RotationRenews
<1>1. RotationInv => RotationRenews
  BY DEF RotationInv, Achieved, RotationRenews
<1>2. QED
  BY <1>1, InitRotation, StepRotation, PTL DEF RotationSpec

\* ip_rotator.rs rotate_ip 65-75, 103-106: none begins within RotationInterval of
\* the completion of another.
THEOREM RotationsAreSpaced == RotationSpec => RotationsSpaced
<1>1. RotationInv /\ [RotationNext]_rotationVars
        => [\A t \in Rotators : StampStart(t) => sinceDone >= RotationInterval]_rotationVars
  <2> SUFFICES ASSUME RotationInv, NEW t \in Rotators, StampStart(t)
               PROVE  sinceDone >= RotationInterval
    OBVIOUS
  <2>1. QED
    BY RotationConstants, TypeParts DEF RotationInv, DataTyped, Stamped, StampStart, Recent
<1>2. QED
  BY <1>1, InitRotation, StepRotation, PTL DEF RotationSpec, RotationsSpaced

-----------------------------------------------------------------------------
(***************************************************************************)
(* The two queues: of the semaphore and of the lock.  Both serve in order, *)
(* and whoever hangs up is cut out of them.                                *)
(***************************************************************************)
In(queue) == {queue[i] : i \in 1 .. Len(queue)}
Once(queue) == \A i, j \in 1 .. Len(queue) : queue[i] = queue[j] => i = j

\* Where the waiter at place i of the old queue is in the new one: never further
\* back.
Follows(new, queue, i, j) == j \in 1 .. i /\ j <= Len(new) /\ new[j] = queue[i]

LEMMA Joined ==
    ASSUME NEW S, NEW queue \in Seq(S), NEW t \in S, Once(queue), t \notin In(queue)
    PROVE  /\ Once(Append(queue, t)) /\ In(Append(queue, t)) = In(queue) \cup {t}
           /\ \A i \in 1 .. Len(queue) : Follows(Append(queue, t), queue, i, i)
<1>1. PICK new : new = Append(queue, t)
  OBVIOUS
<1>2. /\ Len(queue) \in Nat /\ Len(new) = Len(queue) + 1 /\ new[Len(queue) + 1] = t
      /\ \A i \in 1 .. Len(queue) : new[i] = queue[i]
  BY <1>1, AppendProperties
<1>3. Once(new)
  <2> SUFFICES ASSUME NEW i \in 1 .. Len(new), NEW j \in 1 .. Len(new), new[i] = new[j] PROVE i = j
    BY DEF Once
  <2>1. CASE i \in 1 .. Len(queue) /\ j \in 1 .. Len(queue)
    BY <1>2, <2>1 DEF Once
  <2>2. CASE i = Len(queue) + 1 \/ j = Len(queue) + 1
    BY <1>2, <2>2 DEF In
  <2>3. QED
    BY <1>2, <2>1, <2>2
<1>4. In(new) = In(queue) \cup {t}
  <2>1. 1 .. Len(new) = 1 .. Len(queue) \cup {Len(queue) + 1}
    BY <1>2
  <2>2. QED
    BY <1>2, <2>1 DEF In
<1>5. \A i \in 1 .. Len(queue) : Follows(new, queue, i, i)
  BY <1>2 DEF Follows
<1>6. QED
  BY <1>1, <1>3, <1>4, <1>5

LEMMA Served ==
    ASSUME NEW S, NEW queue \in Seq(S), queue # <<>>, Once(queue)
    PROVE  /\ Once(Tail(queue)) /\ In(Tail(queue)) = In(queue) \ {Head(queue)}
           /\ Head(queue) \in In(queue)
           /\ \A i \in 1 .. Len(queue) :
                  queue[i] # Head(queue) => i > 1 /\ Follows(Tail(queue), queue, i, i - 1)
<1>1. PICK new : new = Tail(queue)
  OBVIOUS
<1>2. /\ Len(queue) \in Nat /\ Len(queue) > 0 /\ Len(new) = Len(queue) - 1
      /\ \A i \in 1 .. Len(new) : new[i] = queue[i + 1]
      /\ Head(queue) = queue[1]
  BY <1>1, HeadTailProperties
<1>3. Once(new)
  <2> SUFFICES ASSUME NEW i \in 1 .. Len(new), NEW j \in 1 .. Len(new), new[i] = new[j] PROVE i = j
    BY DEF Once
  <2>1. queue[i + 1] = queue[j + 1] /\ i + 1 \in 1 .. Len(queue) /\ j + 1 \in 1 .. Len(queue)
    BY <1>2
  <2>2. i + 1 = j + 1
    BY <2>1 DEF Once
  <2>3. QED
    BY <2>2
<1>4. In(new) = In(queue) \ {Head(queue)}
  <2>1. ASSUME NEW i \in 1 .. Len(new) PROVE new[i] \in In(queue) \ {queue[1]}
    <3>1. new[i] = queue[i + 1] /\ i + 1 \in 1 .. Len(queue) /\ 1 \in 1 .. Len(queue) /\ i + 1 # 1
      BY <1>2
    <3>2. QED
      BY <3>1 DEF In, Once
  <2>2. ASSUME NEW i \in 1 .. Len(queue), queue[i] # queue[1] PROVE queue[i] \in In(new)
    <3>1. i - 1 \in 1 .. Len(new) /\ new[i - 1] = queue[i]
      BY <1>2, <2>2
    <3>2. QED
      BY <3>1 DEF In
  <2>3. QED
    BY <1>2, <2>1, <2>2 DEF In
<1>5. ASSUME NEW i \in 1 .. Len(queue), queue[i] # Head(queue)
      PROVE  i > 1 /\ Follows(new, queue, i, i - 1)
  BY <1>2, <1>5 DEF Follows
<1>6. Head(queue) \in In(queue)
  BY <1>2 DEF In
<1>7. QED
  BY <1>1, <1>3, <1>4, <1>5, <1>6

Cut(queue, p) == SubSeq(queue, 1, p - 1) \o SubSeq(queue, p + 1, Len(queue))

LEMMA CutIs ==
    ASSUME NEW S, NEW queue \in Seq(S), NEW p \in 1 .. Len(queue)
    PROVE  /\ Len(queue) \in Nat /\ Len(Cut(queue, p)) = Len(queue) - 1
           /\ \A i \in 1 .. Len(Cut(queue, p)) :
                  Cut(queue, p)[i] = IF i < p THEN queue[i] ELSE queue[i + 1]
<1> DEFINE new == Cut(queue, p)
           a == SubSeq(queue, 1, p - 1)
           b == SubSeq(queue, p + 1, Len(queue))
<1>1. Len(queue) \in Nat /\ p \in Nat /\ p >= 1 /\ p <= Len(queue)
  OBVIOUS
<1>2. /\ \A i \in 1 .. p - 1 : queue[i] \in S
      /\ \A i \in p + 1 .. Len(queue) : queue[i] \in S
  BY <1>1
<1>3. a \in Seq(S) /\ Len(a) = p - 1 /\ \A i \in 1 .. p - 1 : a[i] = queue[i]
  <2>1. /\ a \in Seq(S) /\ Len(a) = (IF 1 <= p - 1 THEN p - 1 - 1 + 1 ELSE 0)
        /\ \A i \in 1 .. p - 1 - 1 + 1 : a[i] = queue[1 + i - 1]
    <3>1. 1 \in Int /\ p - 1 \in Int
      BY <1>1
    <3>2. QED
      BY <1>2, <3>1, SubSeqProperties
  <2>2. QED
    BY <1>1, <2>1
<1>4. b \in Seq(S) /\ Len(b) = Len(queue) - p /\ \A i \in 1 .. Len(queue) - p : b[i] = queue[i + p]
  <2>1. /\ b \in Seq(S) /\ Len(b) = (IF p + 1 <= Len(queue) THEN Len(queue) - (p + 1) + 1 ELSE 0)
        /\ \A i \in 1 .. Len(queue) - (p + 1) + 1 : b[i] = queue[p + 1 + i - 1]
    <3>1. p + 1 \in Int /\ Len(queue) \in Int
      BY <1>1
    <3>2. QED
      BY <1>2, <3>1, SubSeqProperties
  <2>2. QED
    BY <1>1, <2>1
<1>5. /\ Len(new) = Len(a) + Len(b)
      /\ \A i \in 1 .. Len(a) + Len(b) : new[i] = IF i <= Len(a) THEN a[i] ELSE b[i - Len(a)]
  BY <1>3, <1>4, ConcatProperties DEF Cut
<1> HIDE DEF a, b, new
<1>6. Len(new) = Len(queue) - 1
  BY <1>1, <1>3, <1>4, <1>5
<1>7. ASSUME NEW i \in 1 .. Len(new) PROVE new[i] = IF i < p THEN queue[i] ELSE queue[i + 1]
  <2>1. CASE i < p
    BY <1>1, <1>3, <1>4, <1>5, <1>6, <2>1
  <2>2. CASE ~(i < p)
    <3>1. new[i] = b[i - (p - 1)]
      BY <1>1, <1>3, <1>4, <1>5, <1>6, <2>2
    <3>2. i - (p - 1) \in 1 .. Len(queue) - p /\ i - (p - 1) + p = i + 1
      BY <1>1, <1>6, <2>2
    <3>3. QED
      BY <1>4, <2>2, <3>1, <3>2
  <2>3. QED
    BY <2>1, <2>2
<1>8. QED
  BY <1>1, <1>6, <1>7 DEF new

LEMMA Gone ==
    ASSUME NEW S, NEW queue \in Seq(S), NEW t, Once(queue)
    PROVE  /\ Once(Dequeued(queue, t)) /\ In(Dequeued(queue, t)) = In(queue) \ {t}
           /\ \A i \in 1 .. Len(queue) : queue[i] # t =>
                  \E j \in 1 .. i : Follows(Dequeued(queue, t), queue, i, j)
<1>1. Len(queue) \in Nat /\ DOMAIN queue = 1 .. Len(queue)
  OBVIOUS
<1>2. CASE \E i \in DOMAIN queue : queue[i] = t
  <2>1. PICK p : p = CHOOSE i \in DOMAIN queue : queue[i] = t
    OBVIOUS
  <2>2. p \in 1 .. Len(queue) /\ queue[p] = t
    BY <1>1, <1>2, <2>1
  <2>3. PICK new : new = Dequeued(queue, t)
    OBVIOUS
  <2>4. new = Cut(queue, p)
    BY <1>2, <2>1, <2>3 DEF Dequeued, Cut
  <2>5. /\ Len(new) = Len(queue) - 1
        /\ \A i \in 1 .. Len(new) : new[i] = IF i < p THEN queue[i] ELSE queue[i + 1]
    BY <2>2, <2>4, CutIs
  <2>6. Once(new)
    <3> SUFFICES ASSUME NEW i \in 1 .. Len(new), NEW j \in 1 .. Len(new), new[i] = new[j] PROVE i = j
      BY DEF Once
    <3> DEFINE At(k) == IF k < p THEN k ELSE k + 1
    <3>1. /\ At(i) \in 1 .. Len(queue) /\ At(j) \in 1 .. Len(queue)
          /\ queue[At(i)] = queue[At(j)]
      BY <1>1, <2>2, <2>5
    <3>2. At(i) = At(j)
      BY <3>1 DEF Once
    <3>3. QED
      BY <1>1, <2>2, <2>5, <3>2
  <2>7. ASSUME NEW i \in 1 .. Len(queue), queue[i] # t PROVE \E j \in 1 .. i : Follows(new, queue, i, j)
    <3>1. i # p
      BY <2>2, <2>7
    <3>2. CASE i < p
      BY <1>1, <2>2, <2>5, <3>2 DEF Follows
    <3>3. CASE i > p
      <4>1. Follows(new, queue, i, i - 1) /\ i - 1 \in 1 .. i
        BY <1>1, <2>2, <2>5, <3>3 DEF Follows
      <4>2. QED
        BY <4>1
    <3>4. QED
      BY <1>1, <2>2, <3>1, <3>2, <3>3
  <2>8. In(new) = In(queue) \ {t}
    <3>1. ASSUME NEW i \in 1 .. Len(new) PROVE new[i] \in In(queue) \ {t}
      <4> DEFINE k == IF i < p THEN i ELSE i + 1
      <4>1. k \in 1 .. Len(queue) /\ k # p /\ new[i] = queue[k]
        BY <1>1, <2>2, <2>5
      <4> HIDE DEF k
      <4>2. queue[k] # t
        BY <2>2, <4>1 DEF Once
      <4>3. QED
        BY <4>1, <4>2 DEF In
    <3>2. ASSUME NEW i \in 1 .. Len(queue), queue[i] # t PROVE queue[i] \in In(new)
      <4>1. PICK j \in 1 .. i : j <= Len(new) /\ new[j] = queue[i]
        BY <2>7, <3>2 DEF Follows
      <4>2. j \in 1 .. Len(new)
        BY <1>1, <2>2, <2>5, <4>1
      <4>3. QED
        BY <4>1, <4>2 DEF In
    <3>3. QED
      BY <3>1, <3>2 DEF In
  <2>9. QED
    BY <2>3, <2>6, <2>7, <2>8
<1>3. CASE ~ \E i \in DOMAIN queue : queue[i] = t
  <2>1. Dequeued(queue, t) = queue
    BY <1>3 DEF Dequeued
  <2>2. In(queue) \ {t} = In(queue)
    BY <1>1, <1>3 DEF In
  <2>3. \A i \in 1 .. Len(queue) : i \in 1 .. i /\ Follows(queue, queue, i, i)
    BY <1>1 DEF Follows
  <2>4. QED
    BY <2>1, <2>2, <2>3
<1>4. QED
  BY <1>2, <1>3

LEMMA SameCut == \A queue, t : Without(queue, t) = Dequeued(queue, t)
BY DEF Without, Dequeued

-----------------------------------------------------------------------------
(***************************************************************************)
(* The semaphore: who asks for a permit stands in its queue, once, and     *)
(* nobody else does.                                                       *)
(***************************************************************************)
PermitLine == Once(waiters) /\ In(waiters) = {r \in Requests : pc[r] = "permit"}

LEMMA InitPermitLine == Init => PermitLine
BY DEF Init, PermitLine, Once, In

\* A request that moves and leaves the queue as it is was not waiting for it.
LEMMA PermitLineAlone ==
    ASSUME QueueOK, PermitLine, NEW r \in Requests, NEW place, MoveTo(r, place),
           place # "permit", pc[r] # "permit", waiters' = waiters
    PROVE  PermitLine'
<1>1. {q \in Requests : pc'[q] = "permit"} = {q \in Requests : pc[q] = "permit"}
  BY DEF QueueOK, MoveTo
<1>2. QED
  BY <1>1 DEF PermitLine, Once, In

LEMMA StepPermitLine ==
    ASSUME QueueOK, PermitLine, [Next]_vars
    PROVE  PermitLine'
<1> USE DEF Holding
<1>1. pc \in [Requests -> Holding \cup {"idle", "permit"}] /\ waiters \in Seq(Requests)
  BY DEF QueueOK
<1>2. ASSUME NEW r \in Requests, AskPermit(r) PROVE PermitLine'
  <2>1. Once(waiters) /\ r \notin In(waiters)
    BY <1>2 DEF PermitLine, AskPermit
  <2>2. Once(waiters') /\ In(waiters') = In(waiters) \cup {r}
    BY <1>1, <1>2, <2>1, Joined DEF AskPermit
  <2>3. {q \in Requests : pc'[q] = "permit"} = {q \in Requests : pc[q] = "permit"} \cup {r}
    BY <1>1, <1>2 DEF AskPermit, MoveTo
  <2>4. QED
    BY <2>2, <2>3 DEF PermitLine, Once, In
<1>3. ASSUME NEW r \in Requests, GetPermit(r) PROVE PermitLine'
  <2>1. Once(waiters') /\ In(waiters') = In(waiters) \ {r}
    BY <1>1, <1>3, Served DEF GetPermit, PermitLine
  <2>2. {q \in Requests : pc'[q] = "permit"} = {q \in Requests : pc[q] = "permit"} \ {r}
    BY <1>1, <1>3 DEF GetPermit, MoveTo
  <2>3. QED
    BY <2>1, <2>2 DEF PermitLine, Once, In
<1>4. ASSUME NEW r \in Requests, Leave(r) PROVE PermitLine'
  <2>1. waiters' = Dequeued(waiters, r)
    BY <1>4, SameCut DEF Leave
  <2>2. Once(waiters') /\ In(waiters') = In(waiters) \ {r}
    BY <1>1, <2>1, Gone DEF PermitLine
  <2>3. {q \in Requests : pc'[q] = "permit"} = {q \in Requests : pc[q] = "permit"} \ {r}
    BY <1>1, <1>4 DEF Leave, MoveTo
  <2>4. QED
    BY <2>2, <2>3 DEF PermitLine, Once, In
<1>5. ASSUME NEW r \in Requests, CheckBlock(r) \/ Wake(r) \/ NextAttempt(r) \/ TryWindow(r)
      PROVE  PermitLine'
  <2>1. CASE CheckBlock(r)
    BY <2>1, PermitLineAlone DEF CheckBlock
  <2>2. CASE Wake(r)
    BY <2>2, PermitLineAlone DEF Wake
  <2>3. CASE NextAttempt(r)
    BY <2>3, PermitLineAlone DEF NextAttempt
  <2>4. CASE TryWindow(r)
    BY <2>4, PermitLineAlone DEF TryWindow
  <2>5. QED
    BY <1>5, <2>1, <2>2, <2>3, <2>4
<1>6. CASE UNCHANGED <<waiters, pc>>
  BY <1>6 DEF PermitLine, Once, In
<1>7. QED
  BY <1>2, <1>3, <1>4, <1>5, <1>6 DEF Next, RequestStep, Tick, requestVars, vars

\* rate_limiter.rs acquire_concurrency: every request that asks for a permit stands
\* in the semaphore's queue, once, and whoever hung up has left it: so no permit is
\* handed to a request that is gone.
PermitsReachTheWaiting == [][\A r \in Requests : GetPermit(r) => pc[r] = "permit"]_vars

\* A waiting request is never overtaken: its place in the queue does not grow, and
\* every permit that is handed out brings it forward or is its own.
PermitsInOrder ==
    [][\A i \in 1 .. Len(waiters) :
          \/ pc'[waiters[i]] # "permit"
          \/ \E j \in 1 .. i :
                /\ Follows(waiters', waiters, i, j)
                /\ (\E r \in Requests : GetPermit(r)) => j < i]_vars

LEMMA PermitTurn ==
    ASSUME QueueOK, PermitLine, [Next]_vars, NEW i \in 1 .. Len(waiters), pc'[waiters[i]] = "permit"
    PROVE  \E j \in 1 .. i :
                /\ Follows(waiters', waiters, i, j)
                /\ (\E r \in Requests : GetPermit(r)) => j < i
<1> USE DEF Holding
<1>1. /\ pc \in [Requests -> Holding \cup {"idle", "permit"}] /\ waiters \in Seq(Requests)
      /\ Len(waiters) \in Nat /\ Once(waiters)
  BY DEF QueueOK, PermitLine
<1>2. CASE \E r \in Requests : GetPermit(r)
  <2>1. PICK r \in Requests : GetPermit(r)
    BY <1>2
  <2>2. waiters' = Tail(waiters) /\ waiters # <<>> /\ Head(waiters) = r /\ pc'[r] = "gate"
    BY <1>1, <2>1 DEF GetPermit, MoveTo
  <2>3. i > 1 /\ Follows(waiters', waiters, i, i - 1)
    BY <1>1, <2>2, Served
  <2>4. i - 1 \in 1 .. i /\ i - 1 < i
    BY <2>3
  <2>5. QED
    BY <2>3, <2>4
<1>3. CASE ~ \E r \in Requests : GetPermit(r)
  <2>1. ASSUME NEW r \in Requests, AskPermit(r) PROVE \E j \in 1 .. i : Follows(waiters', waiters, i, j)
    <3>1. r \notin In(waiters)
      BY <2>1 DEF PermitLine, AskPermit
    <3>2. Follows(waiters', waiters, i, i)
      BY <1>1, <2>1, <3>1, Joined DEF AskPermit
    <3>3. QED
      BY <3>2 DEF Follows
  <2>2. ASSUME NEW r \in Requests, Leave(r) PROVE \E j \in 1 .. i : Follows(waiters', waiters, i, j)
    <3>1. waiters' = Dequeued(waiters, r) /\ pc'[r] = "idle"
      BY <1>1, <2>2, SameCut DEF Leave, MoveTo
    <3>2. waiters[i] # r
      BY <3>1
    <3>3. QED
      BY <1>1, <3>1, <3>2, Gone
  <2>3. CASE waiters' = waiters
    <3>1. Follows(waiters', waiters, i, i)
      BY <1>1, <2>3 DEF Follows
    <3>2. QED
      BY <1>3, <3>1 DEF Follows
  <2>4. (\E r \in Requests : AskPermit(r) \/ Leave(r)) \/ waiters' = waiters
    BY <1>3 DEF Next, RequestStep, Tick, requestVars, vars, CheckBlock, Wake, TryWindow, NextAttempt
  <2>5. QED
    BY <1>3, <2>1, <2>2, <2>3, <2>4
<1>4. QED
  BY <1>2, <1>3

\* rate_limiter.rs acquire_concurrency: first come, first served, however requests
\* come, end and hang up in the queue: what PermitGranted needs besides the fairness
\* of the runtime.
THEOREM FirstComeFirstServed ==
    Spec => []PermitLine /\ PermitsReachTheWaiting /\ PermitsInOrder
<1>1. QueueOK /\ PermitLine /\ [Next]_vars
        => [\A r \in Requests : GetPermit(r) => pc[r] = "permit"]_vars
  <2> SUFFICES ASSUME QueueOK, PermitLine, NEW r \in Requests, GetPermit(r) PROVE pc[r] = "permit"
    OBVIOUS
  <2>1. r \in In(waiters)
    BY Served DEF QueueOK, PermitLine, GetPermit
  <2>2. QED
    BY <2>1 DEF PermitLine
<1>2. QueueOK /\ PermitLine /\ [Next]_vars
        => [\A i \in 1 .. Len(waiters) :
              \/ pc'[waiters[i]] # "permit"
              \/ \E j \in 1 .. i :
                    /\ Follows(waiters', waiters, i, j)
                    /\ (\E r \in Requests : GetPermit(r)) => j < i]_vars
  BY PermitTurn
<1>3. LimiterInv => QueueOK
  BY DEF LimiterInv
<1>4. QueueOK /\ PermitLine /\ [Next]_vars => PermitLine'
  BY StepPermitLine
<1>5. QED
  BY <1>1, <1>2, <1>3, <1>4, InitLimiter, StepLimiter, InitPermitLine, PTL
     DEF Spec, PermitsReachTheWaiting, PermitsInOrder

-----------------------------------------------------------------------------
(***************************************************************************)
(* The lock of the rotations: whoever waits for it stands in its queue,    *)
(* once, and every step under the lock brings everybody in the queue       *)
(* nearer.                                                                 *)
(***************************************************************************)
LockLine == Once(lockQueue) /\ In(lockQueue) = {t \in Tasks : doing[t] = "queued"}

LEMMA InitLockLine == RotationInit => LockLine
BY DEF RotationInit, LockLine, Once, In

\* A task that moves and leaves the queue as it is was not waiting for the lock.
LEMMA LockLineAlone ==
    ASSUME LockTyped, LockLine, NEW t \in Tasks, NEW place, Goes(t, place),
           place # "queued", doing[t] # "queued", lockQueue' = lockQueue
    PROVE  LockLine'
<1>1. {u \in Tasks : doing'[u] = "queued"} = {u \in Tasks : doing[u] = "queued"}
  BY DEF LockTyped, Goes
<1>2. QED
  BY <1>1 DEF LockLine, Once, In

LEMMA LockLineJoined ==
    ASSUME LockTyped, LockLine, NEW t \in Tasks, Goes(t, "queued"), doing[t] # "queued",
           lockQueue' = Append(lockQueue, t)
    PROVE  LockLine'
<1>1. Once(lockQueue) /\ t \notin In(lockQueue) /\ lockQueue \in Seq(Tasks)
  BY DEF LockLine, LockTyped
<1>2. Once(lockQueue') /\ In(lockQueue') = In(lockQueue) \cup {t}
  BY <1>1, Joined
<1>3. {u \in Tasks : doing'[u] = "queued"} = {u \in Tasks : doing[u] = "queued"} \cup {t}
  BY DEF LockTyped, Goes
<1>4. QED
  BY <1>2, <1>3 DEF LockLine, Once, In

LEMMA StepLockLine ==
    ASSUME LockTyped, LockLine, [RotationNext]_rotationVars
    PROVE  LockLine'
<1> USE RotationConstants DEF Locked, Commands, Places
<1>1. doing \in [Tasks -> Places] /\ lockQueue \in Seq(Tasks)
  BY DEF LockTyped
<1>2. ASSUME NEW t \in Rotators, LastResort(t) PROVE LockLine'
  BY <1>2, LockLineJoined DEF LastResort
<1>3. ASSUME NEW t \in Syncs, Reconfigure(t) PROVE LockLine'
  BY <1>3, LockLineJoined DEF Reconfigure
<1>4. ASSUME NEW t \in Rotators, StartRequest(t) \/ EndRequest(t) PROVE LockLine'
  <2>1. CASE StartRequest(t)
    BY <2>1, LockLineAlone DEF StartRequest, lockVars
  <2>2. CASE EndRequest(t)
    BY <2>2, LockLineAlone DEF EndRequest, lockVars
  <2>3. QED
    BY <1>4, <2>1, <2>2
<1>5. ASSUME NEW t \in Rotators, Cancel(t) PROVE LockLine'
  <2>1. Once(lockQueue') /\ In(lockQueue') = In(lockQueue) \ {t}
    BY <1>1, <1>5, Gone DEF Cancel, LockLine
  <2>2. {u \in Tasks : doing'[u] = "queued"} = {u \in Tasks : doing[u] = "queued"} \ {t}
    BY <1>1, <1>5 DEF Cancel, Goes
  <2>3. QED
    BY <2>1, <2>2 DEF LockLine, Once, In
<1>6. ASSUME NEW t \in Tasks, Work(t) PROVE LockLine'
  <2>1. CASE Lock(t)
    <3>1. Once(lockQueue') /\ In(lockQueue') = In(lockQueue) \ {t}
      BY <1>1, <2>1, Served DEF Lock, LockLine
    <3>2. FirstStep(t) # "queued"
      BY DEF FirstStep
    <3>3. {u \in Tasks : doing'[u] = "queued"} = {u \in Tasks : doing[u] = "queued"} \ {t}
      BY <1>1, <2>1, <3>2 DEF Lock, Goes
    <3>4. QED
      BY <3>1, <3>3 DEF LockLine, Once, In
  <2>2. CASE Skip(t)
    BY <2>2, LockLineAlone DEF Skip, AnswerOk, Release
  <2>3. CASE StampStart(t)
    BY <2>3, LockLineAlone DEF StampStart, lockVars
  <2>4. CASE Disconnect(t)
    BY <2>4, LockLineAlone DEF Disconnect, lockVars
  <2>5. CASE Delete(t)
    BY <2>5, LockLineAlone DEF Delete, Return, Release, lockVars
  <2>6. CASE NewRegistration(t)
    BY <2>6, LockLineAlone DEF NewRegistration, Return, Release, lockVars
  <2>7. CASE Connect(t)
    BY <2>7, LockLineAlone DEF Connect, Return, Release, lockVars
  <2>8. CASE StampEnd(t)
    BY <2>8, LockLineAlone DEF StampEnd, AnswerOk, Release
  <2>9. CASE LiftBlock(t)
    BY <2>9, LockLineAlone DEF LiftBlock, lockVars
  <2>10. QED
    BY <1>6, <2>1, <2>2, <2>3, <2>4, <2>5, <2>6, <2>7, <2>8, <2>9 DEF Work
<1>7. CASE UNCHANGED <<doing, lockQueue>>
  BY <1>7 DEF LockLine, Once, In
<1>8. QED
  BY <1>2, <1>3, <1>4, <1>5, <1>6, <1>7
     DEF RotationNext, ClockTicks, BlockRunsOut, LeftOverRuns, rotationVars, lockVars

\* How many commands and stamps the holder has before it at the most.
CommandsLeft(place) ==
    CASE place = "check" -> 6
      [] place = "disconnect" -> 5
      [] place = "delete" -> 4
      [] place = "new" -> 3
      [] place = "connect" -> 2
      [] place = "stamp" -> 1
      [] OTHER -> 0

HeldFor == IF holder = NoTask THEN 0 ELSE CommandsLeft(doing[holder])

\* What the task at place i of the queue waits for: seven steps for everybody
\* before it, itself included, and what the holder has left.
Ahead(i, left) == 7 * i + left

StepsUnderLock(t) == Lock(t) \/ (doing[t] \in Locked /\ Work(t))

\* ip_rotator.rs: a task that waits for the lock is never overtaken and never set
\* back, and every step of the holder, and every change of hands, brings it nearer.
TurnComes ==
    [][\A i \in 1 .. Len(lockQueue) :
          \/ doing'[lockQueue[i]] # "queued"
          \/ \E j \in 1 .. i :
                /\ Follows(lockQueue', lockQueue, i, j)
                /\ Ahead(j, HeldFor') <= Ahead(i, HeldFor)
                /\ (\E t \in Tasks : StepsUnderLock(t)) => Ahead(j, HeldFor') < Ahead(i, HeldFor)]_rotationVars

\* Whether a step under the lock is at hand: the holder's next one, none of which
\* has a guard of its own, or the change of hands.
CanStep(t) ==
    \/ doing[t] \in Locked
    \/ holder = NoTask /\ lockQueue # <<>> /\ Head(lockQueue) = t

\* Nobody waits for a lock that nobody will release or take.
LockMoves == (\E t \in Tasks : doing[t] = "queued") => \E t \in Tasks : CanStep(t)

LEMMA LockAtHand == LockTyped /\ LockLine => LockMoves
<1> SUFFICES ASSUME LockTyped, LockLine, NEW t \in Tasks, doing[t] = "queued"
             PROVE  \E u \in Tasks : CanStep(u)
  BY DEF LockMoves
<1>1. CASE holder # NoTask
  <2>1. holder \in Tasks /\ doing[holder] \in Locked
    BY <1>1 DEF LockTyped
  <2>2. QED
    BY <2>1 DEF CanStep
<1>2. CASE holder = NoTask
  <2>1. lockQueue \in Seq(Tasks) /\ t \in In(lockQueue)
    BY DEF LockTyped, LockLine
  <2>2. lockQueue # <<>>
    BY <2>1 DEF In
  <2>3. Head(lockQueue) \in Tasks
    BY <2>1, <2>2, HeadTailProperties
  <2>4. QED
    BY <1>2, <2>2, <2>3 DEF CanStep
<1>3. QED
  BY <1>1, <1>2

LEMMA CommandsCounted == \A place : CommandsLeft(place) \in 0 .. 6
BY DEF CommandsLeft

LEMMA HeldCounted == HeldFor \in 0 .. 6
BY CommandsCounted DEF HeldFor

LEMMA HeldCountedNext == (HeldFor \in 0 .. 6)'
BY HeldCounted, PTL

LEMMA Nearer ==
    ASSUME NEW i \in Int, NEW j \in Int, NEW h \in 0 .. 6, NEW k \in 0 .. 6
    PROVE  /\ j <= i /\ h <= k => Ahead(j, h) <= Ahead(i, k)
           /\ j <= i /\ h < k => Ahead(j, h) < Ahead(i, k)
           /\ j < i => Ahead(j, h) < Ahead(i, k)
BY DEF Ahead

\* A holder that works on has fewer commands left; one that releases, none.
LEMMA HolderWorks ==
    ASSUME LockTyped, NEW t \in Tasks, NEW place \in Places, doing[t] \in Locked, Goes(t, place),
           \/ holder' = NoTask
           \/ holder' = holder /\ CommandsLeft(place) < CommandsLeft(doing[t])
    PROVE  HeldFor' < HeldFor
<1>1. holder = t /\ t # NoTask /\ HeldFor = CommandsLeft(doing[t]) /\ doing'[t] = place
  BY RotationConstants DEF LockTyped, HeldFor, Goes
<1>2. CommandsLeft(doing[t]) \in 1 .. 6
  BY DEF Locked, Commands, CommandsLeft
<1>3. CASE holder' = NoTask
  BY <1>1, <1>2, <1>3 DEF HeldFor
<1>4. CASE holder' = holder /\ CommandsLeft(place) < CommandsLeft(doing[t])
  <2>1. HeldFor' = CommandsLeft(place)
    BY <1>1, <1>4 DEF HeldFor
  <2>2. QED
    BY <1>1, <1>4, <2>1
<1>5. QED
  BY <1>3, <1>4

LEMMA UnderLockShrinks ==
    ASSUME LockTyped, NEW t \in Tasks, doing[t] \in Locked, Work(t), ~Lock(t)
    PROVE  HeldFor' < HeldFor /\ lockQueue' = lockQueue
<1> USE DEF Locked, Commands, Places
<1>1. CASE Skip(t)
  BY <1>1, HolderWorks DEF Skip, AnswerOk, Release
<1>2. CASE StampStart(t)
  BY <1>2, HolderWorks DEF StampStart, lockVars, CommandsLeft
<1>3. CASE Disconnect(t)
  BY <1>3, HolderWorks DEF Disconnect, lockVars, CommandsLeft
<1>4. CASE Delete(t)
  BY <1>4, HolderWorks DEF Delete, Return, Release, lockVars, CommandsLeft
<1>5. CASE NewRegistration(t)
  BY <1>5, HolderWorks DEF NewRegistration, Return, Release, lockVars, CommandsLeft
<1>6. CASE Connect(t)
  BY <1>6, HolderWorks DEF Connect, Return, Release, lockVars, CommandsLeft
<1>7. CASE StampEnd(t)
  BY <1>7, HolderWorks DEF StampEnd, AnswerOk, Release
<1>8. ~LiftBlock(t)
  BY DEF LiftBlock
<1>9. QED
  BY <1>1, <1>2, <1>3, <1>4, <1>5, <1>6, <1>7, <1>8 DEF Work

\* A step of a task that neither holds the lock nor takes it.
LEMMA HolderElsewhere ==
    ASSUME LockTyped, NEW t \in Tasks, NEW place, Goes(t, place), doing[t] \notin Locked,
           holder' = holder
    PROVE  HeldFor' = HeldFor
<1>1. CASE holder = NoTask
  BY <1>1 DEF HeldFor
<1>2. CASE holder # NoTask
  <2>1. holder \in Tasks /\ holder # t
    BY <1>2 DEF LockTyped
  <2>2. doing'[holder] = doing[holder]
    BY <2>1 DEF LockTyped, Goes
  <2>3. QED
    BY <1>2, <2>2 DEF HeldFor
<1>3. QED
  BY <1>1, <1>2

LEMMA LockTurn ==
    ASSUME LockTyped, LockLine, NEW u \in Tasks, Lock(u),
           NEW i \in 1 .. Len(lockQueue), doing'[lockQueue[i]] = "queued"
    PROVE  \E j \in 1 .. i : Follows(lockQueue', lockQueue, i, j) /\ Ahead(j, HeldFor') < Ahead(i, HeldFor)
<1>1. /\ lockQueue \in Seq(Tasks) /\ lockQueue # <<>> /\ Once(lockQueue)
      /\ lockQueue' = Tail(lockQueue) /\ Head(lockQueue) = u /\ Len(lockQueue) \in Nat
  BY DEF Lock, LockTyped, LockLine
<1>2. doing'[u] # "queued"
  BY DEF Lock, Goes, LockTyped, FirstStep
<1>3. i > 1 /\ Follows(lockQueue', lockQueue, i, i - 1)
  BY <1>1, <1>2, Served
<1>4. Ahead(i - 1, HeldFor') < Ahead(i, HeldFor)
  <2>1. i \in Int /\ i - 1 \in Int /\ i - 1 < i
    OBVIOUS
  <2>2. QED
    BY <2>1, HeldCounted, HeldCountedNext, Nearer
<1>5. i - 1 \in 1 .. i
  BY <1>3
<1>6. QED
  BY <1>3, <1>4, <1>5

LEMMA WorkTurn ==
    ASSUME LockTyped, LockLine, NEW t \in Tasks, StepsUnderLock(t),
           NEW i \in 1 .. Len(lockQueue), doing'[lockQueue[i]] = "queued"
    PROVE  \E j \in 1 .. i : Follows(lockQueue', lockQueue, i, j) /\ Ahead(j, HeldFor') < Ahead(i, HeldFor)
<1>1. CASE Lock(t)
  BY <1>1, LockTurn
<1>2. CASE ~Lock(t)
  <2>1. HeldFor' < HeldFor /\ lockQueue' = lockQueue
    BY <1>2, UnderLockShrinks DEF StepsUnderLock
  <2>2. Follows(lockQueue', lockQueue, i, i) /\ i \in 1 .. i
    BY <2>1 DEF Follows, LockTyped
  <2>3. Ahead(i, HeldFor') < Ahead(i, HeldFor)
    <3>1. i \in Int /\ i <= i
      OBVIOUS
    <3>2. QED
      BY <2>1, <3>1, HeldCounted, HeldCountedNext, Nearer
  <2>4. QED
    BY <2>2, <2>3
<1>3. QED
  BY <1>1, <1>2

\* A step that leaves the queue, or adds to its end, and the holder.
LEMMA NobodySetBack ==
    ASSUME LockTyped, LockLine, NEW i \in 1 .. Len(lockQueue), HeldFor' <= HeldFor,
           \/ lockQueue' = lockQueue
           \/ \E t \in Tasks : doing[t] # "queued" /\ lockQueue' = Append(lockQueue, t)
    PROVE  \E j \in 1 .. i : Follows(lockQueue', lockQueue, i, j) /\ Ahead(j, HeldFor') <= Ahead(i, HeldFor)
<1>1. Follows(lockQueue', lockQueue, i, i)
  <2>1. CASE lockQueue' = lockQueue
    BY <2>1 DEF Follows, LockTyped
  <2>2. ASSUME NEW t \in Tasks, doing[t] # "queued", lockQueue' = Append(lockQueue, t)
        PROVE  Follows(lockQueue', lockQueue, i, i)
    <3>1. lockQueue \in Seq(Tasks) /\ Once(lockQueue) /\ t \notin In(lockQueue)
      BY <2>2 DEF LockTyped, LockLine
    <3>2. QED
      BY <2>2, <3>1, Joined
  <2>3. QED
    BY <2>1, <2>2
<1>2. i \in 1 .. i
  OBVIOUS
<1>3. Ahead(i, HeldFor') <= Ahead(i, HeldFor)
  <2>1. i \in Int /\ i <= i
    OBVIOUS
  <2>2. QED
    BY <2>1, HeldCounted, HeldCountedNext, Nearer
<1>4. QED
  BY <1>1, <1>2, <1>3

LEMMA CancelTurn ==
    ASSUME LockTyped, LockLine, NEW t \in Rotators, Cancel(t),
           NEW i \in 1 .. Len(lockQueue), doing'[lockQueue[i]] = "queued"
    PROVE  \E j \in 1 .. i : Follows(lockQueue', lockQueue, i, j) /\ Ahead(j, HeldFor') <= Ahead(i, HeldFor)
<1>1. t \in Tasks /\ lockQueue \in Seq(Tasks) /\ Once(lockQueue) /\ lockQueue' = Dequeued(lockQueue, t)
  BY RotationConstants DEF LockTyped, LockLine, Cancel
<1>2. lockQueue[i] # t
  BY <1>1 DEF Cancel, Goes, LockTyped
<1>3. PICK j \in 1 .. i : Follows(lockQueue', lockQueue, i, j)
  BY <1>1, <1>2, Gone
<1>4. HeldFor' <= HeldFor
  <2>1. CASE holder = t
    <3>1. HeldFor' = 0
      BY <2>1 DEF Cancel, HeldFor
    <3>2. QED
      BY <3>1, HeldCounted
  <2>2. CASE holder # t
    <3>1. doing[t] \notin Locked /\ holder' = holder
      BY <1>1, <2>2 DEF Cancel, LockTyped
    <3>2. HeldFor' = HeldFor
      BY <1>1, <3>1, HolderElsewhere DEF Cancel
    <3>3. QED
      BY <3>2, HeldCounted
  <2>3. QED
    BY <2>1, <2>2
<1>5. Ahead(j, HeldFor') <= Ahead(i, HeldFor)
  <2>1. j \in Int /\ i \in Int /\ j <= i
    BY <1>3
  <2>2. QED
    BY <2>1, <1>4, HeldCounted, HeldCountedNext, Nearer
<1>6. QED
  BY <1>3, <1>5

LEMMA OtherTurns ==
    ASSUME LockTyped, LockLine, [RotationNext]_rotationVars, ~ \E t \in Tasks : StepsUnderLock(t),
           NEW i \in 1 .. Len(lockQueue), doing'[lockQueue[i]] = "queued"
    PROVE  \E j \in 1 .. i : Follows(lockQueue', lockQueue, i, j) /\ Ahead(j, HeldFor') <= Ahead(i, HeldFor)
<1> USE RotationConstants DEF Locked, Commands
<1>1. ASSUME NEW t \in Rotators, StartRequest(t) PROVE HeldFor' = HeldFor /\ lockQueue' = lockQueue
  BY <1>1, HolderElsewhere DEF StartRequest, lockVars
<1>2. ASSUME NEW t \in Rotators, EndRequest(t) PROVE HeldFor' = HeldFor /\ lockQueue' = lockQueue
  BY <1>2, HolderElsewhere DEF EndRequest, lockVars
<1>3. ASSUME NEW t \in Rotators, LastResort(t)
      PROVE  HeldFor' = HeldFor /\ doing[t] # "queued" /\ lockQueue' = Append(lockQueue, t)
  BY <1>3, HolderElsewhere DEF LastResort
<1>4. ASSUME NEW t \in Syncs, Reconfigure(t)
      PROVE  HeldFor' = HeldFor /\ doing[t] # "queued" /\ lockQueue' = Append(lockQueue, t)
  BY <1>4, HolderElsewhere DEF Reconfigure
<1>5. ASSUME NEW t \in Tasks, Work(t) PROVE HeldFor' = HeldFor /\ lockQueue' = lockQueue
  <2>1. LiftBlock(t)
    BY <1>5 DEF StepsUnderLock, Work, Skip, StampStart, Disconnect, Delete, NewRegistration,
                Connect, StampEnd
  <2>2. QED
    BY <2>1, HolderElsewhere DEF LiftBlock, lockVars
<1>6. CASE \/ ClockTicks \/ BlockRunsOut \/ UNCHANGED rotationVars
           \/ \E command \in Commands : LeftOverRuns(command)
  <2>1. UNCHANGED <<doing, holder, lockQueue>>
    BY <1>6 DEF ClockTicks, BlockRunsOut, LeftOverRuns, rotationVars, lockVars
  <2>2. HeldFor' = HeldFor
    BY <2>1 DEF HeldFor
  <2>3. QED
    BY <2>1, <2>2, HeldCounted, NobodySetBack
<1>7. ASSUME NEW t \in Rotators, Cancel(t)
      PROVE  \E j \in 1 .. i : Follows(lockQueue', lockQueue, i, j) /\ Ahead(j, HeldFor') <= Ahead(i, HeldFor)
  BY <1>7, CancelTurn
<1>8. ASSUME HeldFor' = HeldFor,
             \/ lockQueue' = lockQueue
             \/ \E t \in Tasks : doing[t] # "queued" /\ lockQueue' = Append(lockQueue, t)
      PROVE  \E j \in 1 .. i : Follows(lockQueue', lockQueue, i, j) /\ Ahead(j, HeldFor') <= Ahead(i, HeldFor)
  BY <1>8, HeldCounted, NobodySetBack
<1>9. QED
  BY <1>1, <1>2, <1>3, <1>4, <1>5, <1>6, <1>7, <1>8 DEF RotationNext

\* ip_rotator.rs IP_ROTATION_LOCK: a task that waits for the lock stands in its queue,
\* nobody overtakes it, and whatever commands fail, rotations are skipped and clients
\* hang up, there is a step under the lock at hand, each of which brings it nearer:
\* what TasksReturn needs besides the fairness of the runtime.
THEOREM TheLockComesRound == RotationSpec => []LockLine /\ []LockMoves /\ TurnComes
<1>1. LockTyped /\ LockLine /\ [RotationNext]_rotationVars
        => [\A i \in 1 .. Len(lockQueue) :
              \/ doing'[lockQueue[i]] # "queued"
              \/ \E j \in 1 .. i :
                    /\ Follows(lockQueue', lockQueue, i, j)
                    /\ Ahead(j, HeldFor') <= Ahead(i, HeldFor)
                    /\ (\E t \in Tasks : StepsUnderLock(t)) => Ahead(j, HeldFor') < Ahead(i, HeldFor)]_rotationVars
  <2> SUFFICES ASSUME LockTyped, LockLine, [RotationNext]_rotationVars,
                      NEW i \in 1 .. Len(lockQueue), doing'[lockQueue[i]] = "queued"
               PROVE  \E j \in 1 .. i :
                         /\ Follows(lockQueue', lockQueue, i, j)
                         /\ Ahead(j, HeldFor') <= Ahead(i, HeldFor)
                         /\ (\E t \in Tasks : StepsUnderLock(t)) => Ahead(j, HeldFor') < Ahead(i, HeldFor)
    OBVIOUS
  <2>1. CASE \E t \in Tasks : StepsUnderLock(t)
    <3>1. PICK j \in 1 .. i : Follows(lockQueue', lockQueue, i, j) /\ Ahead(j, HeldFor') < Ahead(i, HeldFor)
      BY <2>1, WorkTurn
    <3>2. Ahead(j, HeldFor') <= Ahead(i, HeldFor)
      BY <3>1, HeldCounted, HeldCountedNext DEF Ahead
    <3>3. QED
      BY <3>1, <3>2
  <2>2. CASE ~ \E t \in Tasks : StepsUnderLock(t)
    BY <2>2, OtherTurns
  <2>3. QED
    BY <2>1, <2>2
<1>2. RotationInv => LockTyped
  BY TypeParts DEF RotationInv
<1>3. LockTyped /\ LockLine /\ [RotationNext]_rotationVars => LockLine'
  BY StepLockLine
<1>4. QED
  BY <1>1, <1>2, <1>3, LockAtHand, InitRotation, StepRotation, InitLockLine, PTL
     DEF RotationSpec, TurnComes

-----------------------------------------------------------------------------
(***************************************************************************)
(* Nobody waits for the window longer than it takes to open.               *)
(***************************************************************************)
ForWindow(r) == pc[r] \in {"window", "sleep"}
SleepLeft(r) == IF pc[r] = "sleep" THEN sleep[r] ELSE 0

\* The grants that will still be in the window when w more have passed.
StillIn(times, w) == {i \in 1 .. Len(times) : times[i] < RateWindow - w}

\* What keeps r from being granted: the grants it will find in the window when it
\* looks next, and the time until then.
Blocking(r) == Cardinality(StillIn(requestTimes, SleepLeft(r)))
UntilLook(r) == IF pc[r] = "sleep" THEN sleep[r] + 1 ELSE 0

Sooner(r) == \/ Blocking(r)' < Blocking(r)
             \/ Blocking(r)' = Blocking(r) /\ UntilLook(r)' < UntilLook(r)

SomebodyGranted == \E s \in Requests : pc[s] = "window" /\ pc'[s] = "granted"

\* While nobody is granted, no step sets back who waits for the window; each look at
\* it, and each tick of a sleep, brings it nearer.
WindowOpens ==
    [][\A r \in Requests : ForWindow(r) /\ ForWindow(r)' /\ ~SomebodyGranted =>
          /\ Sooner(r) \/ (Blocking(r)' = Blocking(r) /\ UntilLook(r)' = UntilLook(r))
          /\ pc'[r] # pc[r] \/ (Tick /\ SleepLeft(r) > 0) => Sooner(r)]_vars

BlockingBounded ==
    \A r \in Requests : ForWindow(r) =>
        Blocking(r) \in 0 .. RateLimit /\ UntilLook(r) \in 0 .. RateWindow + 1

\* A sleeper wakes at the very moment at which a grant leaves the window: neither
\* earlier, to look in vain, nor later.
OnTime(r) ==
    pc[r] = "sleep" /\ sleep[r] > 0 =>
        \E i \in 1 .. Len(requestTimes) : requestTimes[i] + sleep[r] = RateWindow

NobodyOversleeps == \A r \in Requests : OnTime(r)

LEMMA PoppedAt ==
    ASSUME NEW times \in Seq(Ages)
    PROVE  \E n \in 0 .. Len(times) :
              /\ \A i \in 1 .. n : times[i] = RateWindow
              /\ Len(Popped(times)) = Len(times) - n
              /\ \A i \in 1 .. Len(times) - n : Popped(times)[i] = times[n + i]
<1>1. PICK n \in 0 .. Len(times) : Old(times, n)
  BY OldExists
<1>2. Len(times) \in Nat /\ \A i \in 1 .. Len(times) : times[i] \in Ages
  OBVIOUS
<1>3. n + 1 \in Int /\ Len(times) \in Int /\ \A i \in n + 1 .. Len(times) : times[i] \in Ages
  BY <1>1, <1>2
<1>4. /\ Len(SubSeq(times, n + 1, Len(times)))
           = IF n + 1 <= Len(times) THEN Len(times) - (n + 1) + 1 ELSE 0
      /\ \A i \in 1 .. Len(times) - (n + 1) + 1 :
            SubSeq(times, n + 1, Len(times))[i] = times[(n + 1) + i - 1]
  BY <1>3, SubSeqProperties
<1>5. Popped(times) = SubSeq(times, n + 1, Len(times))
  BY <1>1, PoppedIs
<1>6. \A i \in 1 .. n : times[i] = RateWindow
  <2> SUFFICES ASSUME NEW i \in 1 .. n PROVE times[i] = RateWindow
    OBVIOUS
  <2>1. times[i] >= RateWindow /\ times[i] \in Ages
    BY <1>1, <1>2 DEF Old
  <2>2. QED
    BY <2>1, Constants DEF Ages
<1>7. /\ Len(Popped(times)) = Len(times) - n
      /\ \A i \in 1 .. Len(times) - n : Popped(times)[i] = times[n + i]
  BY <1>1, <1>2, <1>4, <1>5
<1>8. QED
  BY <1>6, <1>7

LEMMA StillInFinite ==
    ASSUME NEW times \in Seq(Ages), NEW w
    PROVE  /\ IsFiniteSet(StillIn(times, w)) /\ Cardinality(StillIn(times, w)) \in Nat
           /\ Cardinality(StillIn(times, w)) <= Len(times)
<1>1. Len(times) \in Nat /\ StillIn(times, w) \subseteq 1 .. Len(times)
  BY DEF StillIn
<1>2. IsFiniteSet(1 .. Len(times)) /\ Cardinality(1 .. Len(times)) = Len(times)
  <2>1. PICK n \in Nat : n = Len(times)
    BY <1>1
  <2>2. IsFiniteSet(1 .. n) /\ Cardinality(1 .. n) = n
    BY FS_Interval
  <2>3. QED
    BY <2>1, <2>2
<1>3. QED
  BY <1>1, <1>2, FS_Subset, FS_CardinalityType

\* Popping takes away nothing that would still be in the window.
LEMMA PoppedStillIn ==
    ASSUME NEW times \in Seq(Ages), NEW w \in Nat, Popped(times) \in Seq(Ages)
    PROVE  Cardinality(StillIn(Popped(times), w)) = Cardinality(StillIn(times, w))
<1>1. PICK n \in 0 .. Len(times) :
              /\ \A i \in 1 .. n : times[i] = RateWindow
              /\ Len(Popped(times)) = Len(times) - n
              /\ \A i \in 1 .. Len(times) - n : Popped(times)[i] = times[n + i]
  BY PoppedAt
<1> DEFINE live == Popped(times)
           S == StillIn(live, w)
           T == StillIn(times, w)
           f == [j \in S |-> n + j]
<1>2. Len(times) \in Nat /\ n \in Nat /\ RateWindow \in Nat
  BY Constants
<1>3. \A j \in S : j \in 1 .. Len(times) - n /\ n + j \in T
  BY <1>1, <1>2 DEF StillIn
<1>4. \A i \in T : i - n \in S /\ n + (i - n) = i
  <2> SUFFICES ASSUME NEW i \in T PROVE i - n \in S /\ n + (i - n) = i
    OBVIOUS
  <2>1. i \in 1 .. Len(times) /\ times[i] < RateWindow - w
    BY DEF StillIn
  <2>2. ~(i <= n)
    BY <1>1, <1>2, <2>1
  <2>3. i - n \in 1 .. Len(times) - n /\ n + (i - n) = i
    BY <1>2, <2>1, <2>2
  <2>4. live[i - n] = times[i]
    BY <1>1, <2>3
  <2>5. QED
    BY <1>1, <2>1, <2>3, <2>4 DEF StillIn
<1>5. f \in [S -> T] /\ (\A t \in T : \E s \in S : f[s] = t)
  BY <1>3, <1>4
<1>6. \A a, b \in S : f[a] = f[b] => a = b
  BY <1>2, <1>3
<1>7. f \in Surjection(S, T) /\ f \in Injection(S, T)
  <2>1. DOMAIN f = S
    OBVIOUS
  <2>2. QED
    BY <1>5, <1>6, <2>1 DEF Surjection, Injection, IsInjective
<1>8. IsFiniteSet(S)
  BY StillInFinite
<1> HIDE DEF S, T, f, live
<1>9. Cardinality(T) = Cardinality(S)
  BY <1>7, <1>8, FS_Surjection
<1>10. QED
  BY <1>9 DEF S, T, live

\* Time brings what will be in the window and who waits for it nearer alike.
LEMMA OlderStillIn ==
    ASSUME NEW times \in Seq(Ages), NEW w \in Nat
    PROVE  /\ w > 0 => StillIn(Older(times), w - 1) = StillIn(times, w)
           /\ StillIn(Older(times), 0) \subseteq StillIn(times, 0)
<1>1. /\ Len(Older(times)) = Len(times)
      /\ \A i \in 1 .. Len(times) :
            Older(times)[i] = IF times[i] < RateWindow THEN times[i] + 1 ELSE RateWindow
  BY OlderFacts
<1>2. \A i \in 1 .. Len(times) : times[i] \in Ages
  OBVIOUS
<1>3. RateWindow \in Nat
  BY Constants
<1>4. ASSUME w > 0, NEW i \in 1 .. Len(times)
      PROVE  Older(times)[i] < RateWindow - (w - 1) <=> times[i] < RateWindow - w
  BY <1>1, <1>2, <1>3, <1>4 DEF Ages
<1>5. ASSUME NEW i \in 1 .. Len(times), Older(times)[i] < RateWindow - 0
      PROVE  times[i] < RateWindow - 0
  BY <1>1, <1>2, <1>3, <1>5 DEF Ages
<1>6. QED
  BY <1>1, <1>4, <1>5 DEF StillIn

LEMMA SleepTyped == TimesOK => \A r \in Requests : SleepLeft(r) \in Nat /\ UntilLook(r) \in Nat
BY Constants DEF TimesOK, SleepLeft, UntilLook

\* A look at the window that does not succeed.
LEMMA LookInVain ==
    ASSUME LimiterInv, NEW s \in Requests, TryWindow(s), ~SomebodyGranted
    PROVE  /\ pc[s] = "window" /\ pc' = [pc EXCEPT ![s] = "sleep"]
           /\ requestTimes' = Popped(requestTimes) /\ requestTimes' \in Seq(Ages)
           /\ Len(requestTimes') > 0
           /\ sleep' = [sleep EXCEPT ![s] = RateWindow - requestTimes'[1]]
           /\ \A i \in 1 .. Len(requestTimes') : requestTimes'[i] \in 0 .. RateWindow - 1
<1> DEFINE live == Popped(requestTimes)
<1>1. live \in Seq(Ages) /\ live \in Seq(0 .. RateWindow - 1)
  BY PoppedFacts DEF LimiterInv, TimesOK
<1>2. pc \in [Requests -> Holding \cup {"idle", "permit"}]
  BY DEF LimiterInv, QueueOK
<1>3. ~HasRoom(live)
  <2>1. CASE MoveTo(s, "granted")
    BY <1>2, <2>1 DEF SomebodyGranted, TryWindow, MoveTo
  <2>2. QED
    BY <2>1 DEF TryWindow
<1>4. Len(live) > 0
  BY <1>1, <1>3, Constants DEF HasRoom
<1>5. /\ pc[s] = "window" /\ pc' = [pc EXCEPT ![s] = "sleep"]
      /\ requestTimes' = live /\ sleep' = [sleep EXCEPT ![s] = RateWindow - Head(live)]
  BY <1>3 DEF TryWindow, MoveTo
<1> HIDE DEF live
<1>6. Head(live) = live[1]
  BY <1>1, <1>4
<1>7. \A i \in 1 .. Len(live) : live[i] \in 0 .. RateWindow - 1
  BY <1>1, ElementOfSeq
<1>8. /\ requestTimes' \in Seq(Ages) /\ Len(requestTimes') > 0
      /\ \A i \in 1 .. Len(requestTimes') : requestTimes'[i] \in 0 .. RateWindow - 1
      /\ Head(live) = requestTimes'[1]
  BY <1>1, <1>4, <1>5, <1>6, <1>7, Zenon
<1>9. sleep' = [sleep EXCEPT ![s] = RateWindow - requestTimes'[1]]
  BY <1>5, <1>8, Zenon
<1>10. QED
  BY <1>5, <1>8, <1>9, Zenon DEF live

\* Its own sleep ends when the oldest of those in its way has left.
LEMMA LooksAgain ==
    ASSUME LimiterInv, NEW r \in Requests, TryWindow(r), ~SomebodyGranted
    PROVE  Sooner(r)
<1> DEFINE live == requestTimes'
           w == RateWindow - live[1]
<1>1. /\ pc[r] = "window" /\ pc'[r] = "sleep" /\ sleep'[r] = w
      /\ live = Popped(requestTimes) /\ live \in Seq(Ages) /\ Len(live) \in Nat /\ Len(live) > 0
      /\ \A i \in 1 .. Len(live) : live[i] \in 0 .. RateWindow - 1
  BY LookInVain DEF LimiterInv, QueueOK, TimesOK
<1>2. requestTimes \in Seq(Ages)
  BY DEF LimiterInv, TimesOK
<1>3. /\ SleepLeft(r) = 0 /\ SleepLeft(r)' = w
      /\ Blocking(r) = Cardinality(StillIn(requestTimes, 0))
      /\ Blocking(r)' = Cardinality(StillIn(live, w))
  BY <1>1 DEF SleepLeft, Blocking
<1>4. Blocking(r) = Cardinality(StillIn(live, 0))
  <2>1. 0 \in Nat
    OBVIOUS
  <2>2. Cardinality(StillIn(Popped(requestTimes), 0)) = Cardinality(StillIn(requestTimes, 0))
    BY <1>1, <1>2, <2>1, PoppedStillIn
  <2>3. QED
    BY <1>1, <1>3, <2>2
<1>5. /\ StillIn(live, w) \subseteq StillIn(live, 0)
      /\ 1 \in StillIn(live, 0) /\ 1 \notin StillIn(live, w)
  <2>1. RateWindow \in Nat /\ live[1] \in 0 .. RateWindow - 1 /\ 1 \in 1 .. Len(live)
    BY <1>1, Constants
  <2>2. QED
    BY <1>1, <2>1 DEF StillIn
<1>6. IsFiniteSet(StillIn(live, 0))
  BY <1>1, StillInFinite
<1> HIDE DEF live, w
<1>7. Cardinality(StillIn(live, w)) < Cardinality(StillIn(live, 0))
  <2>1. /\ Cardinality(StillIn(live, w)) <= Cardinality(StillIn(live, 0))
        /\ Cardinality(StillIn(live, w)) # Cardinality(StillIn(live, 0))
    BY <1>5, <1>6, FS_Subset
  <2>2. Cardinality(StillIn(live, w)) \in Nat /\ Cardinality(StillIn(live, 0)) \in Nat
    BY <1>5, <1>6, FS_Subset, FS_CardinalityType
  <2>3. QED
    BY <2>1, <2>2
<1>8. QED
  BY <1>3, <1>4, <1>7 DEF Sooner

\* Popping and looking in vain do not matter to the others.
LEMMA OthersLook ==
    ASSUME LimiterInv, NEW s \in Requests, TryWindow(s), ~SomebodyGranted,
           NEW r \in Requests, r # s
    PROVE  pc'[r] = pc[r] /\ Blocking(r)' = Blocking(r) /\ UntilLook(r)' = UntilLook(r)
<1>1. /\ pc'[r] = pc[r] /\ sleep'[r] = sleep[r]
      /\ requestTimes' = Popped(requestTimes) /\ requestTimes' \in Seq(Ages)
  BY LookInVain DEF LimiterInv, QueueOK, TimesOK
<1>2. requestTimes \in Seq(Ages) /\ SleepLeft(r) \in Nat
  BY SleepTyped DEF LimiterInv, TimesOK
<1>3. SleepLeft(r)' = SleepLeft(r) /\ UntilLook(r)' = UntilLook(r)
  BY <1>1 DEF SleepLeft, UntilLook
<1>4. Cardinality(StillIn(Popped(requestTimes), SleepLeft(r))) = Cardinality(StillIn(requestTimes, SleepLeft(r)))
  BY <1>1, <1>2, PoppedStillIn
<1>5. QED
  BY <1>1, <1>3, <1>4 DEF Blocking

\* A tick: a sleep goes on, or a grant leaves the window.
LEMMA TickBrings ==
    ASSUME LimiterInv, Tick, NEW r \in Requests
    PROVE  /\ SleepLeft(r) > 0 => Sooner(r)
           /\ Sooner(r) \/ (Blocking(r)' = Blocking(r) /\ UntilLook(r)' = UntilLook(r))
<1>1. /\ requestTimes \in Seq(Ages) /\ SleepLeft(r) \in Nat
      /\ requestTimes' = Older(requestTimes) /\ pc' = pc
      /\ sleep \in [Requests -> 0 .. RateWindow + BlockSeconds]
      /\ sleep'[r] = IF sleep[r] > 0 THEN sleep[r] - 1 ELSE sleep[r]
  BY SleepTyped DEF LimiterInv, TimesOK, Tick, Elapse
<1>2. sleep[r] \in Nat
  BY <1>1, Constants
<1>3. CASE SleepLeft(r) > 0
  <2>1. pc[r] = "sleep" /\ SleepLeft(r)' = SleepLeft(r) - 1 /\ UntilLook(r)' < UntilLook(r)
    BY <1>1, <1>2, <1>3 DEF SleepLeft, UntilLook
  <2>2. StillIn(Older(requestTimes), SleepLeft(r) - 1) = StillIn(requestTimes, SleepLeft(r))
    BY <1>1, <1>3, OlderStillIn
  <2>3. Blocking(r)' = Blocking(r)
    BY <1>1, <2>1, <2>2 DEF Blocking
  <2>4. QED
    BY <2>1, <2>3 DEF Sooner
<1>4. CASE ~(SleepLeft(r) > 0)
  <2>1. SleepLeft(r) = 0 /\ SleepLeft(r)' = 0 /\ UntilLook(r)' = UntilLook(r)
    BY <1>1, <1>2, <1>4 DEF SleepLeft, UntilLook
  <2>2. 0 \in Nat
    OBVIOUS
  <2>3. StillIn(Older(requestTimes), 0) \subseteq StillIn(requestTimes, 0)
    BY <1>1, <2>2, OlderStillIn
  <2>4. /\ IsFiniteSet(StillIn(requestTimes, 0))
        /\ Cardinality(StillIn(requestTimes, 0)) \in Nat
    BY <1>1, StillInFinite
  <2>5. /\ Cardinality(StillIn(Older(requestTimes), 0)) <= Cardinality(StillIn(requestTimes, 0))
        /\ Cardinality(StillIn(Older(requestTimes), 0)) \in Nat
    BY <2>3, <2>4, FS_Subset, FS_CardinalityType
  <2>6. /\ Blocking(r) = Cardinality(StillIn(requestTimes, 0))
        /\ Blocking(r)' = Cardinality(StillIn(Older(requestTimes), 0))
    BY <1>1, <2>1 DEF Blocking
  <2>7. QED
    BY <1>4, <2>1, <2>4, <2>5, <2>6 DEF Sooner
<1>5. QED
  BY <1>3, <1>4

\* What the other steps do to those who wait for the window: they wake.
LEMMA RestBrings ==
    ASSUME LimiterInv, Next, ~Tick, NEW r \in Requests, ForWindow(r), ForWindow(r)',
           \A s \in Requests : ~TryWindow(s)
    PROVE  \/ pc'[r] # pc[r] /\ Sooner(r)
           \/ pc'[r] = pc[r] /\ Blocking(r)' = Blocking(r) /\ UntilLook(r)' = UntilLook(r)
<1>1. /\ pc \in [Requests -> Holding \cup {"idle", "permit"}]
      /\ sleep \in [Requests -> 0 .. RateWindow + BlockSeconds]
      /\ requestTimes' = requestTimes
  BY DEF LimiterInv, QueueOK, TimesOK, Next, RequestStep, AskPermit, GetPermit, CheckBlock,
         Wake, NextAttempt, Leave, SetBlocked, ClearBlock, limiterVars
<1>2. CASE Wake(r)
  <2>1. pc[r] = "sleep" /\ pc'[r] = "window" /\ sleep[r] = 0
    BY <1>1, <1>2 DEF Wake, MoveTo, ForWindow
  <2>2. Blocking(r)' = Blocking(r) /\ UntilLook(r)' < UntilLook(r)
    BY <1>1, <2>1 DEF Blocking, UntilLook, SleepLeft
  <2>3. QED
    BY <2>1, <2>2 DEF Sooner
<1>3. CASE ~Wake(r)
  <2>1. pc'[r] = pc[r] /\ sleep'[r] = sleep[r]
    <3>1. ASSUME NEW s \in Requests, RequestStep(s) PROVE pc'[r] = pc[r] /\ sleep'[r] = sleep[r]
      <4>1. CASE s = r
        BY <1>1, <1>3, <3>1, <4>1
        DEF RequestStep, AskPermit, GetPermit, CheckBlock, NextAttempt, Leave, MoveTo, ForWindow
      <4>2. CASE s # r
        BY <1>1, <3>1, <4>2
        DEF RequestStep, AskPermit, GetPermit, CheckBlock, Wake, NextAttempt, Leave, MoveTo
      <4>3. QED
        BY <4>1, <4>2
    <3>2. QED
      BY <3>1 DEF Next, requestVars
  <2>2. QED
    BY <1>1, <2>1 DEF Blocking, UntilLook, SleepLeft
<1>4. QED
  BY <1>2, <1>3

LEMMA WindowStep ==
    ASSUME LimiterInv, Next, NEW r \in Requests, ForWindow(r), ForWindow(r)', ~SomebodyGranted
    PROVE  /\ Sooner(r) \/ (Blocking(r)' = Blocking(r) /\ UntilLook(r)' = UntilLook(r))
           /\ pc'[r] # pc[r] \/ (Tick /\ SleepLeft(r) > 0) => Sooner(r)
<1>1. CASE Tick
  <2>1. pc'[r] = pc[r]
    BY <1>1 DEF Tick
  <2>2. QED
    BY <1>1, <2>1, TickBrings
<1>2. ASSUME ~Tick, NEW s \in Requests, TryWindow(s)
      PROVE  /\ Sooner(r) \/ (Blocking(r)' = Blocking(r) /\ UntilLook(r)' = UntilLook(r))
             /\ pc'[r] # pc[r] => Sooner(r)
  <2>1. CASE s = r
    BY <1>2, <2>1, LooksAgain
  <2>2. CASE s # r
    BY <1>2, <2>2, OthersLook
  <2>3. QED
    BY <2>1, <2>2
<1>3. CASE ~Tick /\ \A s \in Requests : ~TryWindow(s)
  BY <1>3, RestBrings
<1>4. QED
  BY <1>1, <1>2, <1>3

(* ------------------------------ on time ---------------------------------- *)

\* The grant a sleeper waits for is popped with it at the earliest.
LEMMA PoppedOnTime ==
    ASSUME NEW times \in Seq(Ages), NEW w \in Nat, w > 0,
           NEW i \in 1 .. Len(times), times[i] + w = RateWindow
    PROVE  \E j \in 1 .. Len(Popped(times)) : Popped(times)[j] + w = RateWindow
<1>1. PICK n \in 0 .. Len(times) :
              /\ \A k \in 1 .. n : times[k] = RateWindow
              /\ Len(Popped(times)) = Len(times) - n
              /\ \A k \in 1 .. Len(times) - n : Popped(times)[k] = times[n + k]
  BY PoppedAt
<1>2. Len(times) \in Nat /\ RateWindow \in Nat
  BY Constants
<1>3. ~(i <= n)
  BY <1>1, <1>2
<1>4. i - n \in 1 .. Len(times) - n /\ n + (i - n) = i
  BY <1>2, <1>3
<1>5. QED
  BY <1>1, <1>4

LEMMA TickOnTime ==
    ASSUME LimiterInv, Tick, NEW r \in Requests, OnTime(r)
    PROVE  OnTime(r)'
<1>1. /\ requestTimes \in Seq(Ages) /\ requestTimes' = Older(requestTimes) /\ pc' = pc
      /\ sleep[r] \in Nat
      /\ sleep'[r] = IF sleep[r] > 0 THEN sleep[r] - 1 ELSE sleep[r]
  BY Constants DEF LimiterInv, TimesOK, Tick, Elapse
<1>2. SUFFICES ASSUME pc[r] = "sleep", sleep'[r] > 0
               PROVE  \E i \in 1 .. Len(requestTimes') : requestTimes'[i] + sleep'[r] = RateWindow
  BY <1>1 DEF OnTime
<1>3. sleep[r] > 0 /\ sleep'[r] = sleep[r] - 1
  BY <1>1, <1>2
<1>4. PICK i \in 1 .. Len(requestTimes) : requestTimes[i] + sleep[r] = RateWindow
  BY <1>2, <1>3 DEF OnTime
<1>5. requestTimes[i] \in Ages /\ RateWindow \in Nat
  BY <1>1, Constants, ElementOfSeq
<1>6. requestTimes[i] < RateWindow
  BY <1>1, <1>3, <1>4, <1>5 DEF Ages
<1>7. Len(Older(requestTimes)) = Len(requestTimes) /\ Older(requestTimes)[i] = requestTimes[i] + 1
  BY <1>1, <1>6, OlderFacts
<1>8. Older(requestTimes)[i] + sleep'[r] = RateWindow
  BY <1>1, <1>3, <1>4, <1>5, <1>7 DEF Ages
<1>9. QED
  BY <1>1, <1>7, <1>8

LEMMA LookOnTime ==
    ASSUME LimiterInv, NEW s \in Requests, TryWindow(s), NEW r \in Requests, OnTime(r)
    PROVE  OnTime(r)'
<1> DEFINE live == Popped(requestTimes)
<1>1. /\ requestTimes \in Seq(Ages) /\ live \in Seq(Ages) /\ Len(live) \in Nat
      /\ sleep \in [Requests -> 0 .. RateWindow + BlockSeconds] /\ sleep[r] \in Nat
      /\ pc \in [Requests -> Holding \cup {"idle", "permit"}]
  BY PoppedFacts, Constants DEF LimiterInv, TimesOK, QueueOK
<1>2. SUFFICES ASSUME pc'[r] = "sleep", sleep'[r] > 0
               PROVE  \E i \in 1 .. Len(requestTimes') : requestTimes'[i] + sleep'[r] = RateWindow
  BY DEF OnTime
<1>3. CASE s = r
  <2>1. ~SomebodyGranted
    BY <1>1, <1>2, <1>3 DEF SomebodyGranted, TryWindow, MoveTo
  <2>2. /\ Len(requestTimes') > 0 /\ sleep'[r] = RateWindow - requestTimes'[1]
        /\ requestTimes' = live /\ requestTimes'[1] \in 0 .. RateWindow - 1
    BY <1>1, <1>3, <2>1, LookInVain
  <2>3. 1 \in 1 .. Len(requestTimes') /\ requestTimes'[1] + sleep'[r] = RateWindow
    BY <1>1, <2>2, Constants
  <2>4. QED
    BY <2>3
<1>4. CASE s # r
  <2>1. pc[r] = "sleep" /\ sleep'[r] = sleep[r]
    BY <1>1, <1>2, <1>4 DEF TryWindow, MoveTo
  <2>2. PICK i \in 1 .. Len(requestTimes) : requestTimes[i] + sleep[r] = RateWindow
    BY <1>2, <2>1 DEF OnTime
  <2>3. PICK j \in 1 .. Len(live) : live[j] + sleep[r] = RateWindow
    BY <1>1, <1>2, <2>1, <2>2, PoppedOnTime
  <2>4. requestTimes' = live \/ requestTimes' = Append(live, 0)
    BY DEF TryWindow
  <2> HIDE DEF live
  <2>5. j \in 1 .. Len(requestTimes') /\ requestTimes'[j] = live[j]
    <3>1. CASE requestTimes' = live
      BY <3>1
    <3>2. CASE requestTimes' = Append(live, 0)
      <4>1. 0 \in Ages
        BY Constants DEF Ages
      <4>2. Len(Append(live, 0)) = Len(live) + 1 /\ Append(live, 0)[j] = live[j]
        BY <1>1, <4>1, AppendProperties
      <4>3. QED
        BY <1>1, <3>2, <4>2
    <3>3. QED
      BY <2>4, <3>1, <3>2
  <2>6. QED
    BY <2>1, <2>3, <2>5
<1>5. QED
  BY <1>3, <1>4

LEMMA StepOnTime ==
    ASSUME LimiterInv, NobodyOversleeps, [Next]_vars
    PROVE  NobodyOversleeps'
<1> SUFFICES ASSUME NEW r \in Requests, OnTime(r) PROVE OnTime(r)'
  BY DEF NobodyOversleeps
<1>1. CASE Tick
  BY <1>1, TickOnTime
<1>2. ASSUME NEW s \in Requests, TryWindow(s) PROVE OnTime(r)'
  BY <1>2, LookOnTime
<1>3. ASSUME NEW s \in Requests, RequestStep(s), ~TryWindow(s) PROVE OnTime(r)'
  <2>1. /\ pc \in [Requests -> Holding \cup {"idle", "permit"}]
        /\ sleep \in [Requests -> 0 .. RateWindow + BlockSeconds]
    BY DEF LimiterInv, QueueOK, TimesOK
  <2>2. requestTimes' = requestTimes /\ (pc'[r] = "sleep" => pc[r] = "sleep" /\ sleep'[r] = sleep[r])
    BY <1>3, <2>1
    DEF RequestStep, AskPermit, GetPermit, CheckBlock, Wake, NextAttempt, Leave, MoveTo, limiterVars
  <2>3. QED
    BY <2>2 DEF OnTime
<1>4. CASE UNCHANGED <<requestVars, grants, requestTimes>>
  BY <1>4 DEF requestVars, OnTime
<1>5. QED
  BY <1>1, <1>2, <1>3, <1>4 DEF Next, vars, limiterVars, SetBlocked, ClearBlock

LEMMA BlockingFits == LimiterInv /\ NobodyOversleeps => BlockingBounded
<1> SUFFICES ASSUME LimiterInv, NobodyOversleeps, NEW r \in Requests, ForWindow(r)
             PROVE  Blocking(r) \in 0 .. RateLimit /\ UntilLook(r) \in 0 .. RateWindow + 1
  BY DEF BlockingBounded
<1> DEFINE w == SleepLeft(r)
<1>1. /\ requestTimes \in Seq(Ages) /\ grants = Popped(requestTimes) /\ grants \in Seq(Ages)
      /\ Len(grants) \in Nat /\ Len(grants) <= RateLimit /\ w \in Nat
      /\ sleep[r] \in Nat /\ RateWindow \in Nat /\ RateLimit \in Nat
  BY PoppedFacts, SleepTyped, Constants DEF LimiterInv, TimesOK
<1>2. Blocking(r) = Cardinality(StillIn(grants, w))
  BY <1>1, PoppedStillIn DEF Blocking
<1>3. Blocking(r) \in 0 .. RateLimit
  <2>1. Cardinality(StillIn(grants, w)) \in Nat /\ Cardinality(StillIn(grants, w)) <= Len(grants)
    BY <1>1, StillInFinite
  <2>2. QED
    BY <1>1, <1>2, <2>1
<1>4. UntilLook(r) \in 0 .. RateWindow + 1
  <2>1. ASSUME pc[r] = "sleep", sleep[r] > 0 PROVE sleep[r] <= RateWindow
    <3>1. PICK i \in 1 .. Len(requestTimes) : requestTimes[i] + sleep[r] = RateWindow
      BY <2>1 DEF NobodyOversleeps, OnTime
    <3>2. requestTimes[i] \in Ages
      BY <1>1, ElementOfSeq
    <3>3. QED
      BY <1>1, <3>1, <3>2 DEF Ages
  <2>2. QED
    BY <1>1, <2>1 DEF UntilLook
<1>5. QED
  BY <1>3, <1>4

\* rate_limiter.rs acquire: who is refused sleeps until a grant leaves the window and
\* no longer, and until somebody is granted every look and every tick brings its own
\* grant nearer: what WindowMoves needs besides the fairness of the runtime.
THEOREM TheWindowOpens == Spec => []NobodyOversleeps /\ []BlockingBounded /\ WindowOpens
<1>1. Init => NobodyOversleeps
  BY DEF Init, NobodyOversleeps, OnTime
<1>2. LimiterInv /\ [Next]_vars
        => [\A r \in Requests : ForWindow(r) /\ ForWindow(r)' /\ ~SomebodyGranted =>
              /\ Sooner(r) \/ (Blocking(r)' = Blocking(r) /\ UntilLook(r)' = UntilLook(r))
              /\ pc'[r] # pc[r] \/ (Tick /\ SleepLeft(r) > 0) => Sooner(r)]_vars
  BY WindowStep
<1>3. QED
  BY <1>1, <1>2, InitLimiter, StepLimiter, StepOnTime, BlockingFits, PTL DEF Spec, WindowOpens

=============================================================================
