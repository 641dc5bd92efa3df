------------------------- MODULE ContentParsersProofs -------------------------
(***************************************************************************)
(* ContentParsers for any answers and any way of cutting them into chunks. *)
(*                                                                         *)
(* What the two parsers and the client hold are pieces of the answer.  The *)
(* tool parser's buffer is always in the order of the answer, behind all   *)
(* text it has passed on, and what has become text, thinking or part of a  *)
(* tool is disjoint (Pieces).  The think parser's buffer is what has come  *)
(* last; it is in the state of a reader who has read up to that buffer,    *)
(* and has shown exactly the thinking that this reader has seen (Read).    *)
(*                                                                         *)
(* The loops end: what is left to do of an answer shrinks with every turn  *)
(* (Turns).  And without calls nothing is lost: the text that has come is  *)
(* shown, or in one of the buffers (TextKept).                             *)
(***************************************************************************)
EXTENDS ContentParsers, SequenceTheorems, WellFoundedInduction, TLAPS

(* -------------------------------- numbers -------------------------------- *)

LEMMA LeastNumber ==
    ASSUME NEW T \in SUBSET Nat, T # {}
    PROVE  \E n \in T : \A m \in T : n <= m
<1>1. \E n \in T : \A m \in T : ~ (<<m, n>> \in OpToRel(<, Nat))
  BY NatLessThanWellFounded, WFMin
<1>2. PICK n \in T : \A m \in T : ~ (<<m, n>> \in OpToRel(<, Nat))
  BY <1>1
<1>3. \A m \in T : ~ (m < n)
  BY <1>2 DEF OpToRel
<1>4. QED
  BY <1>3

LEMMA MinIsLeast ==
    ASSUME NEW T \in SUBSET Nat, T # {}
    PROVE  Min(T) \in T /\ \A m \in T : Min(T) <= m
BY LeastNumber DEF Min

LEMMA MaxIsGreatest ==
    ASSUME NEW N \in Nat, NEW T \in SUBSET (1 .. N), T # {}
    PROVE  Max(T) \in T /\ \A m \in T : m <= Max(T)
<1> DEFINE U == {N - m : m \in T}
<1>1. U \in SUBSET Nat /\ U # {}
  <2>1. \A m \in T : N - m \in Nat
    OBVIOUS
  <2>2. QED
    BY <2>1
<1>2. PICK u \in U : \A v \in U : u <= v
  BY <1>1, LeastNumber
<1>3. PICK n \in T : u = N - n
  BY <1>2
<1>4. \A m \in T : n >= m
  <2>1. ASSUME NEW m \in T PROVE n >= m
    <3>1. N - m \in U
      OBVIOUS
    <3>2. N - n <= N - m
      BY <1>2, <1>3, <3>1
    <3>3. QED
      BY <3>2
  <2>2. QED
    BY <2>1
<1>5. Max(T) \in T /\ \A m \in T : Max(T) >= m
  BY <1>4 DEF Max
<1>6. QED
  BY <1>5

LEMMA Induction ==
    ASSUME NEW N \in Nat, NEW P, 0 \in P, \A n \in 1 .. N : n - 1 \in P => n \in P
    PROVE  \A n \in 0 .. N : n \in P
<1> DEFINE T == (0 .. N) \ P
<1>1. SUFFICES ASSUME T # {} PROVE FALSE
  OBVIOUS
<1>2. T \in SUBSET Nat
  OBVIOUS
<1>3. PICK n \in T : \A m \in T : n <= m
  BY <1>1, <1>2, LeastNumber
<1>4. n \in 1 .. N /\ n - 1 \in 0 .. N
  BY <1>3
<1>5. n - 1 \notin T
  BY <1>3, <1>4
<1>6. QED
  BY <1>3, <1>4, <1>5

Recursive(f, S, N, base, step) ==
    f \in [0 .. N -> S] /\ f[0] = base /\ \A n \in 1 .. N : f[n] = step[<<f[n - 1], n>>]

\* A function on 0 .. N can be defined by recursion.
LEMMA Recursion ==
    ASSUME NEW S, NEW N \in Nat, NEW base \in S, NEW step \in [S \X (1 .. N) -> S]
    PROVE  \E f : Recursive(f, S, N, base, step)
<1> DEFINE Good(m) == \E f \in [0 .. m -> S] : f[0] = base /\ \A n \in 1 .. m : f[n] = step[<<f[n - 1], n>>]
<1>1. Good(0)
  <2> DEFINE g == [n \in 0 .. 0 |-> base]
  <2>1. g \in [0 .. 0 -> S] /\ g[0] = base
    OBVIOUS
  <2> HIDE DEF g
  <2>2. 1 .. 0 = {}
    OBVIOUS
  <2>3. \A n \in 1 .. 0 : g[n] = step[<<g[n - 1], n>>]
    BY <2>2
  <2>4. QED
    BY <2>1, <2>3
<1>2. ASSUME NEW m \in 1 .. N, Good(m - 1) PROVE Good(m)
  <2>1. PICK f \in [0 .. m - 1 -> S] : f[0] = base /\ \A n \in 1 .. m - 1 : f[n] = step[<<f[n - 1], n>>]
    BY <1>2
  <2> DEFINE next == step[<<f[m - 1], m>>]
             g == [n \in 0 .. m |-> IF n = m THEN next ELSE f[n]]
  <2>2. f[m - 1] \in S
    OBVIOUS
  <2>3. next \in S
    BY <2>2
  <2>4. g \in [0 .. m -> S]
    <3> HIDE DEF next
    <3>1. \A n \in 0 .. m : n # m => n \in 0 .. m - 1
      OBVIOUS
    <3>2. QED
      BY <2>3, <3>1
  <2>5. \A n \in 0 .. m - 1 : g[n] = f[n]
    <3> HIDE DEF next
    <3>1. QED
      OBVIOUS
  <2>6. g[m] = next
    OBVIOUS
  <2> HIDE DEF g
  <2>7. g[0] = base
    BY <2>1, <2>5
  <2>8. ASSUME NEW n \in 1 .. m PROVE g[n] = step[<<g[n - 1], n>>]
    <3>1. CASE n = m
      <4>1. g[n - 1] = f[m - 1]
        BY <2>5, <3>1
      <4>2. QED
        BY <2>6, <3>1, <4>1
    <3>2. CASE n # m
      <4>1. n \in 1 .. m - 1 /\ n - 1 \in 0 .. m - 1 /\ n \in 0 .. m - 1
        BY <3>2
      <4>2. g[n] = f[n] /\ g[n - 1] = f[n - 1]
        BY <2>5, <4>1
      <4>3. QED
        BY <2>1, <4>1, <4>2
    <3>3. QED
      BY <3>1, <3>2
  <2>9. QED
    BY <2>4, <2>7, <2>8
<1> DEFINE P == {m \in 0 .. N : Good(m)}
<1> HIDE DEF Good
<1>3. 0 \in P
  BY <1>1
<1>4. \A n \in 1 .. N : n - 1 \in P => n \in P
  <2>1. SUFFICES ASSUME NEW n \in 1 .. N, n - 1 \in P PROVE n \in P
    OBVIOUS
  <2>2. Good(n)
    BY <2>1, <1>2
  <2>3. QED
    BY <2>2
<1>5. N \in P
  <2> HIDE DEF P
  <2>1. \A n \in 0 .. N : n \in P
    BY <1>3, <1>4, Induction
  <2>2. QED
    BY <2>1
<1>6. QED
  BY <1>5 DEF Good, Recursive

(* ------------------------------- sequences ------------------------------- *)

Below(X, Y) == \A x \in X, y \in Y : x < y

LEMMA Typed ==
    ASSUME NEW s \in Seq(Nat)
    PROVE  /\ Len(s) \in Nat /\ DOMAIN s = 1 .. Len(s)
           /\ \A i \in 1 .. Len(s) : s[i] \in Nat
           /\ Range(s) = {s[i] : i \in 1 .. Len(s)} /\ Range(s) \subseteq Nat
BY DEF Range

LEMMA NoneInOrder == <<>> \in Seq(Nat) /\ InOrder(<<>>) /\ Range(<<>>) = {} /\ Len(<<>>) = 0
BY DEF InOrder, Range

\* A piece of a sequence.
LEMMA Piece ==
    ASSUME NEW b \in Seq(Nat), NEW m \in Nat \ {0}, NEW n \in Int, n <= Len(b)
    PROVE  LET s == SubSeq(b, m, n)
           IN  /\ s \in Seq(Nat)
               /\ Len(s) = IF m <= n THEN n - m + 1 ELSE 0
               /\ \A i \in 1 .. Len(s) : s[i] = b[m + i - 1]
               /\ Range(s) = {b[i] : i \in m .. n}
               /\ InOrder(b) => InOrder(s)
<1> DEFINE s == SubSeq(b, m, n)
<1>1. Len(b) \in Nat /\ DOMAIN b = 1 .. Len(b) /\ \A i \in 1 .. Len(b) : b[i] \in Nat
  BY Typed
<1>2. \A i \in m .. n : b[i] \in Nat
  BY <1>1
<1>3. /\ s \in Seq(Nat)
      /\ Len(s) = IF m <= n THEN n - m + 1 ELSE 0
      /\ \A i \in 1 .. n - m + 1 : s[i] = b[m + i - 1]
  BY <1>2, SubSeqProperties
<1> HIDE DEF s
<1>4. \A i \in 1 .. Len(s) : i \in 1 .. n - m + 1 /\ m + i - 1 \in m .. n
  BY <1>3
<1>5. \A i \in 1 .. Len(s) : s[i] = b[m + i - 1]
  BY <1>3, <1>4
<1>6. Range(s) = {b[i] : i \in m .. n}
  <2>1. ASSUME NEW x \in Range(s) PROVE x \in {b[i] : i \in m .. n}
    <3>1. PICK i \in 1 .. Len(s) : x = s[i]
      BY <1>3, Typed
    <3>2. QED
      BY <1>4, <1>5, <3>1
  <2>2. ASSUME NEW i \in m .. n PROVE b[i] \in Range(s)
    <3>1. i - m + 1 \in 1 .. Len(s) /\ m + (i - m + 1) - 1 = i
      BY <1>3
    <3>2. s[i - m + 1] = b[i]
      BY <1>5, <3>1
    <3>3. QED
      BY <1>3, <3>1, <3>2, Typed
  <2>3. QED
    BY <2>1, <2>2
<1>7. ASSUME InOrder(b) PROVE InOrder(s)
  <2>1. SUFFICES ASSUME NEW i \in 1 .. Len(s), NEW j \in 1 .. Len(s), i < j PROVE s[i] < s[j]
    BY <1>3, Typed DEF InOrder
  <2>2. m + i - 1 \in 1 .. Len(b) /\ m + j - 1 \in 1 .. Len(b) /\ m + i - 1 < m + j - 1
    BY <1>1, <1>4, <2>1
  <2>3. b[m + i - 1] < b[m + j - 1]
    BY <1>1, <1>7, <2>2 DEF InOrder
  <2>4. QED
    BY <1>5, <2>3
<1>8. QED
  BY <1>3, <1>5, <1>6, <1>7 DEF s

LEMMA FromFacts ==
    ASSUME NEW b \in Seq(Nat), NEW i \in Nat \ {0}
    PROVE  /\ From(b, i) \in Seq(Nat)
           /\ Len(From(b, i)) = IF i <= Len(b) THEN Len(b) - i + 1 ELSE 0
           /\ \A k \in 1 .. Len(From(b, i)) : From(b, i)[k] = b[i + k - 1]
           /\ Range(From(b, i)) = {b[k] : k \in i .. Len(b)}
           /\ InOrder(b) => InOrder(From(b, i))
<1>1. Len(b) \in Int /\ Len(b) <= Len(b)
  BY Typed
<1>2. QED
  BY <1>1, Piece DEF From

LEMMA BeforeFacts ==
    ASSUME NEW b \in Seq(Nat), NEW i \in 1 .. Len(b) + 1
    PROVE  /\ Before(b, i) \in Seq(Nat)
           /\ Len(Before(b, i)) = i - 1
           /\ \A k \in 1 .. i - 1 : Before(b, i)[k] = b[k]
           /\ Range(Before(b, i)) = {b[k] : k \in 1 .. i - 1}
           /\ InOrder(b) => InOrder(Before(b, i))
<1>1. Len(b) \in Nat /\ i - 1 \in Int /\ i - 1 <= Len(b) /\ 1 \in Nat \ {0}
  BY Typed
<1>2. (IF 1 <= i - 1 THEN i - 1 - 1 + 1 ELSE 0) = i - 1
  BY <1>1
<1>3. QED
  BY <1>1, <1>2, Piece DEF Before

LEMMA OrderOfPlaces ==
    ASSUME NEW b \in Seq(Nat), InOrder(b), NEW i \in 1 .. Len(b), NEW j \in 1 .. Len(b)
    PROVE  (i < j <=> b[i] < b[j]) /\ (i = j <=> b[i] = b[j])
<1>1. b[i] \in Nat /\ b[j] \in Nat /\ DOMAIN b = 1 .. Len(b) /\ i \in Int /\ j \in Int
  BY Typed
<1>2. (i < j => b[i] < b[j]) /\ (j < i => b[j] < b[i])
  BY <1>1 DEF InOrder
<1>3. QED
  BY <1>1, <1>2

LEMMA Joined ==
    ASSUME NEW s \in Seq(Nat), NEW t \in Seq(Nat)
    PROVE  /\ s \o t \in Seq(Nat)
           /\ Len(s \o t) = Len(s) + Len(t)
           /\ Range(s \o t) = Range(s) \cup Range(t)
           /\ InOrder(s) /\ InOrder(t) /\ Below(Range(s), Range(t)) => InOrder(s \o t)
           /\ InOrder(s \o t) => InOrder(s) /\ InOrder(t) /\ Below(Range(s), Range(t))
<1> DEFINE u == s \o t
<1>1. Len(s) \in Nat /\ Len(t) \in Nat /\ DOMAIN s = 1 .. Len(s) /\ DOMAIN t = 1 .. Len(t)
  BY Typed
<1>2. /\ u \in Seq(Nat)
      /\ Len(u) = Len(s) + Len(t)
      /\ \A i \in 1 .. Len(s) + Len(t) : u[i] = IF i <= Len(s) THEN s[i] ELSE t[i - Len(s)]
  BY ConcatProperties
<1> HIDE DEF u
<1>3. DOMAIN u = 1 .. Len(s) + Len(t)
  BY <1>2
<1>4. \A i \in 1 .. Len(s) : i \in DOMAIN u /\ u[i] = s[i]
  BY <1>1, <1>2, <1>3
<1>5. \A i \in 1 .. Len(t) : Len(s) + i \in DOMAIN u /\ u[Len(s) + i] = t[i]
  <2>1. ASSUME NEW i \in 1 .. Len(t) PROVE Len(s) + i \in DOMAIN u /\ u[Len(s) + i] = t[i]
    <3>1. Len(s) + i \in 1 .. Len(s) + Len(t) /\ ~ (Len(s) + i <= Len(s)) /\ Len(s) + i - Len(s) = i
      BY <1>1
    <3>2. QED
      BY <1>2, <1>3, <3>1
  <2>2. QED
    BY <2>1
<1>6. \A i \in DOMAIN u : i \in 1 .. Len(s) \/ \E k \in 1 .. Len(t) : i = Len(s) + k
  <2>1. ASSUME NEW i \in DOMAIN u, i \notin 1 .. Len(s) PROVE i - Len(s) \in 1 .. Len(t)
    BY <1>1, <1>3, <2>1
  <2>2. ASSUME NEW i \in DOMAIN u PROVE i = Len(s) + (i - Len(s))
    BY <1>1, <1>3
  <2>3. QED
    BY <2>1, <2>2
<1>7. Range(u) = Range(s) \cup Range(t)
  <2>1. ASSUME NEW x \in Range(u) PROVE x \in Range(s) \cup Range(t)
    <3>1. PICK i \in DOMAIN u : x = u[i]
      BY DEF Range
    <3>2. QED
      BY <1>1, <1>4, <1>5, <1>6, <3>1 DEF Range
  <2>2. ASSUME NEW x \in Range(s) \cup Range(t) PROVE x \in Range(u)
    BY <1>1, <1>4, <1>5 DEF Range
  <2>3. QED
    BY <2>1, <2>2
<1>8. ASSUME InOrder(s), InOrder(t), Below(Range(s), Range(t)) PROVE InOrder(u)
  <2>1. SUFFICES ASSUME NEW i \in DOMAIN u, NEW j \in DOMAIN u, i < j PROVE u[i] < u[j]
    BY DEF InOrder
  <2>2. CASE i \in 1 .. Len(s) /\ j \in 1 .. Len(s)
    BY <1>1, <1>4, <1>8, <2>1, <2>2 DEF InOrder
  <2>3. CASE i \in 1 .. Len(s) /\ j \notin 1 .. Len(s)
    <3>1. PICK k \in 1 .. Len(t) : j = Len(s) + k
      BY <1>6, <2>3
    <3>2. u[i] \in Range(s) /\ u[j] \in Range(t)
      BY <1>1, <1>4, <1>5, <2>3, <3>1 DEF Range
    <3>3. QED
      BY <1>8, <3>2 DEF Below
  <2>4. CASE i \notin 1 .. Len(s)
    <3>1. PICK k \in 1 .. Len(t) : i = Len(s) + k
      BY <1>6, <2>4
    <3>2. j \notin 1 .. Len(s)
      BY <1>1, <1>3, <2>1, <2>4
    <3>3. PICK l \in 1 .. Len(t) : j = Len(s) + l
      BY <1>6, <3>2
    <3>4. k < l
      BY <1>1, <2>1, <3>1, <3>3
    <3>5. t[k] < t[l]
      BY <1>1, <1>8, <3>4 DEF InOrder
    <3>6. QED
      BY <1>5, <3>1, <3>3, <3>5
  <2>5. QED
    BY <2>2, <2>3, <2>4
<1>9. ASSUME InOrder(u) PROVE InOrder(s) /\ InOrder(t) /\ Below(Range(s), Range(t))
  <2>1. InOrder(s)
    BY <1>1, <1>4, <1>9 DEF InOrder
  <2>2. ASSUME NEW i \in 1 .. Len(t), NEW j \in 1 .. Len(t), i < j PROVE t[i] < t[j]
    <3>1. Len(s) + i < Len(s) + j
      BY <1>1, <2>2
    <3>2. QED
      BY <1>5, <1>9, <3>1 DEF InOrder
  <2>3. ASSUME NEW i \in 1 .. Len(s), NEW j \in 1 .. Len(t) PROVE s[i] < t[j]
    <3>1. i < Len(s) + j
      BY <1>1
    <3>2. QED
      BY <1>4, <1>5, <1>9, <3>1 DEF InOrder
  <2>4. QED
    BY <1>1, <2>1, <2>2, <2>3 DEF InOrder, Below, Range
<1>10. QED
  BY <1>2, <1>7, <1>8, <1>9 DEF u

(* ----------------------------- control tokens ---------------------------- *)

IsStripping(b, f) ==
    f = [n \in 0 .. Len(b) |->
           IF n = 0 THEN <<>>
           ELSE IF b[n] \in InToken(b) THEN f[n - 1] ELSE Append(f[n - 1], b[n])]

LEMMA StrippingExists ==
    ASSUME NEW b \in Seq(Nat)
    PROVE  \E f \in [0 .. Len(b) -> Seq(Nat)] : IsStripping(b, f) /\ Stripped(b) = f[Len(b)]
<1> DEFINE N == Len(b)
           step == [x \in Seq(Nat) \X (1 .. N) |->
                      IF b[x[2]] \in InToken(b) THEN x[1] ELSE Append(x[1], b[x[2]])]
<1>1. N \in Nat /\ <<>> \in Seq(Nat)
  BY Typed
<1>2. step \in [Seq(Nat) \X (1 .. N) -> Seq(Nat)]
  <2>1. ASSUME NEW x \in Seq(Nat) \X (1 .. N)
        PROVE  (IF b[x[2]] \in InToken(b) THEN x[1] ELSE Append(x[1], b[x[2]])) \in Seq(Nat)
    <3>1. x[1] \in Seq(Nat) /\ b[x[2]] \in Nat
      BY Typed
    <3>2. Append(x[1], b[x[2]]) \in Seq(Nat)
      BY <3>1, AppendProperties
    <3>3. QED
      BY <3>1, <3>2
  <2>2. QED
    BY <2>1
<1>3. \E f : Recursive(f, Seq(Nat), N, <<>>, step)
  <2> HIDE DEF step, N
  <2>1. QED
    BY <1>1, <1>2, Recursion
<1>4. PICK f \in [0 .. N -> Seq(Nat)] : f[0] = <<>> /\ \A n \in 1 .. N : f[n] = step[<<f[n - 1], n>>]
  BY <1>3 DEF Recursive
<1>5. \A n \in 1 .. N : f[n] = IF b[n] \in InToken(b) THEN f[n - 1] ELSE Append(f[n - 1], b[n])
  <2>1. ASSUME NEW n \in 1 .. N
        PROVE  f[n] = IF b[n] \in InToken(b) THEN f[n - 1] ELSE Append(f[n - 1], b[n])
    <3>1. n - 1 \in 0 .. N
      BY <1>1
    <3>2. <<f[n - 1], n>> \in Seq(Nat) \X (1 .. N)
      BY <3>1
    <3>3. QED
      BY <1>4, <3>2
  <2>2. QED
    BY <2>1
<1>6. IsStripping(b, f)
  <2>1. f = [n \in 0 .. N |-> f[n]]
    OBVIOUS
  <2>2. \A n \in 0 .. N : f[n] = IF n = 0 THEN <<>> ELSE
            IF b[n] \in InToken(b) THEN f[n - 1] ELSE Append(f[n - 1], b[n])
    <3>1. \A n \in 0 .. N : n = 0 \/ n \in 1 .. N
      BY <1>1
    <3>2. QED
      BY <1>4, <1>5, <3>1
  <2>3. QED
    BY <2>1, <2>2 DEF IsStripping
<1> DEFINE g == CHOOSE h : IsStripping(b, h)
<1>7. IsStripping(b, g)
  BY <1>6
<1>8. Stripped(b) = g[Len(b)]
  BY DEF Stripped, IsStripping
<1> HIDE DEF g
<1>9. g \in [0 .. N -> Seq(Nat)]
  <2> DEFINE P == {n \in 0 .. N : g[n] = f[n]}
  <2>1. g[0] = <<>> /\ DOMAIN g = 0 .. N /\ g = [n \in 0 .. N |-> g[n]]
    BY <1>1, <1>7 DEF IsStripping
  <2>2. \A n \in 1 .. N : g[n] = IF b[n] \in InToken(b) THEN g[n - 1] ELSE Append(g[n - 1], b[n])
    <3>1. \A n \in 1 .. N : n \in 0 .. N /\ n # 0
      OBVIOUS
    <3>2. QED
      BY <1>7, <3>1 DEF IsStripping
  <2>3. 0 \in P
    BY <1>1, <1>4, <2>1
  <2>4. \A n \in 1 .. N : n - 1 \in P => n \in P
    BY <1>5, <2>2
  <2>5. \A n \in 0 .. N : n \in P
    <3> HIDE DEF P
    <3>1. QED
      BY <1>1, <2>3, <2>4, Induction
  <2>6. QED
    BY <2>1, <2>5
<1>10. QED
  BY <1>7, <1>8, <1>9

LEMMA OneRange ==
    ASSUME NEW x
    PROVE  Range(<<x>>) = {x} /\ InOrder(<<x>>)
<1>1. DOMAIN <<x>> = {1} /\ <<x>>[1] = x
  OBVIOUS
<1>2. QED
  BY <1>1 DEF Range, InOrder

LEMMA OneMore ==
    ASSUME NEW s \in Seq(Nat), NEW x \in Nat
    PROVE  /\ Append(s, x) \in Seq(Nat) /\ Len(Append(s, x)) = Len(s) + 1
           /\ Range(Append(s, x)) = Range(s) \cup {x}
           /\ InOrder(s) /\ (\A y \in Range(s) : y < x) => InOrder(Append(s, x))
           /\ \A i \in 1 .. Len(s) : Append(s, x)[i] = s[i]
           /\ Append(s, x)[Len(s) + 1] = x
<1>1. <<x>> \in Seq(Nat) /\ Len(<<x>>) = 1 /\ <<x>>[1] = x
  OBVIOUS
<1>2. Range(<<x>>) = {x}
  BY <1>1 DEF Range
<1>3. InOrder(<<x>>)
  BY <1>1 DEF InOrder
<1>4. Append(s, x) = s \o <<x>>
  OBVIOUS
<1>5. InOrder(s) /\ (\A y \in Range(s) : y < x) => InOrder(s \o <<x>>)
  <2>1. (\A y \in Range(s) : y < x) => Below(Range(s), Range(<<x>>))
    BY <1>2 DEF Below
  <2>2. QED
    BY <1>1, <1>3, <2>1, Joined
<1>6. Range(s \o <<x>>) = Range(s) \cup {x}
  BY <1>1, <1>2, Joined
<1>7. /\ Append(s, x) \in Seq(Nat) /\ Len(Append(s, x)) = Len(s) + 1
      /\ \A i \in 1 .. Len(s) : Append(s, x)[i] = s[i]
      /\ Append(s, x)[Len(s) + 1] = x
  BY AppendProperties, Typed
<1>8. QED
  BY <1>4, <1>5, <1>6, <1>7

\* What is left without the control tokens, and it begins as before, if not with one.
LEMMA StrippedFacts ==
    ASSUME NEW b \in Seq(Nat), InOrder(b)
    PROVE  /\ Stripped(b) \in Seq(Nat) /\ InOrder(Stripped(b))
           /\ Range(Stripped(b)) \subseteq Range(b)
           /\ b # <<>> /\ b[1] \notin InToken(b) => Stripped(b) # <<>> /\ Stripped(b)[1] = b[1]
<1>1. PICK f \in [0 .. Len(b) -> Seq(Nat)] : IsStripping(b, f) /\ Stripped(b) = f[Len(b)]
  BY StrippingExists
<1> DEFINE N == Len(b)
           Passes(n) == /\ InOrder(f[n])
                        /\ \A x \in Range(f[n]) : \E i \in 1 .. n : x = b[i]
                        /\ n > 0 /\ b[1] \notin InToken(b) => Len(f[n]) > 0 /\ f[n][1] = b[1]
           P == {n \in 0 .. N : Passes(n)}
<1>2. N \in Nat /\ DOMAIN b = 1 .. N /\ \A i \in 1 .. N : b[i] \in Nat
  BY Typed
<1>3. f[0] = <<>>
  BY <1>1, <1>2 DEF IsStripping
<1>4. \A n \in 1 .. N : f[n] = IF b[n] \in InToken(b) THEN f[n - 1] ELSE Append(f[n - 1], b[n])
  <2>1. \A n \in 1 .. N : n \in 0 .. N /\ n # 0
    OBVIOUS
  <2>2. QED
    BY <1>1, <2>1 DEF IsStripping
<1>5. 0 \in P
  BY <1>2, <1>3, NoneInOrder
<1>6. ASSUME NEW n \in 1 .. N, n - 1 \in P PROVE n \in P
  <2>1. f[n - 1] \in Seq(Nat) /\ b[n] \in Nat /\ n - 1 \in 0 .. N /\ Passes(n - 1)
    BY <1>2, <1>6
  <2>2. Len(f[n - 1]) \in Nat
    BY <2>1, Typed
  <2>3. CASE b[n] \in InToken(b)
    <3>1. f[n] = f[n - 1]
      BY <1>4, <2>3
    <3>2. \A x \in Range(f[n]) : \E i \in 1 .. n : x = b[i]
      <4>1. ASSUME NEW x \in Range(f[n]) PROVE \E i \in 1 .. n : x = b[i]
        <5>1. PICK i \in 1 .. n - 1 : x = b[i]
          BY <2>1, <3>1
        <5>2. i \in 1 .. n
          OBVIOUS
        <5>3. QED
          BY <5>1, <5>2
      <4>2. QED
        BY <4>1
    <3>3. n > 0 /\ b[1] \notin InToken(b) => Len(f[n]) > 0 /\ f[n][1] = b[1]
      <4>1. b[1] \notin InToken(b) => n - 1 > 0
        BY <2>3
      <4>2. QED
        BY <2>1, <3>1, <4>1
    <3>4. QED
      BY <2>1, <3>1, <3>2, <3>3
  <2>4. CASE b[n] \notin InToken(b)
    <3>1. f[n] = Append(f[n - 1], b[n])
      BY <1>4, <2>4
    <3>2. /\ Len(f[n]) = Len(f[n - 1]) + 1 /\ Range(f[n]) = Range(f[n - 1]) \cup {b[n]}
          /\ InOrder(f[n - 1]) /\ (\A y \in Range(f[n - 1]) : y < b[n]) => InOrder(f[n])
          /\ \A i \in 1 .. Len(f[n - 1]) : f[n][i] = f[n - 1][i]
          /\ f[n][Len(f[n - 1]) + 1] = b[n]
      BY <2>1, <3>1, OneMore
    <3>3. \A y \in Range(f[n - 1]) : y < b[n]
      <4>1. ASSUME NEW y \in Range(f[n - 1]) PROVE y < b[n]
        <5>1. PICK i \in 1 .. n - 1 : y = b[i]
          BY <2>1
        <5>2. i \in 1 .. N /\ i < n
          OBVIOUS
        <5>3. QED
          BY <5>1, <5>2, OrderOfPlaces
      <4>2. QED
        BY <4>1
    <3>4. \A x \in Range(f[n]) : \E i \in 1 .. n : x = b[i]
      <4>1. ASSUME NEW x \in Range(f[n]) PROVE \E i \in 1 .. n : x = b[i]
        <5>1. CASE x = b[n]
          BY <5>1
        <5>2. CASE x \in Range(f[n - 1])
          <6>1. PICK i \in 1 .. n - 1 : x = b[i]
            BY <2>1, <5>2
          <6>2. i \in 1 .. n
            OBVIOUS
          <6>3. QED
            BY <6>1, <6>2
        <5>3. QED
          BY <3>2, <5>1, <5>2
      <4>2. QED
        BY <4>1
    <3>5. n > 0 /\ b[1] \notin InToken(b) => Len(f[n]) > 0 /\ f[n][1] = b[1]
      <4>1. CASE n = 1
        <5>1. f[n - 1] = <<>> /\ Len(f[n - 1]) = 0
          BY <1>3, <4>1
        <5>2. QED
          BY <3>2, <4>1, <5>1
      <4>2. CASE n # 1
        <5>1. n - 1 > 0
          BY <4>2
        <5>2. b[1] \notin InToken(b) => 1 \in 1 .. Len(f[n - 1])
          BY <2>1, <2>2, <5>1
        <5>3. QED
          BY <2>1, <2>2, <3>2, <5>1, <5>2
      <4>3. QED
        BY <4>1, <4>2
    <3>6. QED
      BY <2>1, <3>2, <3>3, <3>4, <3>5
  <2>5. QED
    BY <2>3, <2>4
<1>7. Passes(N)
  <2> HIDE DEF Passes
  <2>1. \A n \in 0 .. N : n \in P
    <3> HIDE DEF P
    <3>1. QED
      BY <1>2, <1>5, <1>6, Induction
  <2>2. QED
    BY <1>2, <2>1
<1>8. f[N] \in Seq(Nat) /\ Len(f[N]) \in Nat
  BY <1>2, Typed
<1>9. b # <<>> => N > 0
  BY <1>2
<1>10. Range(f[N]) \subseteq Range(b)
  BY <1>2, <1>7 DEF Range
<1>11. QED
  BY <1>1, <1>7, <1>8, <1>9, <1>10

(* --------------------------------- symbols ------------------------------- *)

LEMMA Start1 ==
    ASSUME NEW b, NEW i, NEW x
    PROVE  StartsAt(b, i, <<x>>) <=> i + 1 - 1 <= Len(b) /\ Symbol(b, i + 1 - 1) = x
BY DEF StartsAt

LEMMA Start2 ==
    ASSUME NEW b, NEW i, NEW x, NEW y
    PROVE  StartsAt(b, i, <<x, y>>) <=>
             i + 2 - 1 <= Len(b) /\ Symbol(b, i + 1 - 1) = x /\ Symbol(b, i + 2 - 1) = y
BY DEF StartsAt

LEMMA Start3 ==
    ASSUME NEW b \in Seq(Nat), NEW i \in Nat, NEW S, NEW t \in Seq(S), Len(t) = 3
    PROVE  StartsAt(b, i, t) <=>
             /\ i + 2 <= Len(b)
             /\ Symbol(b, i) = t[1] /\ Symbol(b, i + 1) = t[2] /\ Symbol(b, i + 2) = t[3]
<1>1. DOMAIN t = 1 .. 3 /\ i + 1 - 1 = i /\ i + 2 - 1 = i + 1 /\ i + 3 - 1 = i + 2
  OBVIOUS
<1>2. (\A k \in DOMAIN t : Symbol(b, i + k - 1) = t[k]) <=>
        Symbol(b, i + 1 - 1) = t[1] /\ Symbol(b, i + 2 - 1) = t[2] /\ Symbol(b, i + 3 - 1) = t[3]
  BY <1>1
<1>3. QED
  BY <1>1, <1>2 DEF StartsAt

LEMMA BulletIsNoToken ==
    ASSUME NEW b \in Seq(Nat), InOrder(b), b # <<>>, Symbol(b, 1) = "bullet"
    PROVE  b[1] \notin InToken(b)
<1>1. SUFFICES ASSUME b[1] \in InToken(b) PROVE FALSE
  OBVIOUS
<1>2. PICK i \in Matches(b, {ControlToken}) : b[1] \in {b[i], b[i + 1], b[i + 2]}
  BY <1>1 DEF InToken
<1>3. i \in 1 .. Len(b) /\ Len(b) \in Nat
  BY <1>2, Typed DEF Matches
<1>4. /\ ControlToken \in Seq({"<", "bar", "c>"})
      /\ Len(ControlToken) = 3 /\ ControlToken[1] = "<"
  BY DEF ControlToken
<1>5. i + 2 <= Len(b) /\ Symbol(b, i) = "<"
  BY <1>2, <1>3, <1>4, Start3 DEF Matches
<1>6. 1 \in 1 .. Len(b) /\ i + 1 \in 1 .. Len(b) /\ i + 2 \in 1 .. Len(b)
  BY <1>3, <1>5
<1>7. i = 1
  <2>1. CASE b[1] = b[i]
    BY <1>3, <1>6, <2>1, OrderOfPlaces
  <2>2. CASE b[1] = b[i + 1]
    <3>1. 1 = i + 1
      BY <1>6, <2>2, OrderOfPlaces
    <3>2. QED
      BY <1>3, <3>1
  <2>3. CASE b[1] = b[i + 2]
    <3>1. 1 = i + 2
      BY <1>6, <2>3, OrderOfPlaces
    <3>2. QED
      BY <1>3, <3>1
  <2>4. QED
    BY <1>2, <2>1, <2>2, <2>3
<1>8. QED
  BY <1>5, <1>7

(* ------------------- searching the tool parser's buffer ------------------ *)

Keys == STRING \cup {"json"}
Inputs == UNION {[D -> Seq(Nat)] : D \in SUBSET Keys}
Tools == [name : Nat, input : Inputs]
States == {"Text", "MatchingFunction", "ParsingParameters"}
Parsers == [state : States, buffer : Seq(Nat), name : Nat, parameters : Inputs,
            text : Seq(Nat), tools : Seq(Tools)]

\* The places a tool is made from.
UsedBy(t) == {t.name} \cup PlacesIn(t.input)

LEMMA MatchesTyped ==
    ASSUME NEW b \in Seq(Nat), NEW ps
    PROVE  Matches(b, ps) \subseteq 1 .. Len(b) /\ Matches(b, ps) \in SUBSET Nat
BY Typed DEF Matches

LEMMA FirstMatch ==
    ASSUME NEW b \in Seq(Nat), NEW ps, Matches(b, ps) # {}
    PROVE  /\ Min(Matches(b, ps)) \in Matches(b, ps) /\ Min(Matches(b, ps)) \in 1 .. Len(b)
           /\ \A i \in Matches(b, ps) : Min(Matches(b, ps)) <= i
BY MatchesTyped, MinIsLeast

LEMMA JsonCallFound ==
    ASSUME NEW b \in Seq(Nat)
    PROVE  LET m == JsonCallIn(b)
           IN  /\ m.first \in Nat
               /\ m.first > 0 => m.first \in 1 .. Len(b) /\ m.last \in m.first + 4 .. Len(b)
<1> DEFINE ps == {<<"func", "tions.", c, "{">> : c \in JsonCalls}
           ends(i) == {j \in i + 4 .. Len(b) : Symbol(b, j) = "}"}
           starts == {i \in Matches(b, ps) : ends(i) # {}}
<1>1. JsonCallIn(b) = IF starts = {} THEN [first |-> 0, last |-> 0]
                      ELSE [first |-> Min(starts), last |-> Max(ends(Min(starts)))]
  BY DEF JsonCallIn
<1>2. CASE starts = {}
  <2>1. JsonCallIn(b) = [first |-> 0, last |-> 0]
    BY <1>1, <1>2
  <2>2. QED
    BY <2>1
<1>3. CASE starts # {}
  <2>1. starts \in SUBSET Nat /\ starts \subseteq 1 .. Len(b)
    BY MatchesTyped
  <2>2. Min(starts) \in starts
    <3> HIDE DEF starts
    <3>1. QED
      BY <1>3, <2>1, MinIsLeast
  <2> DEFINE i == Min(starts)
             E == ends(i)
  <2>3. i \in 1 .. Len(b) /\ E # {}
    BY <2>1, <2>2
  <2>4. E \in SUBSET (1 .. Len(b)) /\ Len(b) \in Nat /\ E \subseteq i + 4 .. Len(b)
    <3>1. Len(b) \in Nat /\ i \in 1 .. Len(b)
      BY <2>3, Typed
    <3> HIDE DEF i
    <3>2. \A j \in i + 4 .. Len(b) : j \in 1 .. Len(b)
      BY <3>1
    <3>3. QED
      BY <3>1, <3>2
  <2>5. JsonCallIn(b) = [first |-> i, last |-> Max(E)]
    <3> HIDE DEF starts
    <3>1. QED
      BY <1>1, <1>3
  <2> HIDE DEF E, i, starts
  <2>6. Max(E) \in E
    BY <2>3, <2>4, MaxIsGreatest
  <2>7. JsonCallIn(b).first = i /\ JsonCallIn(b).last = Max(E)
    BY <2>5
  <2>8. Max(E) \in i + 4 .. Len(b)
    BY <2>4, <2>6
  <2>9. i \in Nat
    BY <2>3
  <2>10. QED
    BY <2>3, <2>7, <2>8, <2>9
<1>4. QED
  BY <1>2, <1>3

LEMMA NoParametersTyped == NoParameters \in Inputs /\ PlacesIn(NoParameters) = {}
<1>1. NoParameters \in [{} -> Seq(Nat)] /\ DOMAIN NoParameters = {}
  BY DEF NoParameters
<1>2. QED
  BY <1>1 DEF Inputs, PlacesIn

LEMMA JsonToolMade ==
    ASSUME NEW b \in Seq(Nat), NEW m, m.first \in 1 .. Len(b), m.last \in m.first + 4 .. Len(b)
    PROVE  /\ JsonTool(b, m) \in Tools /\ JsonTool(b, m).name = b[m.first + 2]
           /\ UsedBy(JsonTool(b, m)) \subseteq {b[k] : k \in m.first .. m.last}
<1> DEFINE args == SubSeq(b, m.first + 3, m.last)
           input == IF WellFormed(args) THEN [json |-> args] ELSE NoParameters
<1>1. /\ m.first + 3 \in Nat \ {0} /\ m.last \in Int /\ m.last <= Len(b)
      /\ m.first + 2 \in 1 .. Len(b) /\ m.first + 2 \in m.first .. m.last
      /\ \A k \in m.first + 3 .. m.last : k \in m.first .. m.last
  <2>1. Len(b) \in Nat
    BY Typed
  <2> DEFINE f == m.first
             l == m.last
  <2>2. f \in 1 .. Len(b) /\ l \in f + 4 .. Len(b)
    OBVIOUS
  <2>3. SUFFICES /\ f + 3 \in Nat \ {0} /\ l \in Int /\ l <= Len(b)
                 /\ f + 2 \in 1 .. Len(b) /\ f + 2 \in f .. l
                 /\ \A k \in f + 3 .. l : k \in f .. l
    OBVIOUS
  <2> HIDE DEF f, l
  <2>4. QED
    BY <2>1, <2>2
<1>2. args \in Seq(Nat) /\ Range(args) = {b[k] : k \in m.first + 3 .. m.last}
  <2> DEFINE f == m.first + 3
             l == m.last
  <2>1. f \in Nat \ {0} /\ l \in Int /\ l <= Len(b)
    BY <1>1
  <2>2. SUFFICES SubSeq(b, f, l) \in Seq(Nat) /\ Range(SubSeq(b, f, l)) = {b[k] : k \in f .. l}
    OBVIOUS
  <2> HIDE DEF f, l
  <2>3. QED
    BY <2>1, Piece
<1>3. b[m.first + 2] \in Nat
  BY <1>1, Typed
<1>4. JsonTool(b, m) = [name |-> b[m.first + 2], input |-> input]
  BY DEF JsonTool, Detected
<1>5. [json |-> args] \in [{"json"} -> Seq(Nat)] /\ {"json"} \in SUBSET Keys
  <2> HIDE DEF args
  <2>1. QED
    BY <1>2 DEF Keys
<1>6. [json |-> args] \in Inputs
  BY <1>5 DEF Inputs
<1>7. PlacesIn([json |-> args]) \subseteq Range(args)
  <2> HIDE DEF args
  <2>1. QED
    BY DEF PlacesIn
<1>8. input \in Inputs /\ PlacesIn(input) \subseteq Range(args)
  <2>1. CASE WellFormed(args)
    BY <1>6, <1>7, <2>1
  <2>2. CASE ~WellFormed(args)
    BY NoParametersTyped, <2>2
  <2>3. QED
    BY <2>1, <2>2
<1> HIDE DEF input, args
<1>9. JsonTool(b, m) \in Tools
  BY <1>3, <1>4, <1>8 DEF Tools
<1>10. UsedBy(JsonTool(b, m)) = {b[m.first + 2]} \cup PlacesIn(input)
  BY <1>4 DEF UsedBy
<1>11. JsonTool(b, m).name = b[m.first + 2]
  BY <1>4
<1>12. Range(args) \subseteq {b[k] : k \in m.first .. m.last}
  BY <1>1, <1>2
<1>13. b[m.first + 2] \in {b[k] : k \in m.first .. m.last}
  BY <1>1
<1>14. QED
  BY <1>8, <1>9, <1>10, <1>11, <1>12, <1>13

LEMMA BulletFound ==
    ASSUME NEW b \in Seq(Nat), Bullets(b) # {}
    PROVE  Min(Bullets(b)) \in 1 .. Len(b) /\ Symbol(b, Min(Bullets(b))) = "bullet"
<1> DEFINE i == Min(Bullets(b))
<1>1. i \in Matches(b, {<<"bullet">>}) /\ i \in 1 .. Len(b)
  BY FirstMatch DEF Bullets
<1> HIDE DEF i
<1>2. StartsAt(b, i, <<"bullet">>)
  BY <1>1 DEF Matches
<1>3. Symbol(b, i + 1 - 1) = "bullet"
  BY <1>2, Start1
<1>4. i + 1 - 1 = i
  BY <1>1
<1>5. QED
  BY <1>1, <1>3, <1>4 DEF i

LEMMA HeldTextFound ==
    ASSUME NEW b \in Seq(Nat)
    PROVE  HeldText(b) \in 1 .. Len(b) + 1
<1>1. ASSUME NEW p PROVE LastMatch(b, p) \in 0 .. Len(b)
  <2>1. CASE Matches(b, {p}) = {}
    BY <2>1, Typed DEF LastMatch
  <2>2. CASE Matches(b, {p}) # {}
    <3>1. Max(Matches(b, {p})) \in 1 .. Len(b)
      BY <2>2, MatchesTyped, MaxIsGreatest, Typed
    <3>2. QED
      BY <2>2, <3>1 DEF LastMatch
  <2>3. QED
    BY <2>1, <2>2
<1> DEFINE json == LastMatch(b, <<"func", "tions.">>)
           control == LastMatch(b, <<"<", "bar">>)
<1>2. json \in 0 .. Len(b) /\ control \in 0 .. Len(b) /\ Len(b) \in Nat
  BY <1>1, Typed
<1>3. HeldText(b) = IF json > 0 /\ \A i \in json .. Len(b) : Symbol(b, i) # "}" THEN json
                    ELSE IF control > 0 THEN control ELSE Len(b) + 1
  BY DEF HeldText
<1> HIDE DEF json, control
<1>4. json > 0 => json \in 1 .. Len(b) + 1
  BY <1>2
<1>5. control > 0 => control \in 1 .. Len(b) + 1
  BY <1>2
<1>6. Len(b) + 1 \in 1 .. Len(b) + 1
  BY <1>2
<1>7. QED
  BY <1>3, <1>4, <1>5, <1>6

LEMMA FunctionFound ==
    ASSUME NEW b \in Seq(Nat)
    PROVE  FunctionIn(b) \in 0 .. Len(b)
<1> DEFINE starts == {i \in DOMAIN b : Symbol(b, i) = "bullet" /\ \E j \in i + 1 .. Len(b) - 1 :
                        /\ \A k \in i + 1 .. j - 1 : Symbol(b, k) = "nl"
                        /\ Symbol(b, j) = "<" /\ Symbol(b, j + 1) \in Functions}
           ends(i) == {j \in i + 1 .. Len(b) : Symbol(b, j) \in Functions}
<1>1. FunctionIn(b) = IF starts = {} THEN 0 ELSE Min(ends(Min(starts)))
  BY DEF FunctionIn
<1>2. CASE starts = {}
  BY <1>1, <1>2, Typed
<1>3. CASE starts # {}
  <2>1. starts \in SUBSET Nat /\ starts \subseteq 1 .. Len(b)
    BY Typed
  <2>2. Min(starts) \in starts
    <3> HIDE DEF starts
    <3>1. QED
      BY <1>3, <2>1, MinIsLeast
  <2>3. PICK i \in 1 .. Len(b) : i = Min(starts) /\ i \in starts
    BY <2>1, <2>2
  <2>4. PICK j \in i + 1 .. Len(b) - 1 : Symbol(b, j + 1) \in Functions
    BY <2>3
  <2>5. j + 1 \in ends(i)
    BY <2>3, <2>4, Typed
  <2>6. ends(i) \in SUBSET Nat /\ ends(i) \subseteq 1 .. Len(b) /\ ends(i) # {}
    <3>1. Len(b) \in Nat /\ i \in 1 .. Len(b)
      BY Typed
    <3>2. \A k \in i + 1 .. Len(b) : k \in 1 .. Len(b) /\ k \in Nat
      BY <3>1
    <3>3. QED
      BY <2>5, <3>2
  <2>7. Min(ends(i)) \in ends(i)
    <3> HIDE DEF ends
    <3>1. QED
      BY <2>6, MinIsLeast
  <2>8. FunctionIn(b) = Min(ends(i))
    <3> HIDE DEF ends, starts
    <3>1. QED
      BY <1>1, <1>3, <2>3
  <2> HIDE DEF ends
  <2>9. QED
    BY <2>6, <2>7, <2>8, Typed
<1>4. QED
  BY <1>2, <1>3

LEMMA ParameterFound ==
    ASSUME NEW b \in Seq(Nat), ParamStarts(b) # {}
    PROVE  LET i == Min(ParamStarts(b))
           IN  i \in 1 .. Len(b) - 1 /\ ParamEnd(b, i) \in i + 1 .. Len(b) + 1
<1> DEFINE ps == {<<"<", p>> : p \in Parameters}
           i == Min(ParamStarts(b))
<1>1. i \in Matches(b, ps) /\ i \in 1 .. Len(b)
  BY FirstMatch DEF ParamStarts
<1>2. PICK p \in Parameters : StartsAt(b, i, <<"<", p>>)
  BY <1>1 DEF Matches
<1> HIDE DEF i
<1>3. i + 2 - 1 <= Len(b)
  BY <1>2, Start2
<1>4. i \in 1 .. Len(b) - 1 /\ Len(b) \in Nat
  BY <1>1, <1>3, Typed
<1> DEFINE ends == {j \in Matches(b, {<<"<", "/parameter>">>}) : j > i}
<1>5. ParamEnd(b, i) = IF ends = {} THEN Len(b) + 1 ELSE Min(ends)
  BY DEF ParamEnd
<1>6. ends \in SUBSET Nat /\ ends \subseteq i + 1 .. Len(b)
  <2>1. ASSUME NEW j \in ends PROVE j \in Nat /\ j \in i + 1 .. Len(b)
    <3>1. j \in 1 .. Len(b) /\ j > i
      BY MatchesTyped
    <3>2. QED
      BY <1>4, <3>1
  <2>2. QED
    BY <2>1
<1>7. ends # {} => Min(ends) \in ends
  <2> HIDE DEF ends
  <2>1. QED
    BY <1>6, MinIsLeast
<1> HIDE DEF ends
<1>8. ParamEnd(b, i) \in i + 1 .. Len(b) + 1
  <2>1. Len(b) + 1 \in i + 1 .. Len(b) + 1
    BY <1>4
  <2>2. \A j \in i + 1 .. Len(b) : j \in i + 1 .. Len(b) + 1
    BY <1>4
  <2>3. QED
    BY <1>5, <1>6, <1>7, <2>1, <2>2
<1>9. QED
  BY <1>4, <1>8 DEF i

LEMMA Trimmed ==
    ASSUME NEW s \in Seq(Nat)
    PROVE  Trim(s) \in Seq(Nat) /\ Range(Trim(s)) \subseteq Range(s)
<1> DEFINE solid == {i \in DOMAIN s : Symbol(s, i) # "nl"}
<1>1. Trim(s) = IF solid = {} THEN <<>> ELSE SubSeq(s, Min(solid), Max(solid))
  BY DEF Trim
<1>2. solid \in SUBSET Nat /\ solid \in SUBSET (1 .. Len(s)) /\ Len(s) \in Nat
  BY Typed
<1> HIDE DEF solid
<1>3. CASE solid = {}
  BY <1>1, <1>3, NoneInOrder
<1>4. CASE solid # {}
  <2>1. Min(solid) \in solid /\ Max(solid) \in solid
    BY <1>2, <1>4, MinIsLeast, MaxIsGreatest
  <2>2. Min(solid) \in Nat \ {0} /\ Max(solid) \in Int /\ Max(solid) <= Len(s)
    <3>1. Min(solid) \in 1 .. Len(s) /\ Max(solid) \in 1 .. Len(s)
      BY <1>2, <2>1
    <3>2. QED
      BY <1>2, <3>1
  <2>3. /\ SubSeq(s, Min(solid), Max(solid)) \in Seq(Nat)
        /\ Range(SubSeq(s, Min(solid), Max(solid))) = {s[i] : i \in Min(solid) .. Max(solid)}
    BY <2>2, Piece
  <2>4. Min(solid) .. Max(solid) \subseteq 1 .. Len(s)
    BY <1>2, <2>2
  <2>5. QED
    BY <1>1, <1>4, <2>3, <2>4, Typed
<1>5. QED
  BY <1>3, <1>4

LEMMA InputInserted ==
    ASSUME NEW f \in Inputs, NEW key \in STRING, NEW v \in Seq(Nat)
    PROVE  /\ Inserted(f, key, v) \in Inputs
           /\ PlacesIn(Inserted(f, key, v)) \subseteq PlacesIn(f) \cup Range(v)
<1>1. PICK D \in SUBSET Keys : f \in [D -> Seq(Nat)]
  BY DEF Inputs
<1> DEFINE E == D \cup {key}
<1>2. E \in SUBSET Keys
  BY DEF Keys
<1>3. DOMAIN f = D /\ \A k \in E : k # key => k \in D
  BY <1>1
<1>4. Inserted(f, key, v) = [k \in E |-> IF k = key THEN v ELSE f[k]]
  BY <1>3 DEF Inserted
<1>5. Inserted(f, key, v) \in [E -> Seq(Nat)]
  BY <1>1, <1>3, <1>4
<1>6. Inserted(f, key, v) \in Inputs
  BY <1>2, <1>5 DEF Inputs
<1>7. PlacesIn(Inserted(f, key, v)) \subseteq PlacesIn(f) \cup Range(v)
  <2>1. SUFFICES ASSUME NEW k \in E
                 PROVE  Range(Inserted(f, key, v)[k]) \subseteq PlacesIn(f) \cup Range(v)
    BY <1>4 DEF PlacesIn
  <2>2. CASE k = key
    BY <1>4, <2>2
  <2>3. CASE k # key
    <3>1. k \in DOMAIN f /\ Inserted(f, key, v)[k] = f[k]
      BY <1>3, <1>4, <2>3
    <3>2. QED
      BY <3>1 DEF PlacesIn
  <2>4. QED
    BY <2>2, <2>3
<1>8. QED
  BY <1>6, <1>7

(* --------------------------------- tools --------------------------------- *)

LEMMA NoTools == <<>> \in Seq(Tools) /\ NamesOf(<<>>) = <<>> /\ InputOf(<<>>) = {}
BY DEF NamesOf, InputOf, Range

LEMMA NamesTyped ==
    ASSUME NEW tools \in Seq(Tools)
    PROVE  /\ NamesOf(tools) \in Seq(Nat) /\ Len(NamesOf(tools)) = Len(tools)
           /\ \A i \in 1 .. Len(tools) : NamesOf(tools)[i] = tools[i].name
<1>1. Len(tools) \in Nat /\ DOMAIN tools = 1 .. Len(tools)
  OBVIOUS
<1>2. \A i \in 1 .. Len(tools) : tools[i].name \in Nat
  <2>1. \A i \in 1 .. Len(tools) : tools[i] \in Tools
    OBVIOUS
  <2>2. QED
    BY <2>1 DEF Tools
<1>3. QED
  BY <1>1, <1>2 DEF NamesOf

\* The tools of two sequences, one after the other.
LEMMA ToolsJoined ==
    ASSUME NEW s \in Seq(Tools), NEW t \in Seq(Tools)
    PROVE  /\ s \o t \in Seq(Tools)
           /\ NamesOf(s \o t) = NamesOf(s) \o NamesOf(t)
           /\ InputOf(s \o t) = InputOf(s) \cup InputOf(t)
<1> DEFINE u == s \o t
<1>1. /\ u \in Seq(Tools) /\ Len(u) = Len(s) + Len(t) /\ Len(s) \in Nat /\ Len(t) \in Nat
      /\ \A i \in 1 .. Len(s) + Len(t) : u[i] = IF i <= Len(s) THEN s[i] ELSE t[i - Len(s)]
  BY ConcatProperties
<1> HIDE DEF u
<1>2. \A i \in 1 .. Len(s) : i \in 1 .. Len(u) /\ u[i] = s[i]
  BY <1>1
<1>3. \A i \in 1 .. Len(t) : Len(s) + i \in 1 .. Len(u) /\ u[Len(s) + i] = t[i]
  <2>1. ASSUME NEW i \in 1 .. Len(t) PROVE Len(s) + i \in 1 .. Len(u) /\ u[Len(s) + i] = t[i]
    <3>1. Len(s) + i \in 1 .. Len(s) + Len(t) /\ ~ (Len(s) + i <= Len(s)) /\ Len(s) + i - Len(s) = i
      BY <1>1
    <3>2. QED
      BY <1>1, <3>1
  <2>2. QED
    BY <2>1
<1>4. \A i \in 1 .. Len(u) : i \in 1 .. Len(s) \/ \E k \in 1 .. Len(t) : i = Len(s) + k
  <2>1. ASSUME NEW i \in 1 .. Len(u), i \notin 1 .. Len(s) PROVE i - Len(s) \in 1 .. Len(t)
    BY <1>1, <2>1
  <2>2. ASSUME NEW i \in 1 .. Len(u) PROVE i = Len(s) + (i - Len(s))
    BY <1>1
  <2>3. QED
    BY <2>1, <2>2
<1>5. NamesOf(u) = NamesOf(s) \o NamesOf(t)
  <2> DEFINE v == NamesOf(s) \o NamesOf(t)
  <2>1. /\ NamesOf(u) \in Seq(Nat) /\ Len(NamesOf(u)) = Len(u)
        /\ NamesOf(s) \in Seq(Nat) /\ Len(NamesOf(s)) = Len(s)
        /\ NamesOf(t) \in Seq(Nat) /\ Len(NamesOf(t)) = Len(t)
    BY <1>1, NamesTyped
  <2>2. v \in Seq(Nat) /\ Len(v) = Len(s) + Len(t)
        /\ \A i \in 1 .. Len(s) + Len(t) : v[i] =
             IF i <= Len(s) THEN NamesOf(s)[i] ELSE NamesOf(t)[i - Len(s)]
    <3> DEFINE a == NamesOf(s)
               c == NamesOf(t)
    <3>1. a \in Seq(Nat) /\ c \in Seq(Nat) /\ Len(a) = Len(s) /\ Len(c) = Len(t)
      BY <2>1
    <3> HIDE DEF a, c
    <3>2. a \o c \in Seq(Nat) /\ Len(a \o c) = Len(a) + Len(c)
          /\ \A i \in 1 .. Len(a) + Len(c) : (a \o c)[i] = IF i <= Len(a) THEN a[i] ELSE c[i - Len(a)]
      BY <3>1, ConcatProperties
    <3>3. QED
      BY <3>1, <3>2 DEF a, c
  <2> HIDE DEF v
  <2>3. ASSUME NEW i \in 1 .. Len(u) PROVE NamesOf(u)[i] = v[i]
    <3>1. NamesOf(u)[i] = u[i].name
      BY <1>1, NamesTyped
    <3>2. CASE i \in 1 .. Len(s)
      <4>1. v[i] = NamesOf(s)[i] /\ u[i] = s[i]
        BY <1>1, <1>2, <2>2, <3>2
      <4>2. QED
        BY <3>1, <3>2, <4>1, NamesTyped
    <3>3. CASE i \notin 1 .. Len(s)
      <4>1. PICK k \in 1 .. Len(t) : i = Len(s) + k
        BY <1>4, <3>3
      <4>2. ~ (i <= Len(s)) /\ i - Len(s) = k /\ i \in 1 .. Len(s) + Len(t)
        BY <1>1, <4>1
      <4>3. v[i] = NamesOf(t)[k] /\ u[i] = t[k]
        BY <1>3, <2>2, <4>1, <4>2
      <4>4. QED
        BY <3>1, <4>3, NamesTyped
    <3>4. QED
      BY <3>2, <3>3
  <2>4. QED
    BY <1>1, <2>1, <2>2, <2>3, SeqEqual DEF v
<1>6. Range(u) = Range(s) \cup Range(t)
  <2>1. DOMAIN u = 1 .. Len(u) /\ DOMAIN s = 1 .. Len(s) /\ DOMAIN t = 1 .. Len(t)
    BY <1>1
  <2>2. ASSUME NEW x \in Range(u) PROVE x \in Range(s) \cup Range(t)
    <3>1. PICK i \in DOMAIN u : x = u[i]
      BY DEF Range
    <3>2. QED
      BY <1>2, <1>3, <1>4, <2>1, <3>1 DEF Range
  <2>3. ASSUME NEW x \in Range(s) \cup Range(t) PROVE x \in Range(u)
    BY <1>2, <1>3, <2>1 DEF Range
  <2>4. QED
    BY <2>2, <2>3
<1>7. InputOf(u) = InputOf(s) \cup InputOf(t)
  BY <1>6 DEF InputOf
<1>8. QED
  BY <1>1, <1>5, <1>7 DEF u

LEMMA OneTool ==
    ASSUME NEW t \in Tools
    PROVE  <<t>> \in Seq(Tools) /\ NamesOf(<<t>>) = <<t.name>> /\ InputOf(<<t>>) = PlacesIn(t.input)
<1>1. <<t>> \in Seq(Tools) /\ Len(<<t>>) = 1 /\ <<t>>[1] = t
  OBVIOUS
<1>2. Range(<<t>>) = {t}
  BY <1>1 DEF Range
<1>3. NamesOf(<<t>>) = <<t.name>>
  <2>1. DOMAIN <<t>> = {1}
    OBVIOUS
  <2>2. NamesOf(<<t>>) = [i \in {1} |-> t.name]
    BY <2>1 DEF NamesOf
  <2>3. QED
    BY <2>2
<1>4. InputOf(<<t>>) = PlacesIn(t.input)
  BY <1>2 DEF InputOf
<1>5. QED
  BY <1>1, <1>3, <1>4

LEMMA ToolAdded ==
    ASSUME NEW s \in Seq(Tools), NEW t \in Tools
    PROVE  /\ Append(s, t) \in Seq(Tools)
           /\ NamesOf(Append(s, t)) = NamesOf(s) \o <<t.name>>
           /\ InputOf(Append(s, t)) = InputOf(s) \cup PlacesIn(t.input)
<1>1. Append(s, t) = s \o <<t>>
  OBVIOUS
<1>2. QED
  BY <1>1, OneTool, ToolsJoined

(* ----------------------- what the answer falls into ---------------------- *)

ShownTypes == [thinking : Seq(Nat), text : Seq(Nat), tools : Seq(Tools)]

\* All text, names and other places of tools that s shows or p has.
TextOf(s, p) == s.text \o p.text
OpenName(p) == IF p.state = "ParsingParameters" THEN <<p.name>> ELSE <<>>
OpenPlaces(p) == IF p.state = "ParsingParameters" THEN PlacesIn(p.parameters) ELSE {}
NamesIn(s, p) == (NamesOf(s.tools) \o NamesOf(p.tools)) \o OpenName(p)
UsedIn(s, p) == Range(NamesIn(s, p)) \cup InputOf(s.tools) \cup InputOf(p.tools) \cup OpenPlaces(p)

Pieces(text, thinking, names, used, buffer, n) ==
    /\ InOrder(text) /\ InOrder(names) /\ InOrder(buffer)
    /\ Below(Range(names), Range(buffer)) /\ Range(names) \subseteq used
    /\ Range(text) \cup thinking \cup used \cup Range(buffer) \subseteq 1 .. n
    /\ Range(text) \cap thinking = {} /\ used \cap (Range(text) \cup thinking) = {}
    /\ Range(buffer) \cap (Range(text) \cup thinking \cup used) = {}

Apart(s, p, n) == Pieces(TextOf(s, p), Range(s.thinking), NamesIn(s, p), UsedIn(s, p), p.buffer, n)
Ahead(s, p) == Below(Range(TextOf(s, p)), Range(p.buffer))

\* The parser takes text x, names y and parts of tools from the buffer.
LEMMA PiecesTaken ==
    ASSUME NEW text \in Seq(Nat), NEW thinking, NEW names \in Seq(Nat), NEW used,
           NEW buffer \in Seq(Nat), NEW n, Pieces(text, thinking, names, used, buffer, n),
           NEW x \in Seq(Nat), NEW y \in Seq(Nat), NEW buffer2 \in Seq(Nat), NEW used2,
           InOrder(x), InOrder(y), InOrder(buffer2),
           Range(x) \cup Range(y) \cup Range(buffer2) \subseteq Range(buffer),
           used2 \subseteq used \cup Range(buffer), Range(names) \cup Range(y) \subseteq used2,
           Range(x) \cap used2 = {}, Range(buffer2) \cap (used2 \cup Range(x)) = {},
           Below(Range(y), Range(buffer2)),
           x = <<>> \/ Below(Range(text), Range(buffer))
    PROVE  Pieces(text \o x, thinking, names \o y, used2, buffer2, n)
<1>1. x = <<>> => Range(x) = {}
  BY NoneInOrder
<1>2. Below(Range(text), Range(x))
  BY <1>1 DEF Below
<1>3. InOrder(text \o x) /\ Range(text \o x) = Range(text) \cup Range(x)
  BY <1>2, Joined DEF Pieces
<1>4. Below(Range(names), Range(y))
  BY DEF Pieces, Below
<1>5. InOrder(names \o y) /\ Range(names \o y) = Range(names) \cup Range(y)
  BY <1>4, Joined DEF Pieces
<1>6. Below(Range(names \o y), Range(buffer2))
  BY <1>5 DEF Pieces, Below
<1>7. QED
  BY <1>3, <1>5, <1>6 DEF Pieces

LEMMA ViewTyped ==
    ASSUME NEW s \in ShownTypes, NEW p \in Parsers
    PROVE  /\ TextOf(s, p) \in Seq(Nat) /\ NamesIn(s, p) \in Seq(Nat) /\ OpenName(p) \in Seq(Nat)
           /\ NamesOf(s.tools) \in Seq(Nat) /\ NamesOf(p.tools) \in Seq(Nat)
           /\ p.buffer \in Seq(Nat) /\ p.text \in Seq(Nat) /\ s.text \in Seq(Nat)
           /\ s.tools \in Seq(Tools) /\ p.tools \in Seq(Tools) /\ p.name \in Nat
           /\ s.thinking \in Seq(Nat) /\ p.parameters \in Inputs
<1>1. /\ p.buffer \in Seq(Nat) /\ p.text \in Seq(Nat) /\ s.text \in Seq(Nat)
      /\ s.tools \in Seq(Tools) /\ p.tools \in Seq(Tools) /\ p.name \in Nat
      /\ s.thinking \in Seq(Nat) /\ p.parameters \in Inputs
  BY DEF ShownTypes, Parsers
<1>2. TextOf(s, p) \in Seq(Nat)
  BY <1>1, Joined DEF TextOf
<1>3. NamesOf(s.tools) \in Seq(Nat) /\ NamesOf(p.tools) \in Seq(Nat)
  BY <1>1, NamesTyped
<1>4. <<p.name>> \in Seq(Nat)
  BY <1>1
<1>5. OpenName(p) \in Seq(Nat)
  BY <1>4, NoneInOrder DEF OpenName
<1>6. NamesIn(s, p) \in Seq(Nat)
  BY <1>3, <1>5, Joined DEF NamesIn
<1>7. QED
  BY <1>1, <1>2, <1>3, <1>5, <1>6

\* Text that is passed on is behind the text there was.
LEMMA TextPassed ==
    ASSUME NEW s \in ShownTypes, NEW p \in Parsers, NEW q \in Parsers, NEW x \in Seq(Nat),
           q.text = p.text \o x
    PROVE  TextOf(s, q) = TextOf(s, p) \o x
<1> DEFINE a == s.text
           b == p.text
<1>1. a \in Seq(Nat) /\ b \in Seq(Nat)
  BY ViewTyped
<1>2. SUFFICES a \o (b \o x) = (a \o b) \o x
  BY DEF TextOf
<1> HIDE DEF a, b
<1>3. QED
  BY <1>1, ConcatAssociative, SMTT(20)

\* No tool is begun or ended.
LEMMA ToolsKept ==
    ASSUME NEW s \in ShownTypes, NEW p \in Parsers, NEW q \in Parsers, q.tools = p.tools,
           p.state # "ParsingParameters", q.state # "ParsingParameters"
    PROVE  NamesIn(s, q) = NamesIn(s, p) /\ UsedIn(s, q) = UsedIn(s, p)
BY DEF NamesIn, UsedIn, OpenName, OpenPlaces

\* A call is begun.
LEMMA ToolOpened ==
    ASSUME NEW s \in ShownTypes, NEW p \in Parsers, NEW q \in Parsers, q.tools = p.tools,
           p.state # "ParsingParameters", q.state = "ParsingParameters"
    PROVE  /\ NamesIn(s, q) = NamesIn(s, p) \o <<q.name>>
           /\ UsedIn(s, q) = UsedIn(s, p) \cup {q.name} \cup PlacesIn(q.parameters)
<1> DEFINE names == NamesOf(s.tools) \o NamesOf(p.tools)
<1>1. names \in Seq(Nat) /\ <<q.name>> \in Seq(Nat) /\ Range(<<q.name>>) = {q.name}
  <2>1. names \in Seq(Nat) /\ q.name \in Nat
    BY ViewTyped, Joined
  <2>2. QED
    BY <2>1, OneRange
<1>2. NamesIn(s, p) = names /\ NamesIn(s, q) = names \o <<q.name>>
  BY <1>1, ConcatEmptySeq DEF NamesIn, OpenName
<1>3. Range(NamesIn(s, q)) = Range(NamesIn(s, p)) \cup {q.name}
  <2> HIDE DEF names
  <2>1. QED
    BY <1>1, <1>2, Joined
<1>4. QED
  BY <1>2, <1>3 DEF UsedIn, OpenPlaces

\* A parameter is taken.
LEMMA ToolExtended ==
    ASSUME NEW s \in ShownTypes, NEW p \in Parsers, NEW q \in Parsers, NEW R,
           q.tools = p.tools, q.name = p.name,
           p.state = "ParsingParameters", q.state = "ParsingParameters",
           PlacesIn(q.parameters) \subseteq PlacesIn(p.parameters) \cup R
    PROVE  /\ NamesIn(s, q) = NamesIn(s, p)
           /\ UsedIn(s, q) \subseteq UsedIn(s, p) \cup R
           /\ Range(NamesIn(s, q)) \subseteq UsedIn(s, q)
<1>1. NamesIn(s, q) = NamesIn(s, p)
  BY DEF NamesIn, OpenName
<1>2. QED
  BY <1>1 DEF UsedIn, OpenPlaces

\* A call is ended.
LEMMA ToolClosed ==
    ASSUME NEW s \in ShownTypes, NEW p \in Parsers, NEW q \in Parsers,
           q.tools = Append(p.tools, Detected(p.name, p.parameters)),
           p.state = "ParsingParameters", q.state # "ParsingParameters"
    PROVE  NamesIn(s, q) = NamesIn(s, p) /\ UsedIn(s, q) = UsedIn(s, p)
<1> DEFINE t == Detected(p.name, p.parameters)
<1>1. t \in Tools /\ t.name = p.name /\ t.input = p.parameters
  BY ViewTyped DEF Tools, Detected
<1> HIDE DEF t
<1>2. NamesOf(q.tools) = NamesOf(p.tools) \o <<p.name>>
      /\ InputOf(q.tools) = InputOf(p.tools) \cup PlacesIn(p.parameters)
  BY <1>1, ViewTyped, ToolAdded DEF t
<1>3. NamesIn(s, p) = (NamesOf(s.tools) \o NamesOf(p.tools)) \o <<p.name>>
  BY DEF NamesIn, OpenName
<1>4. NamesIn(s, q) = (NamesOf(s.tools) \o (NamesOf(p.tools) \o <<p.name>>)) \o <<>>
  BY <1>2 DEF NamesIn, OpenName
<1>5. NamesOf(s.tools) \in Seq(Nat) /\ NamesOf(p.tools) \in Seq(Nat) /\ <<p.name>> \in Seq(Nat)
  <2>1. p.name \in Nat
    BY ViewTyped
  <2>2. QED
    BY <2>1, ViewTyped
<1>6. NamesIn(s, q) = NamesIn(s, p)
  <2> DEFINE a == NamesOf(s.tools)
             b == NamesOf(p.tools)
             c == <<p.name>>
  <2>1. a \in Seq(Nat) /\ b \in Seq(Nat) /\ c \in Seq(Nat)
    BY <1>5
  <2>2. NamesIn(s, p) = (a \o b) \o c /\ NamesIn(s, q) = (a \o (b \o c)) \o <<>>
    BY <1>3, <1>4
  <2> HIDE DEF a, b, c
  <2>3. b \o c \in Seq(Nat) /\ a \o (b \o c) \in Seq(Nat)
    BY <2>1, Joined
  <2>4. (a \o (b \o c)) \o <<>> = a \o (b \o c) /\ (a \o b) \o c = a \o (b \o c)
    BY <2>1, <2>3, ConcatEmptySeq, ConcatAssociative, SMTT(20)
  <2>5. QED
    BY <2>2, <2>4
<1>7. UsedIn(s, q) = UsedIn(s, p)
  BY <1>2, <1>6 DEF UsedIn, OpenPlaces
<1>8. QED
  BY <1>6, <1>7

\* A whole call is found in a text.
LEMMA ToolFound ==
    ASSUME NEW s \in ShownTypes, NEW p \in Parsers, NEW q \in Parsers, NEW t \in Tools,
           q.tools = Append(p.tools, t),
           p.state # "ParsingParameters", q.state # "ParsingParameters"
    PROVE  /\ NamesIn(s, q) = NamesIn(s, p) \o <<t.name>>
           /\ UsedIn(s, q) = UsedIn(s, p) \cup UsedBy(t)
<1>1. NamesOf(q.tools) = NamesOf(p.tools) \o <<t.name>>
      /\ InputOf(q.tools) = InputOf(p.tools) \cup PlacesIn(t.input)
  BY ViewTyped, ToolAdded
<1> DEFINE a == NamesOf(s.tools)
           b == NamesOf(p.tools)
           c == <<t.name>>
<1>2. t.name \in Nat
  BY DEF Tools
<1>3. a \in Seq(Nat) /\ b \in Seq(Nat) /\ c \in Seq(Nat) /\ Range(c) = {t.name}
  BY <1>2, ViewTyped, OneRange
<1>4. NamesIn(s, p) = (a \o b) \o <<>> /\ NamesIn(s, q) = (a \o (b \o c)) \o <<>>
  BY <1>1 DEF NamesIn, OpenName
<1> HIDE DEF a, b, c
<1>5. b \o c \in Seq(Nat) /\ a \o (b \o c) \in Seq(Nat) /\ a \o b \in Seq(Nat)
  BY <1>3, Joined
<1>6. NamesIn(s, q) = NamesIn(s, p) \o c
  <2>1. (a \o (b \o c)) \o <<>> = a \o (b \o c) /\ (a \o b) \o c = a \o (b \o c)
    BY <1>3, <1>5, ConcatEmptySeq, ConcatAssociative, SMTT(20)
  <2>2. (a \o b) \o <<>> = a \o b
    BY <1>5, ConcatEmptySeq
  <2>3. QED
    BY <1>4, <2>1, <2>2
<1>7. Range(NamesIn(s, q)) = Range(NamesIn(s, p)) \cup {t.name}
  BY <1>3, <1>6, ViewTyped, Joined
<1>8. UsedIn(s, q) = UsedIn(s, p) \cup UsedBy(t)
  BY <1>1, <1>7 DEF UsedIn, OpenPlaces, UsedBy
<1>9. QED
  BY <1>6, <1>8 DEF c

\* The step that all those of the tool parser are: it passes text x on and takes
\* a name y or none from the buffer.
LEMMA ParserStep ==
    ASSUME NEW s \in ShownTypes, NEW p \in Parsers, NEW q \in Parsers, NEW n, Apart(s, p, n),
           NEW x \in Seq(Nat), NEW y \in Seq(Nat),
           q.text = p.text \o x, NamesIn(s, q) = NamesIn(s, p) \o y,
           InOrder(x), InOrder(y), InOrder(q.buffer),
           Range(x) \cup Range(y) \cup Range(q.buffer) \subseteq Range(p.buffer),
           UsedIn(s, q) \subseteq UsedIn(s, p) \cup Range(p.buffer),
           Range(x) \cap UsedIn(s, q) = {}, Range(q.buffer) \cap (UsedIn(s, q) \cup Range(x)) = {},
           Below(Range(y), Range(q.buffer)), Below(Range(x), Range(q.buffer)),
           x = <<>> \/ Ahead(s, p)
    PROVE  Apart(s, q, n) /\ (Ahead(s, p) => Ahead(s, q))
<1>1. TextOf(s, q) = TextOf(s, p) \o x
  BY TextPassed
<1>2. /\ TextOf(s, p) \in Seq(Nat) /\ NamesIn(s, p) \in Seq(Nat)
      /\ p.buffer \in Seq(Nat) /\ q.buffer \in Seq(Nat)
  BY ViewTyped
<1>3. Range(NamesIn(s, p)) \cup Range(y) = Range(NamesIn(s, q))
  BY <1>2, Joined
<1>4. Range(NamesIn(s, q)) \subseteq UsedIn(s, q)
  BY DEF UsedIn
<1>5. Pieces(TextOf(s, p), Range(s.thinking), NamesIn(s, p), UsedIn(s, p), p.buffer, n)
  BY DEF Apart
<1>6. x = <<>> \/ Below(Range(TextOf(s, p)), Range(p.buffer))
  BY DEF Ahead
<1>7. Pieces(TextOf(s, p) \o x, Range(s.thinking), NamesIn(s, p) \o y, UsedIn(s, q), q.buffer, n)
  BY <1>2, <1>3, <1>4, <1>5, <1>6, PiecesTaken
<1>8. Apart(s, q, n)
  BY <1>1, <1>7 DEF Apart
<1>9. Range(TextOf(s, q)) = Range(TextOf(s, p)) \cup Range(x)
  BY <1>1, <1>2, Joined
<1>10. Ahead(s, p) => Ahead(s, q)
  BY <1>9 DEF Ahead, Below
<1>11. QED
  BY <1>8, <1>10

(* ---------------------- the steps of the tool parser --------------------- *)

\* The buffer is cut before i and behind j: what is between is in neither piece.
LEMMA CutAt ==
    ASSUME NEW b \in Seq(Nat), InOrder(b), NEW i \in 1 .. Len(b) + 1, NEW j \in Nat, i <= j
    PROVE  /\ Before(b, i) \in Seq(Nat) /\ InOrder(Before(b, i)) /\ Range(Before(b, i)) \subseteq Range(b)
           /\ From(b, j) \in Seq(Nat) /\ InOrder(From(b, j)) /\ Range(From(b, j)) \subseteq Range(b)
           /\ Range(Before(b, i)) \cap Range(From(b, j)) = {}
           /\ Below(Range(Before(b, i)), Range(From(b, j)))
           /\ \A k \in 1 .. Len(b) : i <= k /\ k < j =>
                b[k] \notin Range(Before(b, i)) /\ Below({b[k]}, Range(From(b, j)))
<1>1. Len(b) \in Nat /\ i \in Nat \ {0} /\ j \in Nat \ {0} /\ Range(b) = {b[k] : k \in 1 .. Len(b)}
      /\ \A k \in 1 .. Len(b) : b[k] \in Nat
  BY Typed
<1>2. /\ Before(b, i) \in Seq(Nat) /\ InOrder(Before(b, i))
      /\ Range(Before(b, i)) = {b[k] : k \in 1 .. i - 1}
  BY BeforeFacts
<1>3. /\ From(b, j) \in Seq(Nat) /\ InOrder(From(b, j))
      /\ Range(From(b, j)) = {b[k] : k \in j .. Len(b)}
  BY <1>1, FromFacts
<1>4. /\ \A k \in 1 .. i - 1 : k \in 1 .. Len(b) /\ k < i
      /\ \A k \in j .. Len(b) : k \in 1 .. Len(b) /\ j <= k
  BY <1>1
<1>5. ASSUME NEW k \in 1 .. Len(b), NEW l \in j .. Len(b), k < j PROVE b[k] < b[l]
  <2>1. l \in 1 .. Len(b) /\ k < l
    BY <1>1, <1>4, <1>5
  <2>2. QED
    BY <2>1, OrderOfPlaces
<1>6. ASSUME NEW k \in 1 .. Len(b), i <= k PROVE b[k] \notin Range(Before(b, i))
  <2>1. SUFFICES ASSUME NEW l \in 1 .. i - 1, b[k] = b[l] PROVE FALSE
    BY <1>2
  <2>2. l \in 1 .. Len(b) /\ l < k
    BY <1>1, <1>4, <1>6
  <2>3. QED
    BY <2>1, <2>2, OrderOfPlaces
<1>7. Below(Range(Before(b, i)), Range(From(b, j)))
  <2>1. ASSUME NEW k \in 1 .. i - 1, NEW l \in j .. Len(b) PROVE b[k] < b[l]
    <3>1. k \in 1 .. Len(b) /\ k < j
      BY <1>1, <1>4
    <3>2. QED
      BY <1>5, <3>1
  <2>2. QED
    BY <1>2, <1>3, <2>1 DEF Below
<1>8. Range(Before(b, i)) \cap Range(From(b, j)) = {}
  <2>1. \A x \in Range(Before(b, i)), y \in Range(From(b, j)) : x < y /\ x \in Nat /\ y \in Nat
    BY <1>2, <1>3, <1>7, Typed DEF Below
  <2>2. QED
    BY <2>1
<1>9. ASSUME NEW k \in 1 .. Len(b), k < j PROVE Below({b[k]}, Range(From(b, j)))
  BY <1>3, <1>5, <1>9 DEF Below
<1>10. Range(Before(b, i)) \subseteq Range(b)
  BY <1>1, <1>2, <1>4
<1>11. Range(From(b, j)) \subseteq Range(b)
  BY <1>1, <1>3, <1>4
<1>12. QED
  BY <1>2, <1>3, <1>6, <1>7, <1>8, <1>9, <1>10, <1>11

\* A step of the parser on s and p gives q.
Digests(s, p, q, n) == q \in Parsers /\ Apart(s, q, n) /\ (Ahead(s, p) => Ahead(s, q))

LEMMA BufferFacts ==
    ASSUME NEW s \in ShownTypes, NEW p \in Parsers, NEW n, Apart(s, p, n)
    PROVE  /\ p.buffer \in Seq(Nat) /\ InOrder(p.buffer) /\ p.text \in Seq(Nat)
           /\ Range(p.buffer) \cap UsedIn(s, p) = {}
           /\ Len(p.buffer) \in Nat /\ DOMAIN p.buffer = 1 .. Len(p.buffer)
           /\ \A i \in 1 .. Len(p.buffer) : p.buffer[i] \in Nat /\ p.buffer[i] \in Range(p.buffer)
           /\ p.text \o <<>> = p.text /\ NamesIn(s, p) \o <<>> = NamesIn(s, p)
           /\ TextOf(s, p) \o <<>> = TextOf(s, p)
<1>1. p.buffer \in Seq(Nat) /\ p.text \in Seq(Nat) /\ NamesIn(s, p) \in Seq(Nat) /\ TextOf(s, p) \in Seq(Nat)
  BY ViewTyped
<1>2. InOrder(p.buffer) /\ Range(p.buffer) \cap UsedIn(s, p) = {}
  BY DEF Apart, Pieces
<1>3. p.text \o <<>> = p.text /\ NamesIn(s, p) \o <<>> = NamesIn(s, p) /\ TextOf(s, p) \o <<>> = TextOf(s, p)
  BY <1>1, ConcatEmptySeq
<1>4. /\ Len(p.buffer) \in Nat /\ DOMAIN p.buffer = 1 .. Len(p.buffer)
      /\ \A i \in 1 .. Len(p.buffer) : p.buffer[i] \in Nat /\ p.buffer[i] \in Range(p.buffer)
  BY <1>1, Typed DEF Range
<1>5. QED
  BY <1>1, <1>2, <1>3, <1>4

\* Text is passed on, and no tool is begun or ended.
LEMMA FilterDigests ==
    ASSUME NEW s \in ShownTypes, NEW p \in Parsers, NEW n, Apart(s, p, n), Ahead(s, p),
           p.state # "ParsingParameters", NEW i \in 1 .. Len(p.buffer) + 1,
           NEW state \in {"Text", "MatchingFunction"}
    PROVE  Digests(s, p, [Filter(p, i) EXCEPT !.state = state], n)
<1> DEFINE b == p.buffer
           x == Before(b, i)
           q == [Filter(p, i) EXCEPT !.state = state]
<1>1. i \in Nat /\ b \in Seq(Nat) /\ InOrder(b) /\ Range(b) \cap UsedIn(s, p) = {}
  BY BufferFacts
<1>2. /\ x \in Seq(Nat) /\ InOrder(x) /\ Range(x) \subseteq Range(b)
      /\ From(b, i) \in Seq(Nat) /\ InOrder(From(b, i)) /\ Range(From(b, i)) \subseteq Range(b)
      /\ Range(x) \cap Range(From(b, i)) = {} /\ Below(Range(x), Range(From(b, i)))
  <2>1. i <= i
    BY <1>1
  <2>2. QED
    BY <1>1, <2>1, CutAt
<1> HIDE DEF x
<1>3. p.text \in Seq(Nat) /\ p.text \o x \in Seq(Nat)
  BY <1>2, BufferFacts, Joined
<1>4. /\ q \in Parsers /\ q.text = p.text \o x /\ q.buffer = From(b, i)
      /\ q.tools = p.tools /\ q.state # "ParsingParameters"
  BY <1>2, <1>3 DEF Filter, Parsers, States, x
<1> HIDE DEF q, b
<1>5. NamesIn(s, q) = NamesIn(s, p) \o <<>> /\ UsedIn(s, q) = UsedIn(s, p)
  BY <1>4, ToolsKept, BufferFacts
<1>6. Below(Range(<<>>), Range(q.buffer)) /\ <<>> \in Seq(Nat) /\ InOrder(<<>>) /\ Range(<<>>) = {}
  BY NoneInOrder DEF Below
<1>7. /\ Range(x) \cup Range(<<>>) \cup Range(q.buffer) \subseteq Range(p.buffer)
      /\ UsedIn(s, q) \subseteq UsedIn(s, p) \cup Range(p.buffer) /\ Range(x) \cap UsedIn(s, q) = {}
      /\ Range(q.buffer) \cap (UsedIn(s, q) \cup Range(x)) = {} /\ InOrder(q.buffer)
      /\ Below(Range(x), Range(q.buffer))
  BY <1>1, <1>2, <1>4, <1>5, <1>6 DEF b
<1>8. Apart(s, q, n) /\ (Ahead(s, p) => Ahead(s, q))
  BY <1>2, <1>4, <1>5, <1>6, <1>7, ParserStep
<1>9. QED
  BY <1>4, <1>8 DEF Digests, q

\* TakeJsonCall's.
LEMMA JsonCallDigests ==
    ASSUME NEW s \in ShownTypes, NEW p \in Parsers, NEW n, Apart(s, p, n), Ahead(s, p),
           p.state = "Text", JsonCallIn(p.buffer).first > 0
    PROVE  LET call == JsonCallIn(p.buffer)
           IN  Digests(s, p, [Filter(p, call.first) EXCEPT
                                !.tools = Append(@, JsonTool(p.buffer, call)),
                                !.buffer = From(p.buffer, call.last + 1)], n)
<1> DEFINE b == p.buffer
           call == JsonCallIn(b)
           i == call.first
           j == call.last + 1
           t == JsonTool(b, call)
           x == Before(b, i)
           q == [Filter(p, i) EXCEPT !.tools = Append(@, t), !.buffer = From(b, j)]
<1>1. b \in Seq(Nat) /\ InOrder(b) /\ Range(b) \cap UsedIn(s, p) = {} /\ Len(b) \in Nat
  BY BufferFacts
<1>2. i \in 1 .. Len(b) /\ call.last \in i + 4 .. Len(b)
  BY <1>1, JsonCallFound
<1>3. t \in Tools /\ t.name = b[i + 2] /\ UsedBy(t) \subseteq {b[k] : k \in i .. call.last}
  BY <1>1, <1>2, JsonToolMade
<1> HIDE DEF t
<1>4. /\ i \in 1 .. Len(b) + 1 /\ j \in Nat /\ i <= j /\ i + 2 \in 1 .. Len(b) /\ i <= i + 2 /\ i + 2 < j
      /\ \A k \in i .. call.last : k \in 1 .. Len(b) /\ i <= k /\ k < j
  <2> DEFINE l == call.last
  <2>1. i \in 1 .. Len(b) /\ l \in i + 4 .. Len(b) /\ j = l + 1
    BY <1>2
  <2>2. SUFFICES /\ i \in 1 .. Len(b) + 1 /\ j \in Nat /\ i <= j /\ i + 2 \in 1 .. Len(b) /\ i <= i + 2 /\ i + 2 < j
                 /\ \A k \in i .. l : k \in 1 .. Len(b) /\ i <= k /\ k < j
    OBVIOUS
  <2> HIDE DEF i, l, j
  <2>3. QED
    BY <1>1, <2>1
<1> HIDE DEF i, j
<1>5. /\ x \in Seq(Nat) /\ InOrder(x) /\ Range(x) \subseteq Range(b)
      /\ From(b, j) \in Seq(Nat) /\ InOrder(From(b, j)) /\ Range(From(b, j)) \subseteq Range(b)
      /\ Range(x) \cap Range(From(b, j)) = {} /\ Below(Range(x), Range(From(b, j)))
      /\ \A k \in 1 .. Len(b) : i <= k /\ k < j =>
                b[k] \notin Range(x) /\ Below({b[k]}, Range(From(b, j)))
  BY <1>1, <1>4, CutAt
<1> HIDE DEF x
<1>6. p.text \in Seq(Nat) /\ p.text \o x \in Seq(Nat)
  BY <1>5, BufferFacts, Joined
<1>7. Append(p.tools, t) \in Seq(Tools)
  BY <1>3, ViewTyped, ToolAdded
<1>8. /\ q \in Parsers /\ q.text = p.text \o x /\ q.buffer = From(b, j)
      /\ q.tools = Append(p.tools, t) /\ q.state # "ParsingParameters"
  BY <1>5, <1>6, <1>7 DEF Filter, Parsers, States, x
<1>9. q = [Filter(p, call.first) EXCEPT !.tools = Append(@, JsonTool(p.buffer, call)),
                                        !.buffer = From(p.buffer, call.last + 1)]
  BY DEF i, j, t
<1> HIDE DEF q
<1>10. NamesIn(s, q) = NamesIn(s, p) \o <<t.name>> /\ UsedIn(s, q) = UsedIn(s, p) \cup UsedBy(t)
  BY <1>3, <1>8, ToolFound
<1>11. UsedBy(t) \subseteq Range(b) /\ UsedBy(t) \cap (Range(x) \cup Range(From(b, j))) = {}
  <2>1. SUFFICES ASSUME NEW u \in UsedBy(t) PROVE u \in Range(b) /\ u \notin Range(x) \cup Range(From(b, j))
    OBVIOUS
  <2>2. PICK k \in i .. call.last : u = b[k]
    BY <1>3
  <2>3. k \in 1 .. Len(b) /\ i <= k /\ k < j
    BY <1>4
  <2>4. u \notin Range(x) /\ Below({u}, Range(From(b, j))) /\ u \in Nat
    BY <1>1, <1>5, <2>2, <2>3, Typed
  <2>5. u \notin Range(From(b, j))
    BY <2>4 DEF Below
  <2>6. QED
    BY <1>1, <2>2, <2>3, <2>4, <2>5, Typed
<1>12. <<t.name>> \in Seq(Nat) /\ InOrder(<<t.name>>) /\ Range(<<t.name>>) = {t.name} /\ t.name \in UsedBy(t)
  <2>1. t.name \in Nat
    BY <1>3 DEF Tools
  <2>2. QED
    BY <2>1, OneRange DEF UsedBy
<1>13. Below(Range(<<t.name>>), Range(From(b, j)))
  BY <1>3, <1>4, <1>5, <1>12
<1>14. Apart(s, q, n) /\ (Ahead(s, p) => Ahead(s, q))
  <2>1. UsedIn(s, q) \subseteq UsedIn(s, p) \cup Range(b) /\ Range(x) \cap UsedIn(s, q) = {}
        /\ Range(q.buffer) \cap (UsedIn(s, q) \cup Range(x)) = {}
        /\ Range(x) \cup Range(<<t.name>>) \cup Range(q.buffer) \subseteq Range(b)
    BY <1>1, <1>5, <1>8, <1>10, <1>11, <1>12
  <2> DEFINE y == <<t.name>>
  <2>2. /\ y \in Seq(Nat) /\ InOrder(y) /\ NamesIn(s, q) = NamesIn(s, p) \o y
        /\ Range(x) \cup Range(y) \cup Range(q.buffer) \subseteq Range(p.buffer)
        /\ UsedIn(s, q) \subseteq UsedIn(s, p) \cup Range(p.buffer)
        /\ Below(Range(y), Range(q.buffer)) /\ Below(Range(x), Range(q.buffer)) /\ InOrder(q.buffer)
    BY <1>5, <1>8, <1>10, <1>12, <1>13, <2>1
  <2> HIDE DEF y
  <2>3. QED
    BY <1>5, <1>8, <2>1, <2>2, ParserStep
<1>15. Digests(s, p, q, n)
  BY <1>8, <1>14 DEF Digests
<1>16. QED
  BY <1>9, <1>15

\* A step that passes no text on.
LEMMA TakenStep ==
    ASSUME NEW s \in ShownTypes, NEW p \in Parsers, NEW q \in Parsers, NEW n, Apart(s, p, n),
           NEW y \in Seq(Nat), q.text = p.text, NamesIn(s, q) = NamesIn(s, p) \o y,
           InOrder(y), InOrder(q.buffer), Range(y) \cup Range(q.buffer) \subseteq Range(p.buffer),
           UsedIn(s, q) \subseteq UsedIn(s, p) \cup Range(p.buffer),
           Range(q.buffer) \cap UsedIn(s, q) = {}, Below(Range(y), Range(q.buffer))
    PROVE  Digests(s, p, q, n)
<1> DEFINE x == <<>>
<1>1. x \in Seq(Nat) /\ InOrder(x) /\ Range(x) = {} /\ x = <<>>
  BY NoneInOrder
<1>2. q.text = p.text \o x
  BY BufferFacts
<1> HIDE DEF x
<1>3. Range(x) \cup Range(y) \cup Range(q.buffer) \subseteq Range(p.buffer)
      /\ Range(x) \cap UsedIn(s, q) = {} /\ Range(q.buffer) \cap (UsedIn(s, q) \cup Range(x)) = {}
      /\ Below(Range(x), Range(q.buffer))
  BY <1>1 DEF Below
<1>4. Apart(s, q, n) /\ (Ahead(s, p) => Ahead(s, q))
  BY <1>1, <1>2, <1>3, ParserStep
<1>5. QED
  BY <1>4 DEF Digests

\* MatchFunction's.
LEMMA FunctionDigests ==
    ASSUME NEW s \in ShownTypes, NEW p \in Parsers, NEW n, Apart(s, p, n),
           p.state = "MatchingFunction", NEW i \in 1 .. Len(p.buffer)
    PROVE  Digests(s, p, [p EXCEPT !.name = p.buffer[i], !.parameters = NoParameters,
                                   !.buffer = From(@, i + 1), !.state = "ParsingParameters"], n)
<1> DEFINE b == p.buffer
           c == From(b, i + 1)
           q == [p EXCEPT !.name = b[i], !.parameters = NoParameters,
                          !.buffer = From(@, i + 1), !.state = "ParsingParameters"]
           y == <<b[i]>>
<1>1. /\ b \in Seq(Nat) /\ InOrder(b) /\ Range(b) \cap UsedIn(s, p) = {}
      /\ b[i] \in Nat /\ b[i] \in Range(b) /\ Len(b) \in Nat
  BY BufferFacts
<1>2. i \in 1 .. Len(b) + 1 /\ i + 1 \in Nat /\ i <= i + 1 /\ i <= i /\ i < i + 1
  BY <1>1
<1>3. /\ c \in Seq(Nat) /\ InOrder(c) /\ Range(c) \subseteq Range(b) /\ Below({b[i]}, Range(c))
  BY <1>1, <1>2, CutAt
<1>4. b[i] \notin Range(c)
  BY <1>1, <1>3 DEF Below
<1>5. y \in Seq(Nat) /\ InOrder(y) /\ Range(y) = {b[i]}
  BY <1>1, OneRange
<1>6. /\ q \in Parsers /\ q.text = p.text /\ q.buffer = c /\ q.name = b[i]
      /\ q.tools = p.tools /\ q.state = "ParsingParameters" /\ q.parameters = NoParameters
  BY <1>1, <1>3, NoParametersTyped DEF Parsers, States
<1> HIDE DEF b, c, q, y
<1>7. /\ NamesIn(s, q) = NamesIn(s, p) \o <<q.name>>
      /\ UsedIn(s, q) = UsedIn(s, p) \cup {q.name} \cup PlacesIn(q.parameters)
  BY <1>6, ToolOpened
<1>8. NamesIn(s, q) = NamesIn(s, p) \o y /\ UsedIn(s, q) = UsedIn(s, p) \cup {b[i]}
  BY <1>6, <1>7, NoParametersTyped DEF y
<1>9. /\ Range(y) \cup Range(q.buffer) \subseteq Range(p.buffer)
      /\ UsedIn(s, q) \subseteq UsedIn(s, p) \cup Range(p.buffer)
      /\ Range(q.buffer) \cap UsedIn(s, q) = {} /\ Below(Range(y), Range(q.buffer))
  BY <1>1, <1>3, <1>4, <1>5, <1>6, <1>8 DEF b
<1>10. InOrder(q.buffer)
  BY <1>3, <1>6
<1>11. Digests(s, p, q, n)
  BY <1>5, <1>6, <1>8, <1>9, <1>10, TakenStep
<1>12. QED
  BY <1>11 DEF q, b

\* TakeParameter's and FlushParameter's.
LEMMA ParameterDigests ==
    ASSUME NEW s \in ShownTypes, NEW p \in Parsers, NEW n, Apart(s, p, n),
           p.state = "ParsingParameters", ParamStarts(p.buffer) # {},
           \A k \in 1 .. n : answer.symbols[k] \in STRING
    PROVE  Digests(s, p, WithParameter(p), n) /\ WithParameter(p).text = p.text
             /\ WithParameter(p).tools = p.tools /\ WithParameter(p).state = p.state
<1> DEFINE b == p.buffer
           i == Min(ParamStarts(b))
           end == ParamEnd(b, i)
           cut == SubSeq(b, i + 2, end - 1)
           value == Trim(cut)
           key == Symbol(b, i + 1)
           c == From(b, end + 2)
           q == [p EXCEPT !.parameters = Inserted(@, key, value), !.buffer = c]
<1>1. b \in Seq(Nat) /\ InOrder(b) /\ Range(b) \cap UsedIn(s, p) = {} /\ Len(b) \in Nat
  BY BufferFacts
<1>2. i \in 1 .. Len(b) - 1 /\ end \in i + 1 .. Len(b) + 1
  BY <1>1, ParameterFound
<1> HIDE DEF i, end
<1>3. /\ i + 2 \in Nat \ {0} /\ end - 1 \in Int /\ end - 1 <= Len(b)
      /\ end + 2 \in Nat \ {0} /\ 1 \in 1 .. Len(b) + 1 /\ 1 <= end + 2 /\ i + 1 \in 1 .. Len(b)
      /\ \A k \in i + 2 .. end - 1 : k \in 1 .. Len(b) /\ 1 <= k /\ k < end + 2
  <2> DEFINE N == Len(b)
  <2>1. N \in Nat /\ i \in 1 .. N - 1 /\ end \in i + 1 .. N + 1
    BY <1>1, <1>2
  <2> HIDE DEF N
  <2>2. QED
    BY <2>1 DEF N
<1>4. cut \in Seq(Nat) /\ Range(cut) = {b[k] : k \in i + 2 .. end - 1}
  <2> DEFINE f == i + 2
             l == end - 1
  <2>1. f \in Nat \ {0} /\ l \in Int /\ l <= Len(b)
    BY <1>3
  <2>2. SUFFICES SubSeq(b, f, l) \in Seq(Nat) /\ Range(SubSeq(b, f, l)) = {b[k] : k \in f .. l}
    OBVIOUS
  <2> HIDE DEF f, l
  <2>3. QED
    BY <1>1, <2>1, Piece
<1> HIDE DEF cut
<1>5. value \in Seq(Nat) /\ Range(value) \subseteq Range(cut)
  BY <1>4, Trimmed
<1>6. /\ c \in Seq(Nat) /\ InOrder(c) /\ Range(c) \subseteq Range(b)
      /\ \A k \in 1 .. Len(b) : 1 <= k /\ k < end + 2 => Below({b[k]}, Range(c))
  <2>1. end + 2 \in Nat
    BY <1>3
  <2>2. QED
    BY <1>1, <1>3, <2>1, CutAt
<1>7. Range(cut) \subseteq Range(b) /\ Range(cut) \cap Range(c) = {}
  <2>1. SUFFICES ASSUME NEW u \in Range(cut) PROVE u \in Range(b) /\ u \notin Range(c)
    OBVIOUS
  <2>2. PICK k \in i + 2 .. end - 1 : u = b[k]
    BY <1>4
  <2>3. k \in 1 .. Len(b) /\ 1 <= k /\ k < end + 2
    BY <1>3
  <2>4. Below({u}, Range(c)) /\ u \in Nat /\ u \in Range(b)
    BY <1>1, <1>6, <2>2, <2>3, Typed
  <2>5. QED
    BY <2>4 DEF Below
<1>8. key \in STRING
  <2>1. b[i + 1] \in Range(b)
    BY <1>1, <1>3, Typed
  <2>2. b[i + 1] \in 1 .. n
    BY <2>1 DEF Apart, Pieces
  <2>3. QED
    BY <2>2 DEF Symbol
<1> HIDE DEF value, key, c
<1>9. p.parameters \in Inputs
  BY ViewTyped
<1>10. /\ Inserted(p.parameters, key, value) \in Inputs
       /\ PlacesIn(Inserted(p.parameters, key, value)) \subseteq PlacesIn(p.parameters) \cup Range(value)
  BY <1>5, <1>8, <1>9, InputInserted
<1>11. /\ q \in Parsers /\ q.text = p.text /\ q.buffer = c /\ q.name = p.name
       /\ q.tools = p.tools /\ q.state = "ParsingParameters"
       /\ q.parameters = Inserted(p.parameters, key, value)
  BY <1>6, <1>10 DEF Parsers, States
<1>12. q = WithParameter(p)
  BY DEF WithParameter, i, end, cut, value, key, c
<1> HIDE DEF q
<1>13. /\ NamesIn(s, q) = NamesIn(s, p)
       /\ UsedIn(s, q) \subseteq UsedIn(s, p) \cup Range(value)
  BY <1>10, <1>11, ToolExtended
<1>14. NamesIn(s, q) = NamesIn(s, p) \o <<>> /\ <<>> \in Seq(Nat) /\ InOrder(<<>>) /\ Range(<<>>) = {}
  BY <1>13, BufferFacts, NoneInOrder
<1>15. /\ Range(<<>>) \cup Range(q.buffer) \subseteq Range(p.buffer)
       /\ UsedIn(s, q) \subseteq UsedIn(s, p) \cup Range(p.buffer)
       /\ Range(q.buffer) \cap UsedIn(s, q) = {} /\ Below(Range(<<>>), Range(q.buffer))
       /\ InOrder(q.buffer)
  BY <1>1, <1>5, <1>6, <1>7, <1>11, <1>13, <1>14 DEF Below
<1>16. Digests(s, p, q, n)
  BY <1>11, <1>14, <1>15, TakenStep
<1>17. QED
  BY <1>11, <1>12, <1>16

\* EndCall's.
LEMMA EndDigests ==
    ASSUME NEW s \in ShownTypes, NEW p \in Parsers, NEW n, Apart(s, p, n), Ahead(s, p),
           p.state = "ParsingParameters", NEW i \in 1 .. Len(p.buffer) + 1
    PROVE  Digests(s, p, Finish(Filter(p, i)), n)
<1> DEFINE b == p.buffer
           x == Before(b, i)
           t == Detected(p.name, p.parameters)
           q == Finish(Filter(p, i))
<1>1. i \in Nat /\ b \in Seq(Nat) /\ InOrder(b) /\ Range(b) \cap UsedIn(s, p) = {}
  BY BufferFacts
<1>2. /\ x \in Seq(Nat) /\ InOrder(x) /\ Range(x) \subseteq Range(b)
      /\ From(b, i) \in Seq(Nat) /\ InOrder(From(b, i)) /\ Range(From(b, i)) \subseteq Range(b)
      /\ Range(x) \cap Range(From(b, i)) = {} /\ Below(Range(x), Range(From(b, i)))
  <2>1. i <= i
    BY <1>1
  <2>2. QED
    BY <1>1, <2>1, CutAt
<1> HIDE DEF x
<1>3. p.text \o x \in Seq(Nat)
  BY <1>2, BufferFacts, Joined
<1>4. t \in Tools /\ Append(p.tools, t) \in Seq(Tools)
  <2>1. t \in Tools
    BY ViewTyped DEF Tools, Detected
  <2> HIDE DEF t
  <2>2. QED
    BY <2>1, ViewTyped, ToolAdded
<1>5. /\ q \in Parsers /\ q.text = p.text \o x /\ q.buffer = From(b, i)
      /\ q.tools = Append(p.tools, t) /\ q.state # "ParsingParameters"
  BY <1>2, <1>3, <1>4 DEF Finish, Filter, Parsers, States, x
<1> HIDE DEF q, b
<1>6. NamesIn(s, q) = NamesIn(s, p) \o <<>> /\ UsedIn(s, q) = UsedIn(s, p)
  BY <1>5, ToolClosed, BufferFacts
<1>7. Below(Range(<<>>), Range(q.buffer)) /\ <<>> \in Seq(Nat) /\ InOrder(<<>>) /\ Range(<<>>) = {}
  BY NoneInOrder DEF Below
<1>8. /\ Range(x) \cup Range(<<>>) \cup Range(q.buffer) \subseteq Range(p.buffer)
      /\ UsedIn(s, q) \subseteq UsedIn(s, p) \cup Range(p.buffer) /\ Range(x) \cap UsedIn(s, q) = {}
      /\ Range(q.buffer) \cap (UsedIn(s, q) \cup Range(x)) = {} /\ InOrder(q.buffer)
      /\ Below(Range(x), Range(q.buffer))
  BY <1>1, <1>2, <1>5, <1>6, <1>7 DEF b
<1>9. Apart(s, q, n) /\ (Ahead(s, p) => Ahead(s, q))
  BY <1>2, <1>5, <1>6, <1>7, <1>8, ParserStep
<1>10. QED
  BY <1>5, <1>9 DEF Digests, q

\* FlushCall's.
LEMMA LastCallDigests ==
    ASSUME NEW s \in ShownTypes, NEW p \in Parsers, NEW n, Apart(s, p, n),
           p.state = "ParsingParameters"
    PROVE  Digests(s, p, [Finish(p) EXCEPT !.buffer = <<>>], n)
<1> DEFINE t == Detected(p.name, p.parameters)
           q == [Finish(p) EXCEPT !.buffer = <<>>]
<1>1. t \in Tools /\ Append(p.tools, t) \in Seq(Tools)
  <2>1. t \in Tools
    BY ViewTyped DEF Tools, Detected
  <2> HIDE DEF t
  <2>2. QED
    BY <2>1, ViewTyped, ToolAdded
<1>2. /\ q \in Parsers /\ q.text = p.text /\ q.buffer = <<>>
      /\ q.tools = Append(p.tools, t) /\ q.state # "ParsingParameters"
  BY <1>1, NoneInOrder DEF Finish, Parsers, States
<1> HIDE DEF q
<1>3. NamesIn(s, q) = NamesIn(s, p) \o <<>> /\ UsedIn(s, q) = UsedIn(s, p)
  BY <1>2, ToolClosed, BufferFacts
<1>4. /\ Below(Range(<<>>), Range(q.buffer)) /\ <<>> \in Seq(Nat) /\ InOrder(<<>>)
      /\ Range(<<>>) \cup Range(q.buffer) \subseteq Range(p.buffer) /\ InOrder(q.buffer)
      /\ Range(q.buffer) \cap UsedIn(s, q) = {}
  BY <1>2, NoneInOrder DEF Below
<1>5. Digests(s, p, q, n)
  BY <1>2, <1>3, <1>4, TakenStep
<1>6. QED
  BY <1>5 DEF q

\* FlushRest's.
LEMMA LastJsonCallDigests ==
    ASSUME NEW s \in ShownTypes, NEW p \in Parsers, NEW n, Apart(s, p, n), p.tools = <<>>,
           p.state # "ParsingParameters", JsonCallIn(p.buffer).first > 0
    PROVE  Digests(s, p, [p EXCEPT !.tools = <<JsonTool(p.buffer, JsonCallIn(p.buffer))>>,
                                   !.buffer = <<>>], n)
<1> DEFINE b == p.buffer
           call == JsonCallIn(b)
           t == JsonTool(b, call)
           q == [p EXCEPT !.tools = <<t>>, !.buffer = <<>>]
           y == <<t.name>>
<1>1. b \in Seq(Nat) /\ Len(b) \in Nat
  BY BufferFacts
<1>2. call.first \in 1 .. Len(b) /\ call.last \in call.first + 4 .. Len(b)
  BY <1>1, JsonCallFound
<1>3. t \in Tools /\ UsedBy(t) \subseteq {b[k] : k \in call.first .. call.last}
  BY <1>1, <1>2, JsonToolMade
<1>4. UsedBy(t) \subseteq Range(b)
  <2> DEFINE f == call.first
             l == call.last
  <2>1. f \in 1 .. Len(b) /\ l \in f + 4 .. Len(b) /\ UsedBy(t) \subseteq {b[k] : k \in f .. l}
    BY <1>2, <1>3
  <2> HIDE DEF f, l, t
  <2>2. \A k \in f .. l : k \in 1 .. Len(b)
    BY <1>1, <2>1
  <2>3. QED
    BY <1>1, <2>1, <2>2, Typed
<1> HIDE DEF t
<1>5. q \in Parsers /\ q.text = p.text /\ q.buffer = <<>> /\ q.tools = <<t>>
      /\ q.state # "ParsingParameters"
  <2>1. <<t>> \in Seq(Tools) /\ <<>> \in Seq(Nat)
    BY <1>3, OneTool, NoneInOrder
  <2>2. QED
    BY <2>1 DEF Parsers
<1>6. q.tools = Append(p.tools, t)
  BY <1>5
<1>7. y \in Seq(Nat) /\ InOrder(y) /\ Range(y) = {t.name} /\ t.name \in UsedBy(t)
  <2>1. t.name \in Nat
    BY <1>3 DEF Tools
  <2>2. QED
    BY <2>1, OneRange DEF UsedBy
<1> HIDE DEF q
<1>8. NamesIn(s, q) = NamesIn(s, p) \o <<t.name>> /\ UsedIn(s, q) = UsedIn(s, p) \cup UsedBy(t)
  BY <1>3, <1>5, <1>6, ToolFound
<1>9. NamesIn(s, q) = NamesIn(s, p) \o y
  BY <1>8
<1> HIDE DEF y
<1>10. /\ Range(y) \cup Range(q.buffer) \subseteq Range(p.buffer) /\ InOrder(q.buffer)
       /\ UsedIn(s, q) \subseteq UsedIn(s, p) \cup Range(p.buffer)
       /\ Range(q.buffer) \cap UsedIn(s, q) = {} /\ Below(Range(y), Range(q.buffer))
  BY <1>4, <1>5, <1>7, <1>8, NoneInOrder DEF Below
<1>11. Digests(s, p, q, n)
  BY <1>5, <1>7, <1>9, <1>10, TakenStep
<1>12. QED
  BY <1>11 DEF q, t

(* ------------------- what comes in and what goes out --------------------- *)

\* What feed has found is shown.
LEMMA FoundShown ==
    ASSUME NEW s \in ShownTypes, NEW p \in Parsers, NEW n, Apart(s, p, n),
           NEW r \in ShownTypes, NEW q \in Parsers,
           q.buffer = p.buffer, q.state = p.state, q.name = p.name, q.parameters = p.parameters,
           r.thinking = s.thinking, r.tools = s.tools \o p.tools, q.tools = <<>>,
           TextOf(r, q) = TextOf(s, p)
    PROVE  Apart(r, q, n) /\ (Ahead(s, p) => Ahead(r, q))
<1>1. s.tools \in Seq(Tools) /\ p.tools \in Seq(Tools)
  BY ViewTyped
<1>2. /\ r.tools \in Seq(Tools) /\ NamesOf(r.tools) = NamesOf(s.tools) \o NamesOf(p.tools)
      /\ InputOf(r.tools) = InputOf(s.tools) \cup InputOf(p.tools)
  BY <1>1, ToolsJoined, SMTT(20)
<1>3. NamesOf(q.tools) = <<>> /\ InputOf(q.tools) = {}
  BY NoTools
<1>4. NamesOf(r.tools) \in Seq(Nat)
  BY <1>2, NamesTyped
<1>5. NamesOf(r.tools) \o NamesOf(q.tools) = NamesOf(s.tools) \o NamesOf(p.tools)
  BY <1>2, <1>3, <1>4, ConcatEmptySeq
<1>6. OpenName(q) = OpenName(p) /\ OpenPlaces(q) = OpenPlaces(p)
  BY DEF OpenName, OpenPlaces
<1>7. NamesIn(r, q) = NamesIn(s, p)
  BY <1>5, <1>6 DEF NamesIn
<1>8. UsedIn(r, q) = UsedIn(s, p)
  BY <1>2, <1>3, <1>6, <1>7 DEF UsedIn
<1>9. QED
  BY <1>7, <1>8 DEF Apart, Ahead

\* More of the answer is known to be passed on.
LEMMA Later ==
    ASSUME NEW s \in ShownTypes, NEW p \in Parsers, NEW n \in Nat, NEW m \in Nat, n <= m, Apart(s, p, n)
    PROVE  Apart(s, p, m)
<1>1. 1 .. n \subseteq 1 .. m
  OBVIOUS
<1>2. QED
  BY <1>1 DEF Apart, Pieces

\* The buffer after the beginning of feed and of flush.
LEMMA BufferFed ==
    ASSUME NEW s \in ShownTypes, NEW p \in Parsers, NEW n \in Nat, NEW m \in Nat, n <= m, Apart(s, p, n),
           NEW c \in Seq(Nat), InOrder(c), Range(c) \subseteq n + 1 .. m
    PROVE  LET q == [p EXCEPT !.buffer = Stripped(p.buffer \o c)]
           IN  /\ q \in Parsers /\ Apart(s, q, m) /\ (Ahead(s, p) => Ahead(s, q))
               /\ p.buffer # <<>> /\ Symbol(p.buffer, 1) = "bullet" =>
                    q.buffer # <<>> /\ Symbol(q.buffer, 1) = "bullet"
<1> DEFINE b == p.buffer \o c
           d == Stripped(b)
           q == [p EXCEPT !.buffer = d]
<1>1. /\ p.buffer \in Seq(Nat) /\ InOrder(p.buffer) /\ Range(p.buffer) \subseteq 1 .. n
      /\ Len(p.buffer) \in Nat
  BY BufferFacts DEF Apart, Pieces
<1>2. Below(Range(p.buffer), Range(c))
  BY <1>1 DEF Below
<1>3. b \in Seq(Nat) /\ InOrder(b) /\ Range(b) = Range(p.buffer) \cup Range(c) /\ Len(b) = Len(p.buffer) + Len(c)
  BY <1>1, <1>2, Joined
<1>4. p.buffer # <<>> => b # <<>> /\ b[1] = p.buffer[1]
  <2>1. SUFFICES ASSUME p.buffer # <<>> PROVE b # <<>> /\ b[1] = p.buffer[1]
    OBVIOUS
  <2>2. Len(p.buffer) > 0
    BY <1>1, <2>1, EmptySeq
  <2>3. 1 \in 1 .. Len(p.buffer) + Len(c) /\ 1 <= Len(p.buffer) /\ Len(c) \in Nat
    BY <1>1, <2>2, Typed
  <2>4. b[1] = p.buffer[1]
    BY <1>1, <2>3, ConcatProperties
  <2>5. Len(b) > 0
    BY <1>1, <1>3, <2>2, <2>3
  <2>6. QED
    BY <2>4, <2>5
<1> HIDE DEF b
<1>5. /\ d \in Seq(Nat) /\ InOrder(d) /\ Range(d) \subseteq Range(b)
      /\ b # <<>> /\ b[1] \notin InToken(b) => d # <<>> /\ d[1] = b[1]
  BY <1>3, StrippedFacts
<1> HIDE DEF d
<1>6. /\ q \in Parsers /\ q.buffer = d /\ q.text = p.text /\ q.tools = p.tools /\ q.name = p.name
      /\ q.state = p.state /\ q.parameters = p.parameters
  BY <1>5 DEF Parsers
<1> HIDE DEF q
<1>7. TextOf(s, q) = TextOf(s, p) /\ NamesIn(s, q) = NamesIn(s, p) /\ UsedIn(s, q) = UsedIn(s, p)
  BY <1>6 DEF TextOf, NamesIn, UsedIn, OpenName, OpenPlaces
<1> DEFINE T == Range(TextOf(s, p)) \cup Range(s.thinking) \cup UsedIn(s, p)
<1>8. /\ T \subseteq 1 .. n /\ Range(p.buffer) \cap T = {}
      /\ Range(NamesIn(s, p)) \subseteq T /\ Range(TextOf(s, p)) \subseteq T
      /\ Below(Range(NamesIn(s, p)), Range(p.buffer))
  BY DEF Apart, Pieces
<1> HIDE DEF T
<1>9. Range(d) \subseteq Range(p.buffer) \cup (n + 1 .. m)
  BY <1>3, <1>5
<1>10. Range(d) \cap T = {} /\ T \subseteq 1 .. m /\ Range(d) \subseteq 1 .. m
  <2>1. 1 .. n \subseteq 1 .. m /\ n + 1 .. m \subseteq 1 .. m /\ (n + 1 .. m) \cap 1 .. n = {}
    OBVIOUS
  <2>2. QED
    BY <1>1, <1>8, <1>9, <2>1
<1>11. Below(Range(NamesIn(s, p)), Range(d))
  <2>1. ASSUME NEW x \in Range(NamesIn(s, p)), NEW y \in n + 1 .. m PROVE x < y
    <3>1. x \in 1 .. n
      BY <1>8
    <3>2. QED
      BY <3>1
  <2>2. QED
    BY <1>8, <1>9, <2>1 DEF Below
<1>12. Ahead(s, p) => Ahead(s, q)
  <2>1. ASSUME NEW x \in Range(TextOf(s, p)), NEW y \in n + 1 .. m PROVE x < y
    <3>1. x \in 1 .. n
      BY <1>8
    <3>2. QED
      BY <3>1
  <2>2. QED
    BY <1>6, <1>7, <1>9, <2>1 DEF Ahead, Below
<1>13. Apart(s, q, m)
  BY <1>5, <1>6, <1>7, <1>10, <1>11 DEF Apart, Pieces, T
<1>14. ASSUME p.buffer # <<>>, Symbol(p.buffer, 1) = "bullet"
       PROVE  q.buffer # <<>> /\ Symbol(q.buffer, 1) = "bullet"
  <2>1. b # <<>> /\ Symbol(b, 1) = "bullet"
    BY <1>4, <1>14 DEF Symbol
  <2>2. b[1] \notin InToken(b)
    BY <1>3, <2>1, BulletIsNoToken
  <2>3. QED
    BY <1>5, <1>6, <2>1, <2>2 DEF Symbol
<1>15. QED
  BY <1>6, <1>12, <1>13, <1>14 DEF q, d, b

\* Thinking is shown.
LEMMA ThinkingGrows ==
    ASSUME NEW s \in ShownTypes, NEW p \in Parsers, NEW n \in Nat, NEW m \in Nat, n <= m, Apart(s, p, n),
           NEW c \in Seq(Nat), InOrder(c), Range(c) \subseteq n + 1 .. m
    PROVE  LET r == [s EXCEPT !.thinking = @ \o c]
           IN  r \in ShownTypes /\ Apart(r, p, m) /\ (Ahead(s, p) => Ahead(r, p))
<1> DEFINE r == [s EXCEPT !.thinking = @ \o c]
<1>1. s.thinking \in Seq(Nat)
  BY ViewTyped
<1>2. s.thinking \o c \in Seq(Nat) /\ Range(s.thinking \o c) = Range(s.thinking) \cup Range(c)
  BY <1>1, Joined
<1>3. r \in ShownTypes /\ r.text = s.text /\ r.tools = s.tools /\ r.thinking = s.thinking \o c
  BY <1>2 DEF ShownTypes
<1> HIDE DEF r
<1>4. TextOf(r, p) = TextOf(s, p) /\ NamesIn(r, p) = NamesIn(s, p) /\ UsedIn(r, p) = UsedIn(s, p)
  BY <1>3 DEF TextOf, NamesIn, UsedIn
<1>5. 1 .. n \subseteq 1 .. m /\ n + 1 .. m \subseteq 1 .. m /\ (n + 1 .. m) \cap 1 .. n = {}
  OBVIOUS
<1>6. Apart(r, p, m)
  BY <1>2, <1>3, <1>4, <1>5 DEF Apart, Pieces
<1>7. QED
  BY <1>3, <1>4, <1>6 DEF r, Ahead

\* Text that was held back is shown.
LEMMA TextGrows ==
    ASSUME NEW s \in ShownTypes, NEW p \in Parsers, NEW n \in Nat, NEW m \in Nat, n <= m, Apart(s, p, n),
           p.text = <<>>, NEW c \in Seq(Nat), InOrder(c), Range(c) \subseteq n + 1 .. m
    PROVE  LET r == [s EXCEPT !.text = @ \o c]
           IN  r \in ShownTypes /\ Apart(r, p, m)
<1> DEFINE r == [s EXCEPT !.text = @ \o c]
<1>1. s.text \in Seq(Nat)
  BY ViewTyped
<1>2. s.text \o c \in Seq(Nat) /\ Range(s.text \o c) = Range(s.text) \cup Range(c)
  BY <1>1, Joined
<1>3. r \in ShownTypes /\ r.text = s.text \o c /\ r.tools = s.tools /\ r.thinking = s.thinking
  BY <1>2 DEF ShownTypes
<1> HIDE DEF r
<1>4. TextOf(r, p) = s.text \o c /\ TextOf(s, p) = s.text
  BY <1>1, <1>2, <1>3, ConcatEmptySeq DEF TextOf
<1>5. NamesIn(r, p) = NamesIn(s, p) /\ UsedIn(r, p) = UsedIn(s, p)
  BY <1>3 DEF NamesIn, UsedIn
<1>6. 1 .. n \subseteq 1 .. m /\ n + 1 .. m \subseteq 1 .. m /\ (n + 1 .. m) \cap 1 .. n = {}
  OBVIOUS
<1>7. InOrder(s.text) /\ Range(s.text) \subseteq 1 .. n
  BY <1>4 DEF Apart, Pieces
<1>8. Below(Range(s.text), Range(c))
  BY <1>7 DEF Below
<1>9. InOrder(s.text \o c)
  BY <1>1, <1>7, <1>8, Joined
<1>10. Apart(r, p, m)
  BY <1>2, <1>3, <1>4, <1>5, <1>6, <1>9 DEF Apart, Pieces
<1>11. QED
  BY <1>3, <1>10 DEF r

(* ---------------------------------- tags --------------------------------- *)

TagSymbols == {"<", "th", "/th", "ink>", "ought>"}
AllTags == Opens \cup Closes
Readers == Closes \cup {Outside}

LEMMA TagFacts ==
    /\ \A t \in AllTags : /\ t \in Seq(TagSymbols) /\ Len(t) = 3
                          /\ t[1] = "<" /\ t[2] # "<" /\ t[3] # "<"
    /\ \A t, u \in AllTags : t[2] = u[2] /\ t[3] = u[3] => t = u
    /\ \A t \in AllTags : AfterTag(t) \in Readers
    /\ \A c \in Readers : Tags(c) \subseteq AllTags
<1>1. Opens = {<<"<", "th", "ink>">>, <<"<", "th", "ought>">>}
  BY DEF Opens
<1>2. Closes = {<<"<", "/th", "ink>">>, <<"<", "/th", "ought>">>}
  BY DEF Closes, Opens, CloseOf
<1>3. \A t \in AllTags : /\ t \in Seq(TagSymbols) /\ Len(t) = 3
                         /\ t[1] = "<" /\ t[2] # "<" /\ t[3] # "<"
  <2>1. ASSUME NEW x \in {"th", "/th"}, NEW y \in {"ink>", "ought>"}
        PROVE  LET t == <<"<", x, y>>
               IN  /\ t \in Seq(TagSymbols) /\ Len(t) = 3
                   /\ t[1] = "<" /\ t[2] # "<" /\ t[3] # "<"
    BY DEF TagSymbols
  <2>2. \A t \in AllTags : \E x \in {"th", "/th"}, y \in {"ink>", "ought>"} : t = <<"<", x, y>>
    BY <1>1, <1>2 DEF AllTags
  <2>3. QED
    BY <2>1, <2>2, ZenonT(30)
<1>4. \A t, u \in AllTags : t[2] = u[2] /\ t[3] = u[3] => t = u
  BY <1>1, <1>2 DEF AllTags
<1>5. \A t \in AllTags : AfterTag(t) \in Readers
  BY DEF AllTags, AfterTag, Readers, Closes
<1>6. \A c \in Readers : Tags(c) \subseteq AllTags
  BY DEF AllTags, Tags, Readers
<1>7. QED
  BY <1>3, <1>4, <1>5, <1>6

\* Where a tag starts.
LEMMA TagStarts ==
    ASSUME NEW b \in Seq(Nat), NEW i \in Nat, NEW t \in AllTags
    PROVE  StartsAt(b, i, t) <=> i + 2 <= Len(b) /\ Symbol(b, i) = "<"
                                 /\ Symbol(b, i + 1) = t[2] /\ Symbol(b, i + 2) = t[3]
<1>1. t \in Seq(TagSymbols) /\ Len(t) = 3 /\ t[1] = "<"
  BY TagFacts
<1>2. QED
  BY <1>1, Start3

\* Only one starts there.
LEMMA OneTag ==
    ASSUME NEW b \in Seq(Nat), NEW i \in Nat, NEW t \in AllTags, NEW u \in AllTags,
           StartsAt(b, i, t), StartsAt(b, i, u)
    PROVE  t = u
<1>1. t[2] = u[2] /\ t[3] = u[3]
  BY TagStarts
<1>2. QED
  BY <1>1, TagFacts

(* -------------------------- a reader of the answer ----------------------- *)

Size == Len(answer.symbols)

LEMMA WholeFacts ==
    ASSUME answer.symbols \in Seq(STRING)
    PROVE  /\ Size \in Nat /\ Whole \in Seq(Nat) /\ Len(Whole) = Size
           /\ DOMAIN answer.symbols = 1 .. Size
           /\ \A i \in 1 .. Size : Whole[i] = i /\ Symbol(Whole, i) = answer.symbols[i]
<1>1. Size \in Nat /\ DOMAIN answer.symbols = 1 .. Size
  BY DEF Size
<1>2. Whole \in Seq(Nat) /\ Len(Whole) = Size /\ \A i \in 1 .. Size : Whole[i] = i
  BY <1>1 DEF Whole
<1>3. QED
  BY <1>1, <1>2 DEF Symbol

\* What a reader reads at place i.
LEMMA ReadsOn ==
    ASSUME NEW close \in Readers, NEW i
    PROVE  ReadNext(close, i) \in Readers /\ (~ReadTag(close, i) => ReadNext(close, i) = close)
<1>1. CASE ReadTag(close, i)
  <2> DEFINE tag == CHOOSE t \in Tags(close) : StartsAt(Whole, i, t)
  <2>1. tag \in Tags(close)
    BY <1>1 DEF ReadTag
  <2>2. tag \in AllTags
    BY <2>1, TagFacts
  <2>3. ReadNext(close, i) = AfterTag(tag)
    BY <1>1 DEF ReadNext
  <2> HIDE DEF tag
  <2>4. QED
    BY <1>1, <2>2, <2>3, TagFacts
<1>2. CASE ~ReadTag(close, i)
  BY <1>2 DEF ReadNext
<1>3. QED
  BY <1>1, <1>2

IsReading(f) ==
    f = [i \in 0 .. Len(answer.symbols) |-> IF i = 0 THEN Outside ELSE ReadNext(f[i - 1], i)]

LEMMA ReadingExists ==
    ASSUME answer.symbols \in Seq(STRING)
    PROVE  /\ Reading[0] = Outside
           /\ \A i \in 1 .. Size : Reading[i] = ReadNext(Reading[i - 1], i)
           /\ \A i \in 0 .. Size : Reading[i] \in Readers
<1> DEFINE step == [x \in Readers \X (1 .. Size) |-> ReadNext(x[1], x[2])]
<1>1. Size \in Nat /\ Outside \in Readers
  BY WholeFacts DEF Readers
<1>2. step \in [Readers \X (1 .. Size) -> Readers]
  BY ReadsOn
<1>3. \E f : Recursive(f, Readers, Size, Outside, step)
  <2> HIDE DEF step
  <2>1. QED
    BY <1>1, <1>2, Recursion
<1>4. PICK f \in [0 .. Size -> Readers] : f[0] = Outside /\ \A n \in 1 .. Size : f[n] = step[<<f[n - 1], n>>]
  BY <1>3 DEF Recursive
<1>5. \A n \in 1 .. Size : f[n] = ReadNext(f[n - 1], n)
  <2>1. ASSUME NEW n \in 1 .. Size PROVE f[n] = ReadNext(f[n - 1], n)
    <3>1. n - 1 \in 0 .. Size
      BY <1>1
    <3>2. <<f[n - 1], n>> \in Readers \X (1 .. Size)
      BY <3>1
    <3>3. QED
      BY <1>4, <3>2
  <2>2. QED
    BY <2>1
<1>6. IsReading(f)
  <2>1. \A n \in 0 .. Size : f[n] = IF n = 0 THEN Outside ELSE ReadNext(f[n - 1], n)
    <3>1. \A n \in 0 .. Size : n = 0 \/ n \in 1 .. Size
      BY <1>1
    <3>2. QED
      BY <1>4, <1>5, <3>1
  <2>2. f = [n \in 0 .. Size |-> f[n]]
    OBVIOUS
  <2>3. QED
    BY <2>1, <2>2 DEF IsReading, Size
<1> DEFINE g == CHOOSE h : IsReading(h)
<1>7. IsReading(g)
  BY <1>6
<1>8. Reading = g
  BY DEF Reading, IsReading
<1> HIDE DEF g
<1>9. g[0] = Outside /\ \A n \in 1 .. Size : g[n] = ReadNext(g[n - 1], n)
  <2>1. 0 \in 0 .. Size /\ \A n \in 1 .. Size : n \in 0 .. Size /\ n # 0
    BY <1>1
  <2>2. QED
    BY <1>7, <2>1 DEF IsReading, Size
<1>10. \A n \in 0 .. Size : g[n] \in Readers
  <2> DEFINE P == {n \in 0 .. Size : g[n] \in Readers}
  <2>1. 0 \in P
    BY <1>1, <1>9
  <2>2. \A n \in 1 .. Size : n - 1 \in P => n \in P
    BY <1>9, ReadsOn
  <2>3. \A n \in 0 .. Size : n \in P
    <3> HIDE DEF P
    <3>1. QED
      BY <1>1, <2>1, <2>2, Induction
  <2>4. QED
    BY <2>3
<1>11. QED
  BY <1>8, <1>9, <1>10

\* No tag that a reader of the first n symbols has seen goes on behind them.
Clean(n) == \A j \in n - 1 .. n : j > 0 => ~ReadTag(Reading[j - 1], j)

\* The next m symbols are no tags.
LEMMA Run ==
    ASSUME answer.symbols \in Seq(STRING), NEW n \in Nat, NEW m \in Nat, n + m <= Size, Clean(n),
           \A k \in n + 1 .. n + m : ~ReadTag(Reading[n], k)
    PROVE  /\ Reading[n + m] = Reading[n] /\ Clean(n + m)
           /\ \A k \in n + 1 .. n + m : Reading[k - 1] = Reading[n] /\ ~IsTag(k)
<1>1. Size \in Nat
  BY WholeFacts
<1> DEFINE P == {k \in 0 .. m : Reading[n + k] = Reading[n]}
<1>2. \A k \in 0 .. m : k \in P
  <2>1. 0 \in P
    OBVIOUS
  <2>2. ASSUME NEW k \in 1 .. m, k - 1 \in P PROVE k \in P
    <3>1. n + k \in 1 .. Size /\ n + k \in n + 1 .. n + m /\ n + k - 1 = n + (k - 1) /\ n \in 0 .. Size
      BY <1>1
    <3>2. Reading[n + k] = ReadNext(Reading[n], n + k)
      BY <2>2, <3>1, ReadingExists
    <3>3. Reading[n] \in Readers
      BY <3>1, ReadingExists
    <3>4. QED
      BY <3>1, <3>2, <3>3, ReadsOn
  <2>3. QED
    <3> HIDE DEF P
    <3>1. QED
      BY <2>1, <2>2, Induction
<1>3. ASSUME NEW j \in n - 1 .. n + m, j > 0 PROVE ~ReadTag(Reading[j - 1], j)
  <2>1. CASE j <= n
    <3>1. j \in n - 1 .. n
      BY <2>1
    <3>2. QED
      BY <1>3, <3>1 DEF Clean
  <2>2. CASE j > n
    <3>1. j \in n + 1 .. n + m /\ j - n - 1 \in 0 .. m /\ n + (j - n - 1) = j - 1
      BY <1>3, <2>2
    <3>2. Reading[j - 1] = Reading[n]
      BY <1>2, <3>1
    <3>3. QED
      BY <3>1, <3>2
  <2>3. QED
    BY <1>3, <2>1, <2>2
<1>4. ASSUME NEW k \in n + 1 .. n + m PROVE Reading[k - 1] = Reading[n] /\ ~IsTag(k)
  <2>1. k - n - 1 \in 0 .. m /\ n + (k - n - 1) = k - 1
    OBVIOUS
  <2>2. \A j \in k - 2 .. k : j \in n - 1 .. n + m
    OBVIOUS
  <2>3. Reading[k - 1] = Reading[n]
    BY <1>2, <2>1
  <2>4. \A j \in k - 2 .. k : ~ (j > 0 /\ ReadTag(Reading[j - 1], j))
    BY <1>3, <2>2
  <2>5. QED
    BY <2>3, <2>4 DEF IsTag
<1>5. Clean(n + m)
  <2>1. \A j \in n + m - 1 .. n + m : j \in n - 1 .. n + m
    OBVIOUS
  <2>2. QED
    BY <1>3, <2>1 DEF Clean
<1>6. Reading[n + m] = Reading[n]
  BY <1>2
<1>7. QED
  BY <1>4, <1>5, <1>6

\* The next symbols are a tag.
LEMMA Turn ==
    ASSUME answer.symbols \in Seq(STRING), NEW n \in Nat, n + 3 <= Size, Clean(n),
           NEW tag \in Tags(Reading[n]), StartsAt(Whole, n + 1, tag)
    PROVE  Reading[n + 3] = AfterTag(tag) /\ Clean(n + 3) /\ \A k \in n + 1 .. n + 3 : IsTag(k)
<1>1. /\ Size \in Nat /\ Whole \in Seq(Nat) /\ Len(Whole) = Size /\ n \in 0 .. Size
      /\ n + 1 \in 1 .. Size /\ n + 2 \in 1 .. Size /\ n + 3 \in 1 .. Size
      /\ n + 1 \in Nat /\ n + 2 \in Nat /\ n + 3 \in Nat
      /\ n + 1 - 1 = n /\ n + 2 - 1 = n + 1 /\ n + 3 - 1 = n + 2
  BY WholeFacts
<1>2. Reading[n] \in Readers
  BY <1>1, ReadingExists
<1>3. tag \in AllTags
  BY <1>2, TagFacts
<1>4. Symbol(Whole, n + 2) # "<" /\ Symbol(Whole, n + 3) # "<"
  <2>1. n + 1 + 1 = n + 2 /\ n + 1 + 2 = n + 3
    OBVIOUS
  <2>2. Symbol(Whole, n + 2) = tag[2] /\ Symbol(Whole, n + 3) = tag[3]
    BY <1>1, <1>3, <2>1, TagStarts
  <2>3. QED
    BY <1>3, <2>2, TagFacts
<1>5. ReadTag(Reading[n], n + 1)
  BY DEF ReadTag
<1>6. ReadNext(Reading[n], n + 1) = AfterTag(tag)
  <2> DEFINE t == CHOOSE t \in Tags(Reading[n]) : StartsAt(Whole, n + 1, t)
  <2>1. t \in Tags(Reading[n]) /\ StartsAt(Whole, n + 1, t)
    OBVIOUS
  <2>2. ReadNext(Reading[n], n + 1) = AfterTag(t)
    BY <1>5 DEF ReadNext
  <2> HIDE DEF t
  <2>3. t \in AllTags
    BY <1>2, <2>1, TagFacts
  <2>4. t = tag
    BY <1>1, <1>3, <2>1, <2>3, OneTag
  <2>5. QED
    BY <2>2, <2>4
<1>7. Reading[n + 1] = AfterTag(tag)
  BY <1>1, <1>6, ReadingExists
<1>8. ASSUME NEW close \in Readers, NEW i \in {n + 2, n + 3} PROVE ~ReadTag(close, i)
  <2>1. i \in Nat /\ Symbol(Whole, i) # "<"
    BY <1>1, <1>4
  <2>2. \A t \in Tags(close) : t \in AllTags
    BY TagFacts
  <2>3. \A t \in Tags(close) : ~StartsAt(Whole, i, t)
    BY <1>1, <2>1, <2>2, TagStarts
  <2>4. QED
    BY <2>3 DEF ReadTag
<1>9. \A i \in 1 .. Size : Reading[i - 1] \in Readers
  <2>1. \A i \in 1 .. Size : i - 1 \in 0 .. Size
    BY <1>1
  <2>2. QED
    BY <2>1, ReadingExists
<1>10. AfterTag(tag) \in Readers
  BY <1>3, TagFacts
<1>11. ~ReadTag(AfterTag(tag), n + 2) /\ ~ReadTag(AfterTag(tag), n + 3)
  BY <1>8, <1>10
<1>12. Reading[n + 2] = AfterTag(tag)
  <2>1. Reading[n + 2] = ReadNext(Reading[n + 1], n + 2)
    BY <1>1, ReadingExists
  <2>2. QED
    BY <1>7, <1>10, <1>11, <2>1, ReadsOn
<1>13. Reading[n + 3] = AfterTag(tag)
  <2>1. Reading[n + 3] = ReadNext(Reading[n + 2], n + 3)
    BY <1>1, ReadingExists
  <2>2. QED
    BY <1>10, <1>11, <1>12, <2>1, ReadsOn
<1>14. Clean(n + 3)
  <2>1. \A j \in n + 3 - 1 .. n + 3 : j = n + 2 \/ j = n + 3
    OBVIOUS
  <2>2. QED
    BY <1>1, <1>7, <1>11, <1>12, <2>1 DEF Clean
<1>15. ASSUME NEW k \in n + 1 .. n + 3 PROVE IsTag(k)
  <2>1. n + 1 \in k - 2 .. k /\ n + 1 > 0
    OBVIOUS
  <2>2. ReadTag(Reading[n + 1 - 1], n + 1)
    BY <1>1, <1>5
  <2>3. QED
    BY <2>1, <2>2 DEF IsTag
<1>16. QED
  BY <1>13, <1>14, <1>15

(* ------------------- searching the think parser's buffer ----------------- *)

\* Buffer b holds what follows the first n symbols.
Holds(b, n) == b \in Seq(Nat) /\ n \in Nat /\ n + Len(b) <= Size /\ \A i \in 1 .. Len(b) : b[i] = n + i

LEMMA HeldSymbols ==
    ASSUME answer.symbols \in Seq(STRING), NEW b, NEW n, Holds(b, n)
    PROVE  /\ Len(b) \in Nat /\ DOMAIN b = 1 .. Len(b) /\ InOrder(b) /\ Range(b) = n + 1 .. n + Len(b)
           /\ \A i \in 1 .. Len(b) : n + i \in 1 .. Size /\ Symbol(b, i) = Symbol(Whole, n + i)
           /\ \A i \in 1 .. Len(b), t \in AllTags :
                StartsAt(b, i, t) <=> i + 2 <= Len(b) /\ StartsAt(Whole, n + i, t)
<1>1. /\ b \in Seq(Nat) /\ n \in Nat /\ Len(b) \in Nat /\ DOMAIN b = 1 .. Len(b)
      /\ n + Len(b) <= Size /\ \A i \in 1 .. Len(b) : b[i] = n + i
  BY Typed DEF Holds
<1>2. /\ Size \in Nat /\ Whole \in Seq(Nat) /\ Len(Whole) = Size
      /\ \A i \in 1 .. Size : Symbol(Whole, i) = answer.symbols[i]
  BY WholeFacts
<1>3. ASSUME NEW i \in 1 .. Len(b) PROVE n + i \in 1 .. Size /\ Symbol(b, i) = Symbol(Whole, n + i)
  <2>1. n + i \in 1 .. Size
    BY <1>1, <1>2
  <2>2. QED
    BY <1>1, <1>2, <2>1 DEF Symbol
<1>4. ASSUME NEW i \in 1 .. Len(b), NEW t \in AllTags
      PROVE  StartsAt(b, i, t) <=> i + 2 <= Len(b) /\ StartsAt(Whole, n + i, t)
  <2>1. i \in Nat /\ n + i \in Nat
    BY <1>1
  <2>2. StartsAt(b, i, t) <=> i + 2 <= Len(b) /\ Symbol(b, i) = "<"
                              /\ Symbol(b, i + 1) = t[2] /\ Symbol(b, i + 2) = t[3]
    BY <1>1, <2>1, TagStarts
  <2>3. StartsAt(Whole, n + i, t) <=> n + i + 2 <= Size /\ Symbol(Whole, n + i) = "<"
                              /\ Symbol(Whole, n + i + 1) = t[2] /\ Symbol(Whole, n + i + 2) = t[3]
    BY <1>2, <2>1, TagStarts
  <2>4. SUFFICES ASSUME i + 2 <= Len(b)
                 PROVE  /\ n + i + 2 <= Size /\ Symbol(b, i) = Symbol(Whole, n + i)
                        /\ Symbol(b, i + 1) = Symbol(Whole, n + i + 1)
                        /\ Symbol(b, i + 2) = Symbol(Whole, n + i + 2)
    BY <2>2, <2>3
  <2>5. /\ i + 1 \in 1 .. Len(b) /\ i + 2 \in 1 .. Len(b) /\ n + i + 2 <= Size
        /\ n + (i + 1) = n + i + 1 /\ n + (i + 2) = n + i + 2
    BY <1>1, <1>2, <2>4
  <2>6. Symbol(b, i + 1) = Symbol(Whole, n + (i + 1)) /\ Symbol(b, i + 2) = Symbol(Whole, n + (i + 2))
    BY <1>3, <2>5
  <2>7. QED
    BY <1>3, <2>5, <2>6
<1>5. Range(b) = n + 1 .. n + Len(b)
  <2>1. Range(b) = {b[i] : i \in 1 .. Len(b)}
    BY <1>1, Typed
  <2>2. \A i \in 1 .. Len(b) : n + i \in n + 1 .. n + Len(b)
    BY <1>1
  <2>3. \A k \in n + 1 .. n + Len(b) : k - n \in 1 .. Len(b) /\ n + (k - n) = k
    BY <1>1
  <2>4. ASSUME NEW k \in n + 1 .. n + Len(b) PROVE k \in Range(b)
    <3>1. b[k - n] = k
      BY <1>1, <2>3
    <3>2. QED
      BY <2>1, <2>3, <3>1
  <2>5. QED
    BY <1>1, <2>1, <2>2, <2>4
<1>6. InOrder(b)
  BY <1>1 DEF InOrder
<1>7. QED
  BY <1>1, <1>3, <1>4, <1>5, <1>6

\* No tag starts before the first.
LEMMA FirstTag ==
    ASSUME answer.symbols \in Seq(STRING), NEW b, NEW n, Holds(b, n),
           NEW close \in Readers, Matches(b, Tags(close)) # {}
    PROVE  LET i == Min(Matches(b, Tags(close)))
               tag == CHOOSE t \in Tags(close) : StartsAt(b, i, t)
           IN  /\ i \in 1 .. Len(b) /\ i + 2 <= Len(b)
               /\ tag \in Tags(close) /\ StartsAt(Whole, n + i, tag)
               /\ \A k \in n + 1 .. n + i - 1 : ~ReadTag(close, k)
<1> DEFINE M == Matches(b, Tags(close))
           i == Min(M)
           tag == CHOOSE t \in Tags(close) : StartsAt(b, i, t)
<1>1. /\ b \in Seq(Nat) /\ n \in Nat /\ Len(b) \in Nat
      /\ \A k \in 1 .. Len(b), t \in AllTags :
           StartsAt(b, k, t) <=> k + 2 <= Len(b) /\ StartsAt(Whole, n + k, t)
  BY HeldSymbols DEF Holds
<1>2. i \in M /\ i \in 1 .. Len(b) /\ \A k \in M : i <= k
  BY <1>1, FirstMatch
<1>3. M = {k \in 1 .. Len(b) : \E t \in Tags(close) : StartsAt(b, k, t)}
  BY <1>1, Typed DEF Matches
<1> HIDE DEF M, i
<1>4. tag \in Tags(close) /\ StartsAt(b, i, tag)
  BY <1>2, <1>3
<1> HIDE DEF tag
<1>5. tag \in AllTags
  BY <1>4, TagFacts
<1>6. i + 2 <= Len(b) /\ StartsAt(Whole, n + i, tag)
  BY <1>1, <1>2, <1>4, <1>5
<1>7. ASSUME NEW k \in n + 1 .. n + i - 1, ReadTag(close, k) PROVE FALSE
  <2> DEFINE l == k - n
  <2>1. l \in 1 .. Len(b) /\ l + 2 <= Len(b) /\ l < i /\ n + l = k
    BY <1>1, <1>2, <1>6
  <2>2. PICK t \in Tags(close) : StartsAt(Whole, k, t)
    BY <1>7 DEF ReadTag
  <2>3. t \in AllTags
    BY TagFacts
  <2> HIDE DEF l
  <2>4. StartsAt(b, l, t)
    BY <1>1, <2>1, <2>2, <2>3
  <2>5. l \in M
    BY <1>3, <2>1, <2>4
  <2>6. QED
    BY <1>1, <1>2, <2>1, <2>5
<1>8. QED
  BY <1>2, <1>4, <1>6, <1>7 DEF tag, i, M

\* Without one: what is not held back has no start of a tag either.
LEMMA HeldBack ==
    ASSUME answer.symbols \in Seq(STRING), NEW b, NEW n, Holds(b, n),
           NEW close \in Readers, Matches(b, Tags(close)) = {}
    PROVE  LET i == HeldFrom(b, Tags(close))
           IN  /\ i \in 1 .. Len(b) + 1
               /\ i <= Len(b) => Symbol(b, i) = "<" /\ Len(b) - i + 1 < 3
               /\ \A k \in n + 1 .. n + i - 1 : ~ReadTag(close, k)
<1> DEFINE brackets == Matches(b, {<<"<">>})
           last == Max(brackets)
           cut(j) == \E t \in Tags(close) :
                       Len(b) - j + 1 < Len(t) /\ StartsAt(b, j, SubSeq(t, 1, Len(b) - j + 1))
           i == HeldFrom(b, Tags(close))
<1>1. /\ b \in Seq(Nat) /\ n \in Nat /\ Len(b) \in Nat /\ DOMAIN b = 1 .. Len(b)
      /\ \A k \in 1 .. Len(b) : Symbol(b, k) = Symbol(Whole, n + k)
      /\ \A k \in 1 .. Len(b), t \in AllTags :
           StartsAt(b, k, t) <=> k + 2 <= Len(b) /\ StartsAt(Whole, n + k, t)
  BY HeldSymbols DEF Holds
<1>2. brackets = {j \in 1 .. Len(b) : Symbol(b, j) = "<"}
  <2>1. \A j \in 1 .. Len(b) : StartsAt(b, j, <<"<">>) <=> Symbol(b, j) = "<"
    <3>1. \A j \in 1 .. Len(b) : j + 1 - 1 = j /\ j <= Len(b)
      BY <1>1
    <3>2. QED
      BY <3>1, Start1
  <2>2. QED
    BY <1>1, <2>1 DEF Matches
<1>3. i = IF brackets # {} /\ cut(last) THEN last ELSE Len(b) + 1
  BY DEF HeldFrom
<1>4. brackets # {} => last \in brackets /\ \A j \in brackets : j <= last
  <2>1. brackets \in SUBSET (1 .. Len(b))
    BY <1>2
  <2> HIDE DEF brackets
  <2>2. QED
    BY <1>1, <2>1, MaxIsGreatest
<1>5. \A t \in Tags(close) : t \in AllTags /\ t \in Seq(TagSymbols) /\ Len(t) = 3 /\ t[1] = "<" /\ t[2] # "<"
  BY TagFacts
<1> HIDE DEF brackets, last, i
<1>6. i \in 1 .. Len(b) + 1
  <2>1. \A j \in brackets : j \in 1 .. Len(b) + 1
    BY <1>1, <1>2
  <2>2. Len(b) + 1 \in 1 .. Len(b) + 1
    BY <1>1
  <2> HIDE DEF cut
  <2>3. QED
    BY <1>3, <1>4, <2>1, <2>2
<1>7. ASSUME i <= Len(b) PROVE Symbol(b, i) = "<" /\ Len(b) - i + 1 < 3
  <2>1. brackets # {} /\ cut(last) /\ i = last
    <3> HIDE DEF cut
    <3>1. QED
      BY <1>1, <1>3, <1>7
  <2>2. PICK t \in Tags(close) : Len(b) - i + 1 < Len(t)
    BY <2>1
  <2>3. QED
    BY <1>2, <1>4, <1>5, <2>1, <2>2
<1>8. ASSUME NEW k \in n + 1 .. n + i - 1, ReadTag(close, k) PROVE FALSE
  <2> DEFINE j == k - n
             r == Len(b) - j + 1
  <2>1. j \in 1 .. Len(b) /\ j < i /\ n + j = k
    BY <1>1, <1>6
  <2>2. PICK t \in Tags(close) : StartsAt(Whole, k, t)
    BY <1>8 DEF ReadTag
  <2> HIDE DEF j
  <2>3. t \in AllTags /\ t \in Seq(TagSymbols) /\ Len(t) = 3 /\ t[1] = "<" /\ t[2] # "<"
    BY <1>5
  <2>4. ~ (j + 2 <= Len(b))
    <3>1. SUFFICES ASSUME j + 2 <= Len(b) PROVE FALSE
      OBVIOUS
    <3>2. StartsAt(b, j, t)
      BY <1>1, <2>1, <2>2, <2>3, <3>1
    <3>3. QED
      BY <1>1, <2>1, <3>2 DEF Matches
  <2>5. r \in 1 .. 2 /\ j + r - 1 = Len(b)
    <3> DEFINE N == Len(b)
    <3>1. N \in Nat /\ j \in 1 .. N /\ ~ (j + 2 <= N) /\ r = N - j + 1
      BY <1>1, <2>1, <2>4
    <3>2. SUFFICES r \in 1 .. 2 /\ j + r - 1 = N
      OBVIOUS
    <3> HIDE DEF N, r
    <3>3. QED
      BY <3>1
  <2>6. Whole \in Seq(Nat) /\ k \in Nat
    BY <1>1, WholeFacts
  <2>7. Symbol(Whole, k) = "<" /\ Symbol(Whole, k + 1) = t[2]
    BY <2>2, <2>3, <2>6, TagStarts
  <2>8. Symbol(b, j) = t[1] /\ (r = 2 => Symbol(b, j + 1) = t[2])
    <3>1. Symbol(b, j) = t[1]
      BY <1>1, <2>1, <2>3, <2>7
    <3>2. ASSUME r = 2 PROVE Symbol(b, j + 1) = t[2]
      <4>1. j + 1 \in 1 .. Len(b) /\ n + (j + 1) = k + 1
        BY <1>1, <2>1, <2>5, <3>2
      <4>2. QED
        BY <1>1, <2>7, <4>1
    <3>3. QED
      BY <3>1, <3>2
  <2>9. last = j
    <3>1. j \in brackets
      BY <1>2, <2>1, <2>3, <2>8
    <3>2. last \in 1 .. Len(b) /\ Symbol(b, last) = "<" /\ j <= last
      BY <1>2, <1>4, <3>1
    <3>3. last # j => r = 2 /\ last = j + 1
      BY <1>1, <2>1, <2>5, <3>2
    <3>4. QED
      BY <2>3, <2>8, <3>2, <3>3
  <2>10. cut(j)
    <3> DEFINE u == SubSeq(t, 1, r)
    <3>1. Len(u) = r /\ DOMAIN u = 1 .. r /\ \A l \in 1 .. r : u[l] = t[l]
      <4>1. r \in Int /\ 1 <= r /\ \A l \in 1 .. r : l \in 1 .. 3 /\ 1 + l - 1 = l
        BY <2>5
      <4>2. \A l \in 1 .. r : t[l] \in TagSymbols
        <5>1. \A l \in 1 .. 3 : t[l] \in TagSymbols
          BY <2>3, ElementOfSeq
        <5> HIDE DEF r
        <5>2. QED
          BY <4>1, <5>1
      <4> HIDE DEF r
      <4>3. /\ u \in Seq(TagSymbols) /\ Len(u) = r - 1 + 1
            /\ \A l \in 1 .. r - 1 + 1 : u[l] = t[1 + l - 1]
        BY <4>1, <4>2, SubSeqProperties
      <4>4. r - 1 + 1 = r
        BY <4>1
      <4> HIDE DEF u
      <4>5. QED
        BY <4>1, <4>3, <4>4
    <3> HIDE DEF u
    <3>2. ASSUME NEW l \in 1 .. r PROVE Symbol(b, j + l - 1) = t[l]
      <4>1. (l = 1 /\ j + l - 1 = j) \/ (l = 2 /\ r = 2 /\ j + l - 1 = j + 1)
        BY <2>1, <2>5
      <4>2. QED
        BY <2>8, <4>1
    <3>3. StartsAt(b, j, u)
      <4>1. j + Len(u) - 1 <= Len(b)
        BY <1>1, <2>5, <3>1
      <4>2. \A l \in DOMAIN u : Symbol(b, j + l - 1) = u[l]
        <5> HIDE DEF r
        <5>1. QED
          BY <3>1, <3>2
      <4>3. QED
        BY <4>1, <4>2 DEF StartsAt
    <3>4. r < Len(t)
      BY <2>3, <2>5
    <3>5. QED
      BY <3>3, <3>4 DEF u
  <2>11. brackets # {}
    BY <1>2, <2>1, <2>3, <2>8
  <2>12. i = j
    <3> HIDE DEF cut
    <3>1. QED
      BY <1>3, <2>9, <2>10, <2>11
  <2>13. QED
    BY <1>1, <2>1, <2>12
<1>9. QED
  BY <1>6, <1>7, <1>8 DEF i

(* ---------------------------- the invariants ----------------------------- *)

\* How many symbols ThinkTagParser has passed on.
Passed == got - Len(think.buffer)

Places == {"idle", "think", "tool", "rest", "flush", "last", "ended"}

TypesHeld ==
    /\ answer.symbols \in Seq(STRING) /\ got \in 0 .. Size /\ at \in Places
    /\ think \in [buffer : Seq(Nat), close : Readers]
    /\ tool \in Parsers /\ shown \in ShownTypes

\* ThinkTagParser holds what has come last; what its reader knows of what that
\* may begin with is seen between two chunks.
BufferLast == Holds(think.buffer, Passed)
TailHeld == at = "idle" =>
    Len(think.buffer) < 3 /\ (think.buffer # <<>> => Symbol(think.buffer, 1) = "<")
AllRead == at \in {"rest", "flush", "last", "ended"} => think.buffer = <<>> /\ got = Size

\* What feed has found it has returned, when it is done.
FoundHanded == at \notin {"tool", "rest"} => tool.text = <<>> /\ tool.tools = <<>>

\* All that was shown or found is apart; text that goes on is behind it.
PiecesApart ==
    /\ Apart(shown, tool, Passed)
    /\ at \in {"idle", "think", "tool", "rest"} => Ahead(shown, tool)

BulletFirst == tool.state = "MatchingFunction" /\ at # "ended" =>
    tool.buffer # <<>> /\ Symbol(tool.buffer, 1) = "bullet"

Held == TypesHeld /\ BufferLast /\ TailHeld /\ AllRead /\ FoundHanded /\ PiecesApart /\ BulletFirst

LEMMA HeldAtFirst == Init => Held
<1>1. SUFFICES ASSUME Init PROVE Held
  OBVIOUS
<1>2. answer.symbols \in Seq(STRING)
  BY <1>1, ContentParsersAssumption DEF Init
<1>3. Size \in Nat
  BY <1>2 DEF Size
<1>4. /\ tool = FreshTool /\ shown = [thinking |-> <<>>, text |-> <<>>, tools |-> <<>>]
      /\ think = [buffer |-> <<>>, close |-> Outside] /\ got = 0 /\ at = "idle"
  BY <1>1 DEF Init
<1>5. tool \in Parsers /\ shown \in ShownTypes
  BY <1>4, NoneInOrder, NoTools, NoParametersTyped DEF FreshTool, Parsers, ShownTypes, States
<1>6. TypesHeld
  BY <1>2, <1>3, <1>4, <1>5, NoneInOrder DEF TypesHeld, Places, Readers
<1>7. Passed = 0 /\ BufferLast /\ TailHeld
  <2>1. think.buffer = <<>> /\ Len(think.buffer) = 0 /\ think.buffer \in Seq(Nat)
    BY <1>4, NoneInOrder
  <2>2. Passed = 0
    <3> DEFINE l == Len(think.buffer)
    <3>1. l = 0 /\ got = 0 /\ Passed = got - l
      BY <1>4, <2>1 DEF Passed
    <3> HIDE DEF l
    <3>2. QED
      BY <3>1
  <2>3. Holds(think.buffer, 0)
    BY <1>3, <2>1 DEF Holds
  <2>4. QED
    BY <2>1, <2>2, <2>3 DEF BufferLast, TailHeld
<1>8. /\ tool.text = <<>> /\ tool.tools = <<>> /\ tool.buffer = <<>> /\ tool.state = "Text"
      /\ shown.text = <<>> /\ shown.tools = <<>> /\ shown.thinking = <<>>
  BY <1>4 DEF FreshTool
<1>9. TextOf(shown, tool) = <<>> /\ NamesIn(shown, tool) = <<>>
  BY <1>8, NoTools, NoneInOrder, ConcatEmptySeq DEF TextOf, NamesIn, OpenName
<1>10. UsedIn(shown, tool) = {}
  BY <1>8, <1>9, NoTools, NoneInOrder DEF UsedIn, OpenPlaces
<1>11. Apart(shown, tool, 0) /\ Ahead(shown, tool)
  BY <1>8, <1>9, <1>10, NoneInOrder DEF Apart, Pieces, Ahead, Below
<1>12. PiecesApart
  BY <1>7, <1>11 DEF PiecesApart
<1>13. QED
  BY <1>4, <1>6, <1>7, <1>8, <1>12 DEF Held, AllRead, FoundHanded, BulletFirst

\* What a step must leave.
LEMMA HeldNext ==
    ASSUME Held, answer' = answer, at' \in Places, got' \in 0 .. Size,
           think' \in [buffer : Seq(Nat), close : Readers],
           tool' \in Parsers, shown' \in ShownTypes,
           NEW n, n = got' - Len(think'.buffer), Holds(think'.buffer, n), Apart(shown', tool', n),
           at' \in {"idle", "think", "tool", "rest"} => Ahead(shown', tool'),
           at' \notin {"tool", "rest"} => tool'.text = <<>> /\ tool'.tools = <<>>,
           tool'.state = "MatchingFunction" /\ at' # "ended" =>
             tool'.buffer # <<>> /\ Symbol(tool'.buffer, 1) = "bullet",
           at' = "idle" =>
             Len(think'.buffer) < 3 /\ (think'.buffer # <<>> => Symbol(think'.buffer, 1) = "<"),
           at' \in {"rest", "flush", "last", "ended"} => think'.buffer = <<>> /\ got' = Size
    PROVE  Held'
<1>1. Size' = Size /\ Passed' = n
  BY DEF Size, Passed
<1>2. TypesHeld'
  BY <1>1 DEF Held, TypesHeld
<1>3. BufferLast'
  BY <1>1 DEF BufferLast, Holds
<1>4. TailHeld' /\ BulletFirst'
  BY DEF TailHeld, BulletFirst, Symbol
<1>5. AllRead' /\ FoundHanded' /\ PiecesApart'
  BY <1>1 DEF AllRead, FoundHanded, PiecesApart
<1>6. QED
  BY <1>2, <1>3, <1>4, <1>5 DEF Held

LEMMA HeldFacts ==
    ASSUME Held
    PROVE  /\ answer.symbols \in Seq(STRING) /\ Size \in Nat /\ got \in 0 .. Size /\ at \in Places
           /\ think \in [buffer : Seq(Nat), close : Readers]
           /\ think.buffer \in Seq(Nat) /\ think.close \in Readers /\ Len(think.buffer) \in Nat
           /\ tool \in Parsers /\ shown \in ShownTypes
           /\ Passed \in 0 .. Size /\ Passed + Len(think.buffer) = got /\ Holds(think.buffer, Passed)
           /\ Apart(shown, tool, Passed)
           /\ \A k \in 1 .. Passed : answer.symbols[k] \in STRING
<1>1. /\ answer.symbols \in Seq(STRING) /\ got \in 0 .. Size /\ at \in Places
      /\ think \in [buffer : Seq(Nat), close : Readers]
      /\ tool \in Parsers /\ shown \in ShownTypes
      /\ Apart(shown, tool, Passed) /\ Holds(think.buffer, Passed)
  BY DEF Held, TypesHeld, BufferLast, PiecesApart
<1>2. Size \in Nat /\ think.buffer \in Seq(Nat) /\ think.close \in Readers
  BY <1>1 DEF Size
<1>3. Len(think.buffer) \in Nat
  BY <1>2, Typed
<1>4. Passed \in 0 .. Size /\ Passed + Len(think.buffer) = got
  BY <1>1, <1>2, <1>3 DEF Holds, Passed
<1>5. \A k \in 1 .. Passed : answer.symbols[k] \in STRING
  <2>1. \A k \in 1 .. Passed : k \in 1 .. Len(answer.symbols)
    BY <1>2, <1>4 DEF Size
  <2>2. QED
    BY <1>1, <2>1
<1>6. QED
  BY <1>1, <1>2, <1>3, <1>4, <1>5

LEMMA ReceiveHeld ==
    ASSUME Held, NEW n, Receive(n)
    PROVE  Held'
<1> DEFINE b == think.buffer
           c == [i \in 1 .. n |-> got + i]
           d == b \o c
<1>1. /\ at = "idle" /\ n \in 1 .. Size - got /\ at' = "think" /\ got' = got + n
      /\ think' = [think EXCEPT !.buffer = @ \o c]
      /\ answer' = answer /\ tool' = tool /\ shown' = shown
  BY DEF Receive, Size
<1>2. /\ Size \in Nat /\ got \in 0 .. Size /\ b \in Seq(Nat) /\ think.close \in Readers
      /\ Passed \in 0 .. Size /\ Passed + Len(b) = got /\ Len(b) \in Nat
      /\ \A i \in 1 .. Len(b) : b[i] = Passed + i
      /\ tool \in Parsers /\ shown \in ShownTypes /\ Apart(shown, tool, Passed)
  BY HeldFacts DEF Holds
<1>3. n \in Nat /\ got + n \in 0 .. Size
  BY <1>1, <1>2
<1>4. c \in Seq(Nat) /\ Len(c) = n /\ \A i \in 1 .. n : c[i] = got + i
  BY <1>2, <1>3
<1> HIDE DEF b, c
<1>5. /\ d \in Seq(Nat) /\ Len(d) = Len(b) + n
      /\ \A i \in 1 .. Len(b) + n : d[i] = IF i <= Len(b) THEN b[i] ELSE c[i - Len(b)]
  BY <1>2, <1>4, ConcatProperties
<1> HIDE DEF d
<1>6. \A i \in 1 .. Len(d) : d[i] = Passed + i
  <2>1. ASSUME NEW i \in 1 .. Len(d) PROVE d[i] = Passed + i
    <3>1. CASE i <= Len(b)
      <4>1. i \in 1 .. Len(b) + n /\ i \in 1 .. Len(b)
        BY <1>2, <1>3, <1>5, <3>1
      <4>2. d[i] = b[i]
        BY <1>5, <3>1, <4>1
      <4>3. QED
        BY <1>2, <4>1, <4>2
    <3>2. CASE ~ (i <= Len(b))
      <4>1. i - Len(b) \in 1 .. n
        BY <1>2, <1>3, <1>5, <3>2
      <4>2. d[i] = got + (i - Len(b))
        BY <1>4, <1>5, <3>2, <4>1
      <4>3. QED
        BY <1>2, <4>1, <4>2
    <3>3. QED
      BY <3>1, <3>2
  <2>2. QED
    BY <2>1
<1>7. think' \in [buffer : Seq(Nat), close : Readers] /\ think'.buffer = d
  <2>1. think' = [think EXCEPT !.buffer = d]
    BY <1>1 DEF d, b
  <2>2. QED
    BY <1>5, <2>1, HeldFacts
<1>8. Passed = got' - Len(think'.buffer) /\ Holds(think'.buffer, Passed)
  <2> DEFINE p == Passed
             l == Len(b)
             k == Len(d)
             g == got + n
  <2>1. p \in Nat /\ l \in Nat /\ k = l + n /\ p + l = got /\ g = got + n /\ g \in 0 .. Size /\ Size \in Nat
    BY <1>2, <1>3, <1>5
  <2>2. got' = g /\ Len(think'.buffer) = k
    BY <1>1, <1>7
  <2> HIDE DEF p, l, k, g
  <2>3. p = g - k /\ p + k <= Size
    BY <1>3, <2>1
  <2>4. p = Passed /\ k = Len(d)
    BY DEF p, k
  <2>5. QED
    BY <1>5, <1>6, <1>7, <2>1, <2>2, <2>3, <2>4 DEF Holds
<1>9. /\ Ahead(shown, tool) /\ tool.text = <<>> /\ tool.tools = <<>>
      /\ tool.state = "MatchingFunction" => tool.buffer # <<>> /\ Symbol(tool.buffer, 1) = "bullet"
  BY <1>1 DEF Held, PiecesApart, FoundHanded, BulletFirst
<1>10. QED
  BY <1>1, <1>2, <1>3, <1>7, <1>8, <1>9, HeldNext DEF Places

(* ------------------------ ThinkTagParser's steps ------------------------- *)

\* The rest of a buffer holds what follows.
LEMMA RestHeld ==
    ASSUME NEW b, NEW n, Holds(b, n), Size \in Nat, NEW j \in 0 .. Len(b)
    PROVE  /\ Holds(From(b, j + 1), n + j) /\ From(b, j + 1) \in Seq(Nat)
           /\ Len(From(b, j + 1)) = Len(b) - j
<1>1. b \in Seq(Nat) /\ n \in Nat /\ n + Len(b) <= Size /\ Len(b) \in Nat /\ \A i \in 1 .. Len(b) : b[i] = n + i
  BY Typed DEF Holds
<1>2. j + 1 \in Nat \ {0} /\ (IF j + 1 <= Len(b) THEN Len(b) - (j + 1) + 1 ELSE 0) = Len(b) - j
  BY <1>1
<1> DEFINE d == From(b, j + 1)
<1>3. /\ d \in Seq(Nat) /\ Len(d) = Len(b) - j
      /\ \A k \in 1 .. Len(d) : d[k] = b[j + 1 + k - 1]
  BY <1>1, <1>2, FromFacts
<1> HIDE DEF d
<1>4. \A k \in 1 .. Len(d) : d[k] = n + j + k
  <2>1. \A k \in 1 .. Len(d) : j + 1 + k - 1 \in 1 .. Len(b) /\ n + (j + 1 + k - 1) = n + j + k
    BY <1>1, <1>3
  <2>2. QED
    BY <1>1, <1>3, <2>1
<1>5. n + j \in Nat /\ n + j + Len(d) <= Size
  BY <1>1, <1>3
<1>6. QED
  BY <1>3, <1>4, <1>5 DEF Holds, d

\* What is handled is thinking or goes on to the tool parser.
LEMMA HandleHeld ==
    ASSUME Held, at = "think", NEW i \in 1 .. Len(think.buffer) + 1,
           NEW j \in i - 1 .. Len(think.buffer), Handle(Before(think.buffer, i))
    PROVE  /\ at' \in {"think", "tool"} /\ tool' \in Parsers /\ shown' \in ShownTypes
           /\ Apart(shown', tool', Passed + j) /\ Ahead(shown', tool')
           /\ tool'.text = <<>> /\ tool'.tools = <<>>
           /\ tool'.state = "MatchingFunction" =>
                tool'.buffer # <<>> /\ Symbol(tool'.buffer, 1) = "bullet"
<1> DEFINE b == think.buffer
           c == Before(b, i)
<1>1. /\ answer.symbols \in Seq(STRING) /\ Size \in Nat /\ b \in Seq(Nat) /\ Len(b) \in Nat
      /\ Passed \in Nat /\ Holds(b, Passed)
      /\ tool \in Parsers /\ shown \in ShownTypes /\ Apart(shown, tool, Passed)
  BY HeldFacts
<1>2. /\ Ahead(shown, tool) /\ tool.text = <<>> /\ tool.tools = <<>>
      /\ tool.state = "MatchingFunction" => tool.buffer # <<>> /\ Symbol(tool.buffer, 1) = "bullet"
  BY DEF Held, PiecesApart, FoundHanded, BulletFirst
<1>3. InOrder(b) /\ \A k \in 1 .. Len(b) : b[k] = Passed + k
  BY <1>1, HeldSymbols DEF Holds
<1>4. i \in 1 .. Len(b) + 1 /\ j \in i - 1 .. Len(b) /\ j \in Nat /\ i \in Nat
  BY <1>1
<1>5. c \in Seq(Nat) /\ InOrder(c) /\ Range(c) = {b[k] : k \in 1 .. i - 1}
  BY <1>1, <1>3, <1>4, BeforeFacts
<1> DEFINE m == Passed + j
<1>6. m \in Nat /\ Passed <= m
  BY <1>1, <1>4
<1>7. Range(c) \subseteq Passed + 1 .. m
  <2>1. ASSUME NEW k \in 1 .. i - 1 PROVE b[k] \in Passed + 1 .. m
    <3>1. k \in 1 .. Len(b) /\ Passed + k \in Passed + 1 .. m
      BY <1>1, <1>4
    <3>2. QED
      BY <1>3, <3>1
  <2>2. QED
    BY <1>5, <2>1
<1>8. Apart(shown, tool, m)
  BY <1>1, <1>6, Later
<1>9. Handle(c)
  OBVIOUS
<1> HIDE DEF b, c, m
<1>10. CASE UNCHANGED <<tool, shown>> /\ at' = "think"
  BY <1>1, <1>2, <1>8, <1>10 DEF m
<1>11. CASE shown' = [shown EXCEPT !.thinking = @ \o c] /\ at' = "think" /\ UNCHANGED tool
  <2>1. shown' \in ShownTypes /\ Apart(shown', tool, m) /\ Ahead(shown', tool)
    BY <1>1, <1>2, <1>5, <1>6, <1>7, <1>11, ThinkingGrows
  <2>2. QED
    BY <1>1, <1>2, <1>11, <2>1 DEF m
<1>12. CASE Feed(c) /\ at' = "tool" /\ UNCHANGED shown
  <2>1. tool' = [tool EXCEPT !.buffer = Stripped(tool.buffer \o c)]
    BY <1>12 DEF Feed
  <2>2. /\ tool' \in Parsers /\ Apart(shown, tool', m) /\ Ahead(shown, tool')
        /\ tool.buffer # <<>> /\ Symbol(tool.buffer, 1) = "bullet" =>
             tool'.buffer # <<>> /\ Symbol(tool'.buffer, 1) = "bullet"
    <3> DEFINE q == [tool EXCEPT !.buffer = Stripped(tool.buffer \o c)]
    <3>1. /\ q \in Parsers /\ Apart(shown, q, m) /\ (Ahead(shown, tool) => Ahead(shown, q))
          /\ tool.buffer # <<>> /\ Symbol(tool.buffer, 1) = "bullet" =>
               q.buffer # <<>> /\ Symbol(q.buffer, 1) = "bullet"
      BY <1>1, <1>5, <1>6, <1>7, BufferFed
    <3>2. tool' = q
      BY <2>1
    <3> HIDE DEF q
    <3>3. QED
      BY <1>2, <3>1, <3>2
  <2>3. tool'.text = <<>> /\ tool'.tools = <<>> /\ tool'.state = tool.state
    BY <1>1, <1>2, <2>1 DEF Parsers
  <2>4. QED
    BY <1>1, <1>2, <1>12, <2>2, <2>3 DEF m
<1>13. QED
  BY <1>9, <1>10, <1>11, <1>12 DEF Handle

LEMMA TakeTagHeld ==
    ASSUME Held, TakeTag
    PROVE  Held'
<1> DEFINE b == think.buffer
           i == Min(Matches(b, Tags(think.close)))
           tag == CHOOSE t \in Tags(think.close) : StartsAt(b, i, t)
<1>1. /\ at = "think" /\ Matches(b, Tags(think.close)) # {} /\ Handle(Before(b, i))
      /\ think' = [buffer |-> From(b, i + 3), close |-> AfterTag(tag)]
      /\ answer' = answer /\ got' = got
  BY DEF TakeTag
<1>2. /\ answer.symbols \in Seq(STRING) /\ Size \in Nat /\ Holds(b, Passed) /\ think.close \in Readers
      /\ Passed \in Nat /\ Len(b) \in Nat /\ Passed + Len(b) = got /\ got \in 0 .. Size
  BY HeldFacts
<1>3. i \in 1 .. Len(b) /\ i + 2 <= Len(b) /\ tag \in Tags(think.close)
  BY <1>1, <1>2, FirstTag
<1> HIDE DEF i, tag
<1>4. tag \in AllTags /\ AfterTag(tag) \in Readers
  <2>1. tag \in AllTags
    BY <1>2, <1>3, TagFacts
  <2>2. QED
    BY <2>1, TagFacts
<1> DEFINE j == i + 2
<1>5. /\ j \in 0 .. Len(b) /\ j \in i - 1 .. Len(b) /\ i \in 1 .. Len(b) + 1 /\ j + 1 = i + 3
      /\ Passed + j = got - (Len(b) - j)
  <2> DEFINE l == Len(b)
             p == Passed
  <2>1. p \in Nat /\ l \in Nat /\ p + l = got /\ i \in 1 .. l /\ i + 2 <= l
    BY <1>2, <1>3
  <2> HIDE DEF l, p
  <2>2. j \in 0 .. l /\ j \in i - 1 .. l /\ i \in 1 .. l + 1 /\ j + 1 = i + 3 /\ p + j = got - (l - j)
    BY <2>1
  <2>3. QED
    BY <2>2 DEF l, p
<1> HIDE DEF j
<1>6. Holds(From(b, j + 1), Passed + j) /\ From(b, j + 1) \in Seq(Nat) /\ Len(From(b, j + 1)) = Len(b) - j
  BY <1>2, <1>5, RestHeld
<1>7. /\ at' \in {"think", "tool"} /\ tool' \in Parsers /\ shown' \in ShownTypes
      /\ Apart(shown', tool', Passed + j) /\ Ahead(shown', tool')
      /\ tool'.text = <<>> /\ tool'.tools = <<>>
      /\ tool'.state = "MatchingFunction" =>
           tool'.buffer # <<>> /\ Symbol(tool'.buffer, 1) = "bullet"
  BY <1>1, <1>5, HandleHeld
<1>8. think'.buffer = From(b, j + 1) /\ think' \in [buffer : Seq(Nat), close : Readers]
  BY <1>1, <1>4, <1>5, <1>6
<1> HIDE DEF b
<1>9. Passed + j = got' - Len(think'.buffer) /\ Holds(think'.buffer, Passed + j)
  BY <1>1, <1>5, <1>6, <1>8
<1>10. at' \in Places
  BY <1>7 DEF Places
<1>11. QED
  BY <1>1, <1>2, <1>7, <1>8, <1>9, <1>10, HeldNext

LEMMA TakeAllHeld ==
    ASSUME Held, TakeAll
    PROVE  Held'
<1> DEFINE b == think.buffer
           i == HeldFrom(b, Tags(think.close))
<1>1. /\ at = "think" /\ Matches(b, Tags(think.close)) = {}
      /\ IF i = 1 THEN at' = "idle" /\ UNCHANGED <<tool, shown>> ELSE Handle(Before(b, i))
      /\ think' = [think EXCEPT !.buffer = From(b, i)]
      /\ answer' = answer /\ got' = got
  BY DEF TakeAll
<1>2. /\ answer.symbols \in Seq(STRING) /\ Size \in Nat /\ Holds(b, Passed) /\ b \in Seq(Nat)
      /\ think \in [buffer : Seq(Nat), close : Readers] /\ think.close \in Readers
      /\ Passed \in Nat /\ Len(b) \in Nat /\ Passed + Len(b) = got /\ got \in 0 .. Size
  BY HeldFacts
<1>3. i \in 1 .. Len(b) + 1 /\ (i <= Len(b) => Symbol(b, i) = "<" /\ Len(b) - i + 1 < 3)
  BY <1>1, <1>2, HeldBack
<1> HIDE DEF i
<1> DEFINE j == i - 1
<1>4. j \in 0 .. Len(b) /\ j \in i - 1 .. Len(b) /\ j + 1 = i /\ Passed + j = got - (Len(b) - j)
  BY <1>2, <1>3
<1> HIDE DEF j
<1> DEFINE c == From(b, i)
<1>5. Holds(c, Passed + j) /\ c \in Seq(Nat) /\ Len(c) = Len(b) - j
  BY <1>2, <1>4, RestHeld
<1>6. think'.buffer = c /\ think' \in [buffer : Seq(Nat), close : Readers]
  BY <1>1, <1>2, <1>5
<1>7. /\ at' \in Places /\ at' \in {"idle", "think", "tool"} /\ tool' \in Parsers /\ shown' \in ShownTypes
      /\ Apart(shown', tool', Passed + j) /\ Ahead(shown', tool')
      /\ tool'.text = <<>> /\ tool'.tools = <<>>
      /\ tool'.state = "MatchingFunction" =>
           tool'.buffer # <<>> /\ Symbol(tool'.buffer, 1) = "bullet"
  <2>1. CASE i = 1
    <3>1. at' = "idle" /\ tool' = tool /\ shown' = shown /\ Passed + j = Passed
      BY <1>1, <1>2, <1>4, <2>1
    <3>2. /\ Ahead(shown, tool) /\ tool.text = <<>> /\ tool.tools = <<>>
          /\ tool.state = "MatchingFunction" => tool.buffer # <<>> /\ Symbol(tool.buffer, 1) = "bullet"
      BY <1>1 DEF Held, PiecesApart, FoundHanded, BulletFirst
    <3>3. tool \in Parsers /\ shown \in ShownTypes /\ Apart(shown, tool, Passed)
      BY HeldFacts
    <3>4. QED
      BY <3>1, <3>2, <3>3 DEF Places
  <2>2. CASE i # 1
    <3>1. Handle(Before(b, i))
      BY <1>1, <2>2
    <3>2. /\ at' \in {"think", "tool"} /\ tool' \in Parsers /\ shown' \in ShownTypes
          /\ Apart(shown', tool', Passed + j) /\ Ahead(shown', tool')
          /\ tool'.text = <<>> /\ tool'.tools = <<>>
          /\ tool'.state = "MatchingFunction" =>
               tool'.buffer # <<>> /\ Symbol(tool'.buffer, 1) = "bullet"
      BY <1>1, <1>3, <1>4, <3>1, HandleHeld
    <3>3. QED
      BY <3>2 DEF Places
  <2>3. QED
    BY <2>1, <2>2
<1>8. Len(c) < 3 /\ (c # <<>> => Symbol(c, 1) = "<")
  <2>1. CASE i <= Len(b)
    <3>1. Len(c) < 3 /\ 1 \in 1 .. Len(c)
      BY <1>2, <1>3, <1>4, <1>5, <2>1, SMTT(20)
    <3>2. i \in Nat \ {0} /\ i + 1 - 1 = i
      BY <1>2, <1>3
    <3>3. c[1] = b[i]
      BY <1>2, <3>1, <3>2, FromFacts
    <3>4. QED
      BY <1>3, <2>1, <3>1, <3>3 DEF Symbol
  <2>2. CASE ~ (i <= Len(b))
    <3>1. Len(c) = 0
      BY <1>2, <1>3, <1>4, <1>5, <2>2
    <3>2. QED
      BY <1>5, <3>1, EmptySeq
  <2>3. QED
    BY <2>1, <2>2
<1> HIDE DEF b, c
<1>9. Passed + j = got' - Len(think'.buffer) /\ Holds(think'.buffer, Passed + j)
  BY <1>1, <1>4, <1>5, <1>6
<1>10. at' = "idle" =>
         Len(think'.buffer) < 3 /\ (think'.buffer # <<>> => Symbol(think'.buffer, 1) = "<")
  BY <1>6, <1>8
<1>11. at' \notin {"rest", "flush", "last", "ended"}
  BY <1>7
<1> HIDE DEF j
<1>12. QED
  BY <1>1, <1>2, <1>6, <1>7, <1>9, <1>10, <1>11, HeldNext

(* ------------------------- the tool parser's steps ----------------------- *)

LEMMA ContinueHeld ==
    ASSUME Held, at \in {"tool", "rest", "last"}, NEW q, Continue(q),
           Digests(shown, tool, q, Passed),
           at = "last" => q.text = tool.text /\ q.tools = tool.tools,
           q.state = "MatchingFunction" => q.buffer # <<>> /\ Symbol(q.buffer, 1) = "bullet"
    PROVE  Held'
<1>1. tool' = q /\ answer' = answer /\ at' = at /\ got' = got /\ think' = think /\ shown' = shown
  BY DEF Continue
<1>2. /\ got \in 0 .. Size /\ think \in [buffer : Seq(Nat), close : Readers] /\ at \in Places
      /\ Holds(think.buffer, Passed) /\ shown \in ShownTypes
  BY HeldFacts
<1>3. q \in Parsers /\ Apart(shown, q, Passed) /\ (Ahead(shown, tool) => Ahead(shown, q))
  BY DEF Digests
<1>4. /\ at \in {"tool", "rest"} => Ahead(shown, q)
      /\ at = "last" => q.text = <<>> /\ q.tools = <<>>
      /\ at \in {"rest", "last"} => think.buffer = <<>> /\ got = Size
  BY <1>3 DEF Held, PiecesApart, FoundHanded, AllRead
<1>5. Passed = got' - Len(think'.buffer)
  BY <1>1 DEF Passed
<1>6. QED
  BY <1>1, <1>2, <1>3, <1>4, <1>5, HeldNext

LEMMA ReturnHeld ==
    ASSUME Held, at \in {"tool", "rest"}, NEW q, Return(q), Digests(shown, tool, q, Passed),
           q.state = "MatchingFunction" => q.buffer # <<>> /\ Symbol(q.buffer, 1) = "bullet"
    PROVE  Held'
<1>1. /\ tool' = [q EXCEPT !.text = <<>>, !.tools = <<>>]
      /\ shown' = [shown EXCEPT !.text = @ \o q.text, !.tools = @ \o q.tools]
      /\ at' = IF at = "tool" THEN "think" ELSE "flush"
      /\ answer' = answer /\ got' = got /\ think' = think
  BY DEF Return
<1>2. /\ got \in 0 .. Size /\ think \in [buffer : Seq(Nat), close : Readers] /\ at \in Places
      /\ Holds(think.buffer, Passed) /\ shown \in ShownTypes
  BY HeldFacts
<1>3. q \in Parsers /\ Apart(shown, q, Passed) /\ Ahead(shown, q)
  BY DEF Digests, Held, PiecesApart
<1>4. /\ q.text \in Seq(Nat) /\ q.tools \in Seq(Tools) /\ shown.text \in Seq(Nat)
      /\ shown.tools \in Seq(Tools)
  BY <1>2, <1>3, ViewTyped
<1>5. shown.text \o q.text \in Seq(Nat) /\ shown.tools \o q.tools \in Seq(Tools)
  BY <1>4, Joined, ToolsJoined
<1>6. /\ tool' \in Parsers /\ tool'.text = <<>> /\ tool'.tools = <<>> /\ tool'.buffer = q.buffer
      /\ tool'.state = q.state /\ tool'.name = q.name /\ tool'.parameters = q.parameters
  BY <1>1, <1>3, NoneInOrder, NoTools DEF Parsers
<1>7. /\ shown' \in ShownTypes /\ shown'.thinking = shown.thinking
      /\ shown'.text = shown.text \o q.text /\ shown'.tools = shown.tools \o q.tools
  BY <1>1, <1>2, <1>5 DEF ShownTypes
<1>8. TextOf(shown', tool') = TextOf(shown, q)
  BY <1>5, <1>6, <1>7, ConcatEmptySeq DEF TextOf
<1>9. Apart(shown', tool', Passed) /\ Ahead(shown', tool')
  BY <1>2, <1>3, <1>6, <1>7, <1>8, FoundShown
<1>10. /\ at' \in {"think", "flush"} /\ at' \in Places
       /\ at' = "flush" => think.buffer = <<>> /\ got = Size
  BY <1>1 DEF Held, AllRead, Places
<1>11. Passed = got' - Len(think'.buffer)
  BY <1>1 DEF Passed
<1>12. QED
  BY <1>1, <1>2, <1>6, <1>7, <1>9, <1>10, <1>11, HeldNext

\* Where the loop of feed runs, and what it is known to work on.
LEMMA InFacts ==
    ASSUME Held, NEW state, In(state)
    PROVE  /\ at \in {"tool", "rest"} /\ at # "last" /\ tool.state = state
           /\ shown \in ShownTypes /\ tool \in Parsers /\ Apart(shown, tool, Passed) /\ Ahead(shown, tool)
           /\ tool.buffer \in Seq(Nat) /\ Len(tool.buffer) \in Nat
           /\ tool.state = "MatchingFunction" =>
                tool.buffer # <<>> /\ Symbol(tool.buffer, 1) = "bullet"
<1>1. at \in {"tool", "rest"} /\ tool.state = state
  BY DEF In
<1>2. shown \in ShownTypes /\ tool \in Parsers /\ Apart(shown, tool, Passed)
  BY HeldFacts
<1>3. tool.buffer \in Seq(Nat) /\ Len(tool.buffer) \in Nat
  BY <1>2, BufferFacts
<1>4. Ahead(shown, tool)
  BY <1>1 DEF Held, PiecesApart
<1>5. tool.state = "MatchingFunction" => tool.buffer # <<>> /\ Symbol(tool.buffer, 1) = "bullet"
  BY <1>1 DEF Held, BulletFirst
<1>6. QED
  BY <1>1, <1>2, <1>3, <1>4, <1>5

LEMMA TakeJsonCallHeld ==
    ASSUME Held, TakeJsonCall
    PROVE  Held'
<1> DEFINE call == JsonCallIn(tool.buffer)
           q == [Filter(tool, call.first) EXCEPT
                   !.tools = Append(@, JsonTool(tool.buffer, call)),
                   !.buffer = From(tool.buffer, call.last + 1)]
<1>1. In("Text") /\ call.first > 0 /\ Continue(q)
  BY DEF TakeJsonCall
<1>2. Digests(shown, tool, q, Passed)
  BY <1>1, InFacts, JsonCallDigests
<1>3. q.state = "Text"
  <2>1. tool \in Parsers /\ tool.state = "Text"
    BY <1>1, InFacts
  <2>2. QED
    BY <2>1 DEF Filter, Parsers
<1> HIDE DEF q
<1>4. QED
  BY <1>1, <1>2, <1>3, InFacts, ContinueHeld

LEMMA FindBulletHeld ==
    ASSUME Held, FindBullet
    PROVE  Held'
<1> DEFINE b == tool.buffer
           i == Min(Bullets(b))
           q == [Filter(tool, i) EXCEPT !.state = "MatchingFunction"]
<1>1. In("Text") /\ Bullets(b) # {} /\ Continue(q)
  BY DEF FindBullet
<1>2. b \in Seq(Nat) /\ tool \in Parsers /\ tool.state # "ParsingParameters" /\ Len(b) \in Nat
  BY <1>1, InFacts
<1>3. i \in 1 .. Len(b) /\ Symbol(b, i) = "bullet"
  BY <1>1, <1>2, BulletFound
<1>4. i \in 1 .. Len(b) + 1 /\ i \in Nat \ {0} /\ i <= Len(b)
  BY <1>2, <1>3
<1>5. Digests(shown, tool, q, Passed)
  BY <1>1, <1>2, <1>4, InFacts, FilterDigests
<1>6. q.buffer = From(b, i)
  BY <1>2 DEF Filter, Parsers
<1> HIDE DEF i, b
<1>7. From(b, i) # <<>> /\ Symbol(From(b, i), 1) = "bullet"
  <2>1. Len(From(b, i)) = Len(b) - i + 1 /\ 1 \in 1 .. Len(b) - i + 1 /\ i + 1 - 1 = i
    <3>1. b \in Seq(Nat) /\ Len(b) \in Nat /\ i \in Nat \ {0} /\ i <= Len(b)
      BY <1>2, <1>4 DEF b
    <3>2. Len(From(b, i)) = IF i <= Len(b) THEN Len(b) - i + 1 ELSE 0
      BY <3>1, FromFacts
    <3>3. QED
      BY <3>1, <3>2
  <2>2. From(b, i)[1] = b[i]
    <3>1. b \in Seq(Nat) /\ i \in Nat \ {0}
      BY <1>2, <1>4 DEF b
    <3>2. \A k \in 1 .. Len(From(b, i)) : From(b, i)[k] = b[i + k - 1]
      BY <3>1, FromFacts
    <3>3. 1 \in 1 .. Len(From(b, i)) /\ i + 1 - 1 = i
      BY <2>1
    <3>4. QED
      BY <3>2, <3>3
  <2>3. Len(From(b, i)) > 0
    BY <1>2, <1>4, <2>1
  <2>4. QED
    BY <1>3, <2>2, <2>3 DEF Symbol
<1> HIDE DEF q
<1>8. QED
  BY <1>1, <1>5, <1>6, <1>7, InFacts, ContinueHeld

LEMMA PassTextHeld ==
    ASSUME Held, PassText
    PROVE  Held'
<1> DEFINE q == Filter(tool, HeldText(tool.buffer))
<1>1. In("Text") /\ Return(q)
  BY DEF PassText
<1>2. tool \in Parsers /\ tool.buffer \in Seq(Nat) /\ tool.state = "Text"
  BY <1>1, InFacts
<1>3. HeldText(tool.buffer) \in 1 .. Len(tool.buffer) + 1
  BY <1>2, HeldTextFound
<1>4. Digests(shown, tool, [q EXCEPT !.state = "Text"], Passed)
  BY <1>1, <1>2, <1>3, InFacts, FilterDigests
<1>5. [q EXCEPT !.state = "Text"] = q /\ q.state = "Text"
  BY <1>2 DEF Filter, Parsers
<1> HIDE DEF q
<1>6. QED
  BY <1>1, <1>4, <1>5, InFacts, ReturnHeld

LEMMA MatchFunctionHeld ==
    ASSUME Held, MatchFunction
    PROVE  Held'
<1> DEFINE i == FunctionIn(tool.buffer)
           q == [tool EXCEPT !.name = tool.buffer[i], !.parameters = NoParameters,
                             !.buffer = From(@, i + 1), !.state = "ParsingParameters"]
<1>1. In("MatchingFunction") /\ i > 0 /\ Continue(q)
  BY DEF MatchFunction
<1>2. tool \in Parsers /\ tool.buffer \in Seq(Nat) /\ tool.state = "MatchingFunction"
  BY <1>1, InFacts
<1>3. i \in 1 .. Len(tool.buffer)
  BY <1>1, <1>2, FunctionFound
<1> HIDE DEF i
<1>4. Digests(shown, tool, q, Passed)
  BY <1>1, <1>2, <1>3, InFacts, FunctionDigests
<1>5. q.state = "ParsingParameters"
  BY <1>2 DEF Parsers
<1> HIDE DEF q
<1>6. QED
  BY <1>1, <1>4, <1>5, InFacts, ContinueHeld

LEMMA GiveUpFunctionHeld ==
    ASSUME Held, GiveUpFunction
    PROVE  Held'
<1> DEFINE q == [Filter(tool, 2) EXCEPT !.state = "Text"]
<1>1. In("MatchingFunction") /\ Continue(q)
  BY DEF GiveUpFunction
<1>2. /\ tool \in Parsers /\ tool.buffer \in Seq(Nat) /\ tool.state = "MatchingFunction"
      /\ tool.buffer # <<>> /\ Len(tool.buffer) \in Nat
  BY <1>1, InFacts
<1>3. 2 \in 1 .. Len(tool.buffer) + 1
  <2>1. Len(tool.buffer) # 0
    BY <1>2, EmptySeq
  <2>2. QED
    BY <1>2, <2>1
<1>4. Digests(shown, tool, q, Passed)
  BY <1>1, <1>2, <1>3, InFacts, FilterDigests
<1>5. q.state = "Text"
  BY <1>2 DEF Filter, Parsers
<1> HIDE DEF q
<1>6. QED
  BY <1>1, <1>4, <1>5, InFacts, ContinueHeld

LEMMA AwaitHeld ==
    ASSUME Held, NEW state, In(state), Return(tool)
    PROVE  Held'
<1>1. Digests(shown, tool, tool, Passed)
  BY InFacts DEF Digests
<1>2. QED
  BY <1>1, InFacts, ReturnHeld

LEMMA TakeParameterHeld ==
    ASSUME Held, TakeParameter \/ FlushParameter
    PROVE  Held'
<1> DEFINE q == WithParameter(tool)
<1>1. /\ at \in {"tool", "rest", "last"} /\ tool.state = "ParsingParameters"
      /\ ParamStarts(tool.buffer) # {} /\ Continue(q)
  BY DEF TakeParameter, FlushParameter, In, HasParameter
<1>2. /\ shown \in ShownTypes /\ tool \in Parsers /\ Apart(shown, tool, Passed)
      /\ \A k \in 1 .. Passed : answer.symbols[k] \in STRING
  BY HeldFacts
<1>3. Digests(shown, tool, q, Passed) /\ q.text = tool.text /\ q.tools = tool.tools /\ q.state = tool.state
  BY <1>1, <1>2, ParameterDigests
<1> HIDE DEF q
<1>4. QED
  BY <1>1, <1>3, ContinueHeld

LEMMA EndCallHeld ==
    ASSUME Held, EndCall
    PROVE  Held'
<1> DEFINE b == tool.buffer
<1>1. In("ParsingParameters") /\ Len(b) \in Nat /\ b \in Seq(Nat)
  BY InFacts DEF EndCall
<1>2. PICK i \in 1 .. Len(b) + 1 : Continue(Finish(Filter(tool, i)))
  <2>1. CASE Bullets(b) # {} /\ Continue(Finish(Filter(tool, Min(Bullets(b)))))
    <3>1. Min(Bullets(b)) \in 1 .. Len(b)
      BY <1>1, <2>1, BulletFound
    <3>2. Min(Bullets(b)) \in 1 .. Len(b) + 1
      BY <1>1, <3>1
    <3>3. QED
      BY <2>1, <3>2
  <2>2. CASE Continue(Finish(Filter(tool, Len(b) + 1)))
    <3>1. Len(b) + 1 \in 1 .. Len(b) + 1
      BY <1>1
    <3>2. QED
      BY <2>2, <3>1
  <2>3. QED
    BY <2>1, <2>2 DEF EndCall
<1> DEFINE q == Finish(Filter(tool, i))
<1>3. Digests(shown, tool, q, Passed)
  BY <1>1, InFacts, EndDigests
<1>4. q.state = "Text"
  <2>1. tool \in Parsers
    BY HeldFacts
  <2>2. QED
    BY <2>1 DEF Finish, Filter, Parsers
<1>5. Continue(q)
  BY <1>2
<1> HIDE DEF q
<1>6. QED
  BY <1>1, <1>3, <1>4, <1>5, InFacts, ContinueHeld

(* --------------------------- the stream's end ---------------------------- *)

LEMMA EndOfStreamHeld ==
    ASSUME Held, EndOfStream
    PROVE  Held'
<1> DEFINE b == think.buffer
<1>1. /\ at = "idle" /\ got = Size /\ at' = "flush"
      /\ shown' = IF think.close = Outside THEN [shown EXCEPT !.text = @ \o b]
                  ELSE [shown EXCEPT !.thinking = @ \o b]
      /\ think' = [think EXCEPT !.buffer = <<>>]
      /\ answer' = answer /\ got' = got /\ tool' = tool
  BY DEF EndOfStream, AllReceived, Size
<1>2. /\ answer.symbols \in Seq(STRING) /\ Size \in Nat /\ Holds(b, Passed) /\ b \in Seq(Nat)
      /\ think \in [buffer : Seq(Nat), close : Readers] /\ got \in 0 .. Size
      /\ Passed \in Nat /\ Passed + Len(b) = got /\ Len(b) \in Nat
      /\ shown \in ShownTypes /\ tool \in Parsers /\ Apart(shown, tool, Passed)
  BY HeldFacts
<1>3. InOrder(b) /\ Range(b) = Passed + 1 .. Passed + Len(b)
  BY <1>2, HeldSymbols
<1>4. Range(b) \subseteq Passed + 1 .. got /\ Passed <= got /\ got \in Nat
  BY <1>2, <1>3
<1>5. /\ tool.text = <<>> /\ tool.tools = <<>>
      /\ tool.state = "MatchingFunction" => tool.buffer # <<>> /\ Symbol(tool.buffer, 1) = "bullet"
  BY <1>1 DEF Held, FoundHanded, BulletFirst
<1>6. shown' \in ShownTypes /\ Apart(shown', tool, got)
  <2>1. CASE think.close = Outside
    <3>1. shown' = [shown EXCEPT !.text = @ \o b]
      BY <1>1, <2>1
    <3> HIDE DEF b
    <3>2. QED
      BY <1>2, <1>3, <1>4, <1>5, <3>1, TextGrows
  <2>2. CASE think.close # Outside
    <3>1. shown' = [shown EXCEPT !.thinking = @ \o b]
      BY <1>1, <2>2
    <3> HIDE DEF b
    <3>2. QED
      BY <1>2, <1>3, <1>4, <3>1, ThinkingGrows
  <2>3. QED
    BY <2>1, <2>2
<1>7. think'.buffer = <<>> /\ think' \in [buffer : Seq(Nat), close : Readers] /\ Len(think'.buffer) = 0
  BY <1>1, <1>2, NoneInOrder
<1>8. Holds(think'.buffer, got) /\ got = got' - Len(think'.buffer)
  <2>1. Holds(<<>>, got)
    BY <1>2, <1>4, NoneInOrder DEF Holds
  <2>2. got - 0 = got
    BY <1>4
  <2>3. QED
    BY <1>1, <1>7, <2>1, <2>2
<1> HIDE DEF b
<1>9. QED
  BY <1>1, <1>2, <1>5, <1>6, <1>7, <1>8, HeldNext DEF Places

LEMMA EndOfPuterStreamHeld ==
    ASSUME Held, EndOfPuterStream
    PROVE  Held'
<1> DEFINE b == think.buffer
           q == [tool EXCEPT !.buffer = Stripped(tool.buffer \o b)]
<1>1. /\ at = "idle" /\ got = Size /\ at' = "rest"
      /\ tool' = [tool EXCEPT !.buffer = Stripped(@ \o b)]
      /\ think' = [think EXCEPT !.buffer = <<>>]
      /\ answer' = answer /\ got' = got /\ shown' = shown
  BY DEF EndOfPuterStream, AllReceived, Feed, Size
<1>2. /\ answer.symbols \in Seq(STRING) /\ Size \in Nat /\ Holds(b, Passed) /\ b \in Seq(Nat)
      /\ think \in [buffer : Seq(Nat), close : Readers] /\ got \in 0 .. Size
      /\ Passed \in Nat /\ Passed + Len(b) = got /\ Len(b) \in Nat
      /\ shown \in ShownTypes /\ tool \in Parsers /\ Apart(shown, tool, Passed)
  BY HeldFacts
<1>3. InOrder(b) /\ Range(b) = Passed + 1 .. Passed + Len(b)
  BY <1>2, HeldSymbols
<1>4. Range(b) \subseteq Passed + 1 .. got /\ Passed <= got /\ got \in Nat
  BY <1>2, <1>3
<1>5. /\ Ahead(shown, tool)
      /\ tool.state = "MatchingFunction" => tool.buffer # <<>> /\ Symbol(tool.buffer, 1) = "bullet"
  BY <1>1 DEF Held, PiecesApart, BulletFirst
<1>6. tool' = q
  BY <1>1
<1>7. think'.buffer = <<>> /\ think' \in [buffer : Seq(Nat), close : Readers] /\ Len(think'.buffer) = 0
  BY <1>1, <1>2, NoneInOrder
<1>8. Holds(think'.buffer, got) /\ got = got' - Len(think'.buffer)
  <2>1. Holds(<<>>, got)
    BY <1>2, <1>4, NoneInOrder DEF Holds
  <2>2. got - 0 = got
    BY <1>4
  <2>3. QED
    BY <1>1, <1>7, <2>1, <2>2
<1> HIDE DEF b
<1>9. /\ q \in Parsers /\ Apart(shown, q, got) /\ (Ahead(shown, tool) => Ahead(shown, q))
      /\ tool.buffer # <<>> /\ Symbol(tool.buffer, 1) = "bullet" =>
           q.buffer # <<>> /\ Symbol(q.buffer, 1) = "bullet"
  BY <1>2, <1>3, <1>4, BufferFed
<1>10. q.state = tool.state
  BY <1>2 DEF Parsers
<1> HIDE DEF q
<1>11. QED
  BY <1>1, <1>2, <1>5, <1>6, <1>7, <1>8, <1>9, <1>10, HeldNext DEF Places

LEMMA FlushHeld ==
    ASSUME Held, Flush
    PROVE  Held'
<1> DEFINE q == [tool EXCEPT !.buffer = Stripped(tool.buffer \o <<>>)]
<1>1. /\ at = "flush" /\ at' = "last" /\ tool' = [tool EXCEPT !.buffer = Stripped(@)]
      /\ answer' = answer /\ got' = got /\ think' = think /\ shown' = shown
  BY DEF Flush
<1>2. /\ think \in [buffer : Seq(Nat), close : Readers] /\ got \in 0 .. Size
      /\ Holds(think.buffer, Passed) /\ Passed \in Nat
      /\ shown \in ShownTypes /\ tool \in Parsers /\ Apart(shown, tool, Passed)
  BY HeldFacts
<1>3. /\ tool.text = <<>> /\ tool.tools = <<>> /\ think.buffer = <<>> /\ got = Size
      /\ tool.state = "MatchingFunction" => tool.buffer # <<>> /\ Symbol(tool.buffer, 1) = "bullet"
  BY <1>1 DEF Held, FoundHanded, BulletFirst, AllRead
<1>4. tool' = q
  <2>1. tool.buffer \o <<>> = tool.buffer
    BY <1>2, BufferFacts, ConcatEmptySeq
  <2>2. QED
    BY <1>1, <2>1
<1>5. <<>> \in Seq(Nat) /\ InOrder(<<>>) /\ Range(<<>>) \subseteq Passed + 1 .. Passed /\ Passed <= Passed
  BY <1>2, NoneInOrder
<1>6. /\ q \in Parsers /\ Apart(shown, q, Passed)
      /\ tool.buffer # <<>> /\ Symbol(tool.buffer, 1) = "bullet" =>
           q.buffer # <<>> /\ Symbol(q.buffer, 1) = "bullet"
  BY <1>2, <1>5, BufferFed
<1>7. q.state = tool.state /\ q.text = tool.text /\ q.tools = tool.tools
  BY <1>2 DEF Parsers
<1> HIDE DEF q
<1>8. Passed = got' - Len(think'.buffer)
  BY <1>1 DEF Passed
<1>9. QED
  BY <1>1, <1>2, <1>3, <1>4, <1>6, <1>7, <1>8, HeldNext DEF Places

LEMMA DoneHeld ==
    ASSUME Held, at = "last", NEW q, Done(q), Digests(shown, tool, q, Passed), q.text = <<>>
    PROVE  Held'
<1>1. /\ tool' = [q EXCEPT !.tools = <<>>] /\ shown' = [shown EXCEPT !.tools = @ \o q.tools]
      /\ at' = "ended" /\ answer' = answer /\ got' = got /\ think' = think
  BY DEF Done
<1>2. /\ think \in [buffer : Seq(Nat), close : Readers] /\ got \in 0 .. Size
      /\ Holds(think.buffer, Passed) /\ shown \in ShownTypes
  BY HeldFacts
<1>3. q \in Parsers /\ Apart(shown, q, Passed)
  BY DEF Digests
<1>4. think.buffer = <<>> /\ got = Size
  BY DEF Held, AllRead
<1>5. shown.tools \in Seq(Tools) /\ q.tools \in Seq(Tools) /\ shown.text \in Seq(Nat)
  BY <1>2, <1>3, ViewTyped
<1>6. shown.tools \o q.tools \in Seq(Tools)
  BY <1>5, ToolsJoined
<1>7. /\ tool' \in Parsers /\ tool'.text = <<>> /\ tool'.tools = <<>> /\ tool'.buffer = q.buffer
      /\ tool'.state = q.state /\ tool'.name = q.name /\ tool'.parameters = q.parameters
  BY <1>1, <1>3, NoTools DEF Parsers
<1>8. /\ shown' \in ShownTypes /\ shown'.thinking = shown.thinking
      /\ shown'.text = shown.text /\ shown'.tools = shown.tools \o q.tools
  BY <1>1, <1>2, <1>6 DEF ShownTypes
<1>9. TextOf(shown', tool') = TextOf(shown, q)
  BY <1>7, <1>8 DEF TextOf
<1>10. Apart(shown', tool', Passed)
  BY <1>2, <1>3, <1>7, <1>8, <1>9, FoundShown
<1>11. Passed = got' - Len(think'.buffer)
  BY <1>1 DEF Passed
<1>12. QED
  BY <1>1, <1>2, <1>4, <1>7, <1>8, <1>10, <1>11, HeldNext DEF Places

LEMMA LastHeld ==
    ASSUME Held, FlushCall \/ FlushRest
    PROVE  Held'
<1>1. /\ shown \in ShownTypes /\ tool \in Parsers /\ Apart(shown, tool, Passed)
      /\ tool.buffer \in Seq(Nat)
  BY HeldFacts, ViewTyped
<1>2. at = "last" /\ tool.text = <<>> /\ tool.tools = <<>>
  BY DEF FlushCall, FlushRest, Held, FoundHanded
<1>3. CASE FlushCall
  <2> DEFINE q == [Finish(tool) EXCEPT !.buffer = <<>>]
  <2>1. tool.state = "ParsingParameters" /\ Done(q)
    BY <1>3 DEF FlushCall
  <2>2. Digests(shown, tool, q, Passed)
    BY <1>1, <2>1, LastCallDigests
  <2>3. q.text = <<>>
    BY <1>1, <1>2 DEF Finish, Parsers
  <2> HIDE DEF q
  <2>4. QED
    BY <1>2, <2>1, <2>2, <2>3, DoneHeld
<1>4. CASE FlushRest
  <2> DEFINE call == JsonCallIn(tool.buffer)
             q == [tool EXCEPT !.tools = <<JsonTool(tool.buffer, call)>>, !.buffer = <<>>]
  <2>1. tool.state # "ParsingParameters" /\ ((call.first > 0 /\ Done(q)) \/ Done(tool))
    BY <1>4 DEF FlushRest
  <2>2. CASE call.first > 0 /\ Done(q)
    <3>1. Digests(shown, tool, q, Passed)
      BY <1>1, <1>2, <2>1, <2>2, LastJsonCallDigests
    <3>2. q.text = <<>>
      BY <1>1, <1>2 DEF Parsers
    <3> HIDE DEF q
    <3>3. QED
      BY <1>2, <2>2, <3>1, <3>2, DoneHeld
  <2>3. CASE Done(tool)
    <3>1. Digests(shown, tool, tool, Passed)
      BY <1>1 DEF Digests
    <3>2. QED
      BY <1>2, <2>3, <3>1, DoneHeld
  <2>4. QED
    BY <2>1, <2>2, <2>3
<1>5. QED
  BY <1>3, <1>4

LEMMA HeldStays ==
    ASSUME Held, Next
    PROVE  Held'
<1>1. CASE \E n \in 1 .. Len(answer.symbols) : Receive(n)
  BY <1>1, ReceiveHeld
<1>2. CASE TakeTag
  BY <1>2, TakeTagHeld
<1>3. CASE TakeAll
  BY <1>3, TakeAllHeld
<1>4. CASE TakeJsonCall
  BY <1>4, TakeJsonCallHeld
<1>5. CASE FindBullet
  BY <1>5, FindBulletHeld
<1>6. CASE PassText
  BY <1>6, PassTextHeld
<1>7. CASE MatchFunction
  BY <1>7, MatchFunctionHeld
<1>8. CASE GiveUpFunction
  BY <1>8, GiveUpFunctionHeld
<1>9. CASE AwaitFunction
  BY <1>9, AwaitHeld DEF AwaitFunction
<1>10. CASE TakeParameter \/ FlushParameter
  BY <1>10, TakeParameterHeld
<1>11. CASE EndCall
  BY <1>11, EndCallHeld
<1>12. CASE AwaitParameter
  BY <1>12, AwaitHeld DEF AwaitParameter
<1>13. CASE EndOfStream
  BY <1>13, EndOfStreamHeld
<1>14. CASE EndOfPuterStream
  BY <1>14, EndOfPuterStreamHeld
<1>15. CASE Flush
  BY <1>15, FlushHeld
<1>16. CASE FlushCall \/ FlushRest
  BY <1>16, LastHeld
<1>17. QED
  BY <1>1, <1>2, <1>3, <1>4, <1>5, <1>6, <1>7, <1>8, <1>9, <1>10, <1>11, <1>12, <1>13, <1>14,
     <1>15, <1>16 DEF Next

LEMMA HeldAlways == Spec => []Held
<1>1. Held /\ UNCHANGED vars => Held'
  BY DEF vars, Held, TypesHeld, BufferLast, TailHeld, AllRead, FoundHanded, PiecesApart, BulletFirst,
         Passed, Size, Holds, Symbol
<1>2. Held /\ [Next]_vars => Held'
  BY <1>1, HeldStays
<1>3. QED
  BY <1>2, HeldAtFirst, PTL DEF Spec

\* The parsers are only ever where their loops expect them: between two chunks
\* ThinkTagParser holds less than a tag back, and it begins like one; a parser
\* that looks for the opening of a call has the bullet at the start of its buffer
\* (GiveUpFunction passes that one symbol on as text).
THEOREM ParsersTyped == Spec => []TypeOK
<1>1. Held => TypeOK
  <2>1. SUFFICES ASSUME Held PROVE TypeOK
    OBVIOUS
  <2>2. got \in 0 .. Len(answer.symbols) /\ at \in Places /\ think.close \in Readers /\ tool \in Parsers
    BY <2>1, HeldFacts DEF Size
  <2>3. tool.state \in States
    BY <2>2 DEF Parsers
  <2>4. TailHeld /\ BulletFirst
    BY <2>1 DEF Held
  <2>5. QED
    BY <2>2, <2>3, <2>4 DEF TypeOK, TailHeld, BulletFirst, Places, Readers, States
<1>2. QED
  BY <1>1, HeldAlways, PTL

\* Nothing is shown twice, out of order or made up, however the chunks cut the
\* answer: text, thinking and the parts of tools are disjoint places of what has
\* arrived, and text and tools come in its order.
THEOREM OnlyTheAnswerIsShown == Spec => []NothingInvented
<1>1. Held => NothingInvented
  <2>1. SUFFICES ASSUME Held PROVE NothingInvented
    OBVIOUS
  <2> DEFINE x == shown.text
             y == tool.text
             a == NamesOf(shown.tools)
             b == NamesOf(tool.tools)
             c == OpenName(tool)
  <2>2. /\ shown \in ShownTypes /\ tool \in Parsers /\ Apart(shown, tool, Passed)
        /\ Size \in Nat /\ got \in 0 .. Size /\ Passed \in Nat /\ Len(think.buffer) \in Nat
        /\ Passed + Len(think.buffer) = got
    BY <2>1, HeldFacts
  <2>3. x \in Seq(Nat) /\ y \in Seq(Nat) /\ a \in Seq(Nat) /\ b \in Seq(Nat) /\ c \in Seq(Nat)
    BY <2>2, ViewTyped
  <2>4. TextOf(shown, tool) = x \o y /\ NamesIn(shown, tool) = (a \o b) \o c
    BY DEF TextOf, NamesIn
  <2> HIDE DEF x, y, a, b, c
  <2>5. Pieces(x \o y, Range(shown.thinking), (a \o b) \o c, UsedIn(shown, tool), tool.buffer, Passed)
    BY <2>2, <2>4 DEF Apart
  <2>6. a \o b \in Seq(Nat)
    BY <2>3, Joined
  <2>7. InOrder(x) /\ Range(x) \subseteq Range(x \o y)
    BY <2>3, <2>5, Joined DEF Pieces
  <2>8. InOrder(a \o b) /\ Range(a \o b) \subseteq Range((a \o b) \o c)
    <3> DEFINE d == a \o b
    <3>1. d \in Seq(Nat) /\ InOrder(d \o c)
      BY <2>5, <2>6 DEF Pieces
    <3> HIDE DEF d
    <3>2. InOrder(d) /\ Range(d \o c) = Range(d) \cup Range(c)
      BY <2>3, <3>1, Joined
    <3>3. QED
      BY <3>2 DEF d
  <2>9. InOrder(a) /\ Range(a) \subseteq Range((a \o b) \o c)
    BY <2>3, <2>8, Joined
  <2>10. Range(a) \cup InputOf(shown.tools) \subseteq UsedIn(shown, tool)
    BY <2>4, <2>9 DEF UsedIn
  <2>11. 1 .. Passed \subseteq 1 .. got
    BY <2>2
  <2>12. /\ Range(x) \cup Range(shown.thinking) \subseteq 1 .. Passed
         /\ Range(x) \cap Range(shown.thinking) = {}
         /\ UsedIn(shown, tool) \cap (Range(x) \cup Range(shown.thinking)) = {}
    BY <2>5, <2>7 DEF Pieces
  <2>13. QED
    BY <2>7, <2>9, <2>10, <2>11, <2>12 DEF NothingInvented, x, a
<1>2. QED
  BY <1>1, HeldAlways, PTL

(* ----------------------- the thinking that is shown ---------------------- *)

\* ThinkTagParser is where a reader is who has read what it has passed on.
ReadSoFar == Reading[Passed] = think.close /\ Clean(Passed)

Seen(n) == {i \in Thinking : i <= n}
ThinkingShown == InOrder(shown.thinking) /\ Range(shown.thinking) = Seen(Passed)

Read == ReadSoFar /\ ThinkingShown

\* What of the next symbols is thinking, if no tag is among them.
LEMMA SeenInRun ==
    ASSUME answer.symbols \in Seq(STRING), NEW n \in Nat, NEW m \in Nat, n + m <= Size, Clean(n),
           \A k \in n + 1 .. n + m : ~ReadTag(Reading[n], k)
    PROVE  Seen(n + m) = Seen(n) \cup (IF Reading[n] = Outside THEN {} ELSE n + 1 .. n + m)
<1>1. \A k \in n + 1 .. n + m : Reading[k - 1] = Reading[n] /\ ~IsTag(k)
  BY Run
<1>2. Size \in Nat /\ DOMAIN answer.symbols = 1 .. Size
  BY WholeFacts
<1>3. ASSUME NEW k \in n + 1 .. n + m PROVE k \in Thinking <=> Reading[n] # Outside
  <2>1. k \in DOMAIN answer.symbols
    BY <1>2
  <2>2. QED
    BY <1>1, <2>1 DEF Thinking
<1>4. \A k \in Thinking : k \in 1 .. Size
  BY <1>2 DEF Thinking
<1>5. ASSUME NEW k \in 1 .. Size
      PROVE  /\ k <= n + m <=> k <= n \/ k \in n + 1 .. n + m
             /\ k \in n + 1 .. n + m => ~ (k <= n)
  OBVIOUS
<1>6. \A k \in Seen(n + m) : k \in Seen(n) \/ k \in n + 1 .. n + m
  BY <1>4, <1>5 DEF Seen
<1>7. \A k \in Seen(n) : k \in Seen(n + m)
  BY <1>4, <1>5 DEF Seen
<1>8. \A k \in n + 1 .. n + m : k \in Seen(n + m) <=> Reading[n] # Outside
  BY <1>3, <1>4, <1>5 DEF Seen
<1>9. QED
  BY <1>6, <1>7, <1>8

\* And of a tag.
LEMMA SeenInTag ==
    ASSUME answer.symbols \in Seq(STRING), NEW n \in Nat, \A k \in n + 1 .. n + 3 : IsTag(k)
    PROVE  Seen(n + 3) = Seen(n)
<1>1. Size \in Nat /\ DOMAIN answer.symbols = 1 .. Size
  BY WholeFacts
<1>2. ASSUME NEW k \in Thinking PROVE k <= n + 3 <=> k <= n
  <2>1. k \in 1 .. Size /\ ~IsTag(k)
    BY <1>1 DEF Thinking
  <2>2. k \notin n + 1 .. n + 3
    BY <2>1
  <2>3. QED
    BY <2>1, <2>2
<1>3. QED
  BY <1>2 DEF Seen

\* What there is to read stays.
LEMMA SameReader ==
    ASSUME answer' = answer
    PROVE  Reading' = Reading /\ Thinking' = Thinking
<1>1. Reading' = Reading
  BY DEF Reading, ReadNext, ReadTag, StartsAt, Symbol, Whole
<1>2. \A i, c : ReadTag(c, i)' <=> ReadTag(c, i)
  BY DEF ReadTag, StartsAt, Symbol, Whole
<1>3. QED
  BY <1>1, <1>2 DEF Thinking, IsTag

LEMMA ReadNextState ==
    ASSUME answer' = answer, NEW n, n = Passed', Reading[n] = think'.close, Clean(n),
           InOrder(shown'.thinking), Range(shown'.thinking) = Seen(n)
    PROVE  Read'
<1>1. Reading' = Reading /\ Thinking' = Thinking
  BY SameReader
<1>2. \A i, c : ReadTag(c, i)' <=> ReadTag(c, i)
  BY DEF ReadTag, StartsAt, Symbol, Whole
<1>3. Seen(Passed)' = Seen(n)
  BY <1>1 DEF Seen
<1>4. Clean(Passed)'
  BY <1>1, <1>2 DEF Clean
<1>5. QED
  BY <1>1, <1>3, <1>4 DEF Read, ReadSoFar, ThinkingShown

LEMMA ReadUnchanged ==
    ASSUME Read, answer' = answer, Passed' = Passed, think'.close = think.close,
           shown'.thinking = shown.thinking
    PROVE  Read'
BY ReadNextState DEF Read, ReadSoFar, ThinkingShown

\* Symbols with no tag are passed on, as thinking or not.
LEMMA ReadRun ==
    ASSUME Held, Read, NEW m \in 0 .. Len(think.buffer), NEW thinking,
           \A k \in Passed + 1 .. Passed + m : ~ReadTag(think.close, k),
           think.close = Outside \/ m = 0 => thinking = shown.thinking,
           think.close # Outside => thinking = shown.thinking \o Before(think.buffer, m + 1)
    PROVE  /\ Reading[Passed + m] = think.close /\ Clean(Passed + m)
           /\ InOrder(thinking) /\ Range(thinking) = Seen(Passed + m)
<1> DEFINE b == think.buffer
           n == Passed
           c == Before(b, m + 1)
           s == shown.thinking
<1>1. /\ answer.symbols \in Seq(STRING) /\ Size \in Nat /\ b \in Seq(Nat) /\ Len(b) \in Nat
      /\ n \in Nat /\ Holds(b, n) /\ n + Len(b) <= Size /\ s \in Seq(Nat)
  <2>1. shown \in ShownTypes
    BY HeldFacts
  <2>2. s \in Seq(Nat)
    BY <2>1 DEF ShownTypes
  <2>3. QED
    BY <2>2, HeldFacts
<1>2. Reading[n] = think.close /\ Clean(n) /\ InOrder(s) /\ Range(s) = Seen(n)
  BY DEF Read, ReadSoFar, ThinkingShown
<1>3. m \in Nat /\ n + m <= Size /\ m + 1 \in 1 .. Len(b) + 1 /\ m + 1 - 1 = m /\ m <= Len(b)
  BY <1>1
<1>4. Reading[n + m] = think.close /\ Clean(n + m)
      /\ Seen(n + m) = Seen(n) \cup (IF think.close = Outside THEN {} ELSE n + 1 .. n + m)
  <2> HIDE DEF n, b
  <2>1. \A k \in n + 1 .. n + m : ~ReadTag(Reading[n], k)
    BY <1>2 DEF n
  <2>2. QED
    BY <1>1, <1>2, <1>3, <2>1, Run, SeenInRun
<1>5. CASE think.close = Outside
  BY <1>2, <1>4, <1>5
<1>6. CASE think.close # Outside
  <2>1. \A k \in 1 .. Len(b) : b[k] = n + k
    BY <1>1 DEF Holds
  <2>2. c \in Seq(Nat) /\ InOrder(c) /\ Range(c) = {b[k] : k \in 1 .. m}
    <3>1. InOrder(b)
      BY <1>1, HeldSymbols
    <3> DEFINE i == m + 1
    <3>2. i \in 1 .. Len(b) + 1 /\ i - 1 = m /\ c = Before(b, i)
      BY <1>3
    <3> HIDE DEF b, i, c
    <3>3. c \in Seq(Nat) /\ InOrder(c) /\ Range(c) = {b[k] : k \in 1 .. i - 1}
      BY <1>1, <3>1, <3>2, BeforeFacts
    <3>4. QED
      BY <3>2, <3>3
  <2>3. Range(c) = n + 1 .. n + m
    <3> HIDE DEF n, b, c
    <3>1. \A k \in 1 .. m : k \in 1 .. Len(b) /\ b[k] = n + k /\ n + k \in n + 1 .. n + m
      BY <1>1, <1>3, <2>1
    <3>2. ASSUME NEW l \in n + 1 .. n + m PROVE l \in {b[k] : k \in 1 .. m}
      <4>1. l - n \in 1 .. m /\ n + (l - n) = l
        BY <1>1
      <4>2. b[l - n] = l
        BY <3>1, <4>1
      <4>3. QED
        BY <4>1, <4>2
    <3>3. QED
      BY <2>2, <3>1, <3>2
  <2>4. \A l \in Range(s) : l <= n
    BY <1>2 DEF Seen
  <2>5. thinking = s \o c
    BY <1>6
  <2> HIDE DEF s, c, n, b
  <2>6. Below(Range(s), Range(c))
    <3>1. Range(s) \subseteq Nat
      BY <1>1, Typed
    <3>2. \A l \in Nat, k \in n + 1 .. n + m : l <= n => l < k
      BY <1>1
    <3>3. QED
      BY <2>3, <2>4, <3>1, <3>2 DEF Below
  <2>7. InOrder(thinking) /\ Range(thinking) = Range(s) \cup Range(c)
    BY <1>1, <1>2, <2>2, <2>5, <2>6, Joined
  <2>8. QED
    BY <1>2, <1>4, <1>6, <2>3, <2>7 DEF n
<1>7. QED
  BY <1>5, <1>6

LEMMA HandledThinking ==
    ASSUME Held, NEW i \in 1 .. Len(think.buffer) + 1, Handle(Before(think.buffer, i))
    PROVE  /\ think.close = Outside \/ i - 1 = 0 => shown'.thinking = shown.thinking
           /\ think.close # Outside =>
                shown'.thinking = shown.thinking \o Before(think.buffer, i - 1 + 1)
<1> DEFINE c == Before(think.buffer, i)
<1>1. think.buffer \in Seq(Nat) /\ shown \in ShownTypes /\ shown.thinking \in Seq(Nat)
  BY HeldFacts DEF ShownTypes
<1>2. c \in Seq(Nat) /\ Len(c) = i - 1
  BY <1>1, BeforeFacts
<1>3. i - 1 + 1 = i
  BY <1>1
<1>4. i - 1 = 0 => c = <<>>
  BY <1>2, EmptySeq
<1>5. c = <<>> => shown.thinking \o c = shown.thinking
  BY <1>1, ConcatEmptySeq
<1>6. Handle(c)
  OBVIOUS
<1> HIDE DEF c
<1>7. CASE c = <<>> /\ UNCHANGED <<tool, shown>>
  BY <1>3, <1>5, <1>7 DEF c
<1>8. CASE c # <<>> /\ think.close # Outside /\ shown' = [shown EXCEPT !.thinking = @ \o c]
  <2>1. shown'.thinking = shown.thinking \o c
    BY <1>1, <1>8 DEF ShownTypes
  <2>2. QED
    BY <1>3, <1>4, <1>8, <2>1 DEF c
<1>9. CASE think.close = Outside /\ UNCHANGED shown
  BY <1>9
<1>10. QED
  BY <1>6, <1>7, <1>8, <1>9 DEF Handle

LEMMA TakeTagRead ==
    ASSUME Held, Read, TakeTag
    PROVE  Read'
<1> DEFINE b == think.buffer
           i == Min(Matches(b, Tags(think.close)))
           tag == CHOOSE t \in Tags(think.close) : StartsAt(b, i, t)
           n == Passed
<1>1. /\ Matches(b, Tags(think.close)) # {} /\ Handle(Before(b, i))
      /\ think' = [buffer |-> From(b, i + 3), close |-> AfterTag(tag)]
      /\ answer' = answer /\ got' = got
  BY DEF TakeTag
<1>2. /\ answer.symbols \in Seq(STRING) /\ Size \in Nat /\ Holds(b, n) /\ think.close \in Readers
      /\ b \in Seq(Nat) /\ n \in Nat /\ Len(b) \in Nat /\ n + Len(b) = got /\ got \in 0 .. Size
  BY HeldFacts
<1>3. /\ i \in 1 .. Len(b) /\ i + 2 <= Len(b) /\ tag \in Tags(think.close)
      /\ StartsAt(Whole, n + i, tag) /\ \A k \in n + 1 .. n + i - 1 : ~ReadTag(think.close, k)
  BY <1>1, <1>2, FirstTag
<1> HIDE DEF i, tag, n
<1> DEFINE m == i - 1
           p == n + m
<1>4. /\ m \in 0 .. Len(b) /\ n + m = n + i - 1 /\ i \in 1 .. Len(b) + 1
      /\ p \in Nat /\ p + 3 <= Size /\ p + 1 = n + i /\ i + 3 \in Nat \ {0}
      /\ got - (Len(b) - (i + 2)) = p + 3 /\ i + 2 \in 0 .. Len(b) /\ i + 2 + 1 = i + 3
  <2> DEFINE l == Len(b)
  <2>1. l \in Nat /\ n \in Nat /\ n + l = got /\ got \in 0 .. Size /\ Size \in Nat /\ i \in 1 .. l /\ i + 2 <= l
    BY <1>2, <1>3
  <2> HIDE DEF l
  <2>2. /\ m \in 0 .. l /\ n + m = n + i - 1 /\ i \in 1 .. l + 1
        /\ p \in Nat /\ p + 3 <= Size /\ p + 1 = n + i /\ i + 3 \in Nat \ {0}
        /\ got - (l - (i + 2)) = p + 3 /\ i + 2 \in 0 .. l /\ i + 2 + 1 = i + 3
    BY <2>1
  <2>3. QED
    BY <2>2 DEF l
<1> HIDE DEF p
<1>5. /\ think.close = Outside \/ m = 0 => shown'.thinking = shown.thinking
      /\ think.close # Outside => shown'.thinking = shown.thinking \o Before(b, m + 1)
  BY <1>1, <1>4, HandledThinking
<1> HIDE DEF m
<1>6. /\ Reading[p] = think.close /\ Clean(p)
      /\ InOrder(shown'.thinking) /\ Range(shown'.thinking) = Seen(p)
  <2>1. \A k \in Passed + 1 .. Passed + m : ~ReadTag(think.close, k)
    BY <1>3, <1>4 DEF n
  <2>2. QED
    BY <1>4, <1>5, <2>1, ReadRun DEF n, p
<1>7. StartsAt(Whole, p + 1, tag) /\ tag \in Tags(Reading[p])
  BY <1>3, <1>4, <1>6
<1>8. Reading[p + 3] = AfterTag(tag) /\ Clean(p + 3) /\ \A k \in p + 1 .. p + 3 : IsTag(k)
  BY <1>2, <1>4, <1>6, <1>7, Turn
<1>9. Seen(p + 3) = Seen(p)
  BY <1>2, <1>4, <1>8, SeenInTag
<1>10. Passed' = p + 3 /\ think'.close = AfterTag(tag)
  <2>1. think'.buffer = From(b, i + 2 + 1) /\ think'.close = AfterTag(tag)
    BY <1>1, <1>4
  <2>2. Len(From(b, i + 2 + 1)) = Len(b) - (i + 2)
    BY <1>2, <1>4, RestHeld
  <2>3. QED
    BY <1>1, <1>4, <2>1, <2>2 DEF Passed
<1>11. QED
  BY <1>1, <1>6, <1>8, <1>9, <1>10, ReadNextState

LEMMA TakeAllRead ==
    ASSUME Held, Read, TakeAll
    PROVE  Read'
<1> DEFINE b == think.buffer
           i == HeldFrom(b, Tags(think.close))
           n == Passed
<1>1. /\ Matches(b, Tags(think.close)) = {}
      /\ IF i = 1 THEN at' = "idle" /\ UNCHANGED <<tool, shown>> ELSE Handle(Before(b, i))
      /\ think' = [think EXCEPT !.buffer = From(b, i)]
      /\ answer' = answer /\ got' = got
  BY DEF TakeAll
<1>2. /\ answer.symbols \in Seq(STRING) /\ Size \in Nat /\ Holds(b, n) /\ think.close \in Readers
      /\ think \in [buffer : Seq(Nat), close : Readers] /\ shown \in ShownTypes
      /\ b \in Seq(Nat) /\ n \in Nat /\ Len(b) \in Nat /\ n + Len(b) = got /\ got \in 0 .. Size
  BY HeldFacts
<1>3. i \in 1 .. Len(b) + 1 /\ \A k \in n + 1 .. n + i - 1 : ~ReadTag(think.close, k)
  BY <1>1, <1>2, HeldBack
<1> HIDE DEF i, n
<1> DEFINE m == i - 1
           p == n + m
<1>4. m \in 0 .. Len(b) /\ n + m = n + i - 1 /\ m + 1 = i /\ got - (Len(b) - m) = p /\ (i = 1 => m = 0)
  <2> DEFINE l == Len(b)
  <2>1. l \in Nat /\ n \in Nat /\ n + l = got /\ i \in 1 .. l + 1
    BY <1>2, <1>3
  <2> HIDE DEF l
  <2>2. m \in 0 .. l /\ n + m = n + i - 1 /\ m + 1 = i /\ got - (l - m) = p /\ (i = 1 => m = 0)
    BY <2>1
  <2>3. QED
    BY <2>2 DEF l
<1>5. /\ think.close = Outside \/ m = 0 => shown'.thinking = shown.thinking
      /\ think.close # Outside => shown'.thinking = shown.thinking \o Before(b, m + 1)
  <2>1. CASE i = 1
    <3>1. shown' = shown /\ m = 0 /\ shown.thinking \in Seq(Nat)
      BY <1>1, <1>2, <1>4, <2>1 DEF ShownTypes
    <3>2. Before(b, m + 1) = <<>>
      <4>1. m + 1 \in 1 .. Len(b) + 1 /\ m + 1 - 1 = 0
        BY <1>2, <3>1
      <4> DEFINE k == m + 1
      <4>2. k \in 1 .. Len(b) + 1 /\ k - 1 = 0
        <5>1. m \in Nat /\ Len(b) \in Nat /\ m = 0
          BY <1>2, <3>1
        <5> HIDE DEF m
        <5>2. QED
          BY <5>1
      <4> HIDE DEF k
      <4>3. Before(b, k) \in Seq(Nat) /\ Len(Before(b, k)) = 0
        BY <1>2, <4>2, BeforeFacts
      <4>4. QED
        BY <4>3, EmptySeq DEF k
    <3>3. shown.thinking \o <<>> = shown.thinking
      BY <3>1, ConcatEmptySeq
    <3>4. QED
      BY <3>1, <3>2, <3>3
  <2>2. CASE i # 1
    <3>1. Handle(Before(b, i))
      BY <1>1, <2>2
    <3>2. QED
      BY <1>3, <3>1, HandledThinking
  <2>3. QED
    BY <2>1, <2>2
<1> HIDE DEF m, p
<1>6. /\ Reading[p] = think.close /\ Clean(p)
      /\ InOrder(shown'.thinking) /\ Range(shown'.thinking) = Seen(p)
  <2>1. \A k \in Passed + 1 .. Passed + m : ~ReadTag(think.close, k)
    BY <1>3, <1>4 DEF n
  <2>2. QED
    BY <1>4, <1>5, <2>1, ReadRun DEF n, p
<1>7. Passed' = p /\ think'.close = think.close
  <2>1. think'.buffer = From(b, m + 1) /\ think'.close = think.close
    BY <1>1, <1>2, <1>4
  <2>2. Len(From(b, m + 1)) = Len(b) - m
    BY <1>2, <1>4, RestHeld
  <2>3. QED
    BY <1>1, <1>4, <2>1, <2>2 DEF Passed
<1>8. QED
  BY <1>1, <1>6, <1>7, ReadNextState

\* At the end what is held back is no tag.
LEMMA NoTagHeld ==
    ASSUME Held, at = "idle", got = Size
    PROVE  \A k \in Passed + 1 .. Passed + Len(think.buffer) : ~ReadTag(think.close, k)
<1> DEFINE l == Len(think.buffer)
           n == Passed
<1>1. /\ answer.symbols \in Seq(STRING) /\ Size \in Nat /\ n \in Nat /\ l \in Nat /\ n + l = Size
      /\ think.close \in Readers /\ l < 3
  BY HeldFacts DEF Held, TailHeld
<1> HIDE DEF l, n
<1>2. Whole \in Seq(Nat) /\ Len(Whole) = Size
  BY <1>1, WholeFacts
<1>3. SUFFICES ASSUME NEW k \in n + 1 .. n + l, NEW t \in Tags(think.close) PROVE ~StartsAt(Whole, k, t)
  BY DEF ReadTag, l, n
<1>4. k \in Nat /\ ~ (k + 2 <= Size)
  BY <1>1
<1>5. t \in AllTags
  BY <1>1, TagFacts
<1>6. QED
  BY <1>2, <1>4, <1>5, TagStarts

LEMMA EndRead ==
    ASSUME Held, Read, EndOfStream \/ EndOfPuterStream
    PROVE  Read'
<1> DEFINE b == think.buffer
           m == Len(b)
           n == Passed
<1>1. /\ at = "idle" /\ got = Size /\ think' = [think EXCEPT !.buffer = <<>>]
      /\ answer' = answer /\ got' = got
  BY DEF EndOfStream, EndOfPuterStream, AllReceived, Size
<1>2. /\ think \in [buffer : Seq(Nat), close : Readers] /\ shown \in ShownTypes /\ b \in Seq(Nat)
      /\ n \in Nat /\ m \in Nat /\ n + m = got /\ shown.thinking \in Seq(Nat)
  BY HeldFacts DEF ShownTypes
<1>3. Before(b, m + 1) = b
  <2>1. m + 1 - 1 = m
    BY <1>2
  <2>2. QED
    BY <1>2, <2>1, SubSeqFull DEF Before
<1>4. /\ think.close = Outside => shown'.thinking = shown.thinking
      /\ think.close # Outside => shown'.thinking = shown.thinking \o Before(b, m + 1)
  <2>1. CASE think.close = Outside
    BY <1>2, <2>1 DEF EndOfStream, EndOfPuterStream, ShownTypes
  <2>2. CASE think.close # Outside
    <3>1. shown' = [shown EXCEPT !.thinking = @ \o b]
      BY <2>2 DEF EndOfStream, EndOfPuterStream
    <3>2. QED
      BY <1>2, <1>3, <2>2, <3>1 DEF ShownTypes
  <2>3. QED
    BY <2>1, <2>2
<1>5. m = 0 => shown'.thinking = shown.thinking
  <2>1. m = 0 => b = <<>>
    BY <1>2, EmptySeq
  <2>2. m = 0 => shown.thinking \o Before(b, m + 1) = shown.thinking
    BY <1>2, <1>3, <2>1, ConcatEmptySeq
  <2>3. QED
    BY <1>4, <2>2
<1>6. m \in 0 .. Len(think.buffer) /\ \A k \in Passed + 1 .. Passed + m : ~ReadTag(think.close, k)
  BY <1>1, <1>2, NoTagHeld
<1>7. think'.close = think.close /\ think'.buffer = <<>> /\ Len(think'.buffer) = 0
  BY <1>1, <1>2, NoneInOrder
<1>8. Passed' = n + m
  <2>1. got \in Nat
    BY <1>2
  <2>2. QED
    BY <1>1, <1>2, <1>7, <2>1 DEF Passed
<1> HIDE DEF m
<1>9. /\ Reading[n + m] = think.close /\ Clean(n + m)
      /\ InOrder(shown'.thinking) /\ Range(shown'.thinking) = Seen(n + m)
  BY <1>4, <1>5, <1>6, ReadRun
<1>10. QED
  BY <1>1, <1>7, <1>8, <1>9, ReadNextState

LEMMA ReceiveRead ==
    ASSUME Held, Read, NEW n, Receive(n)
    PROVE  Read'
<1> DEFINE b == think.buffer
           c == [i \in 1 .. n |-> got + i]
<1>1. /\ n \in 1 .. Size - got /\ got' = got + n /\ think' = [think EXCEPT !.buffer = b \o c]
      /\ answer' = answer /\ shown' = shown
  BY DEF Receive, Size
<1>2. /\ think \in [buffer : Seq(Nat), close : Readers] /\ b \in Seq(Nat) /\ Len(b) \in Nat
      /\ got \in 0 .. Size /\ Size \in Nat
  BY HeldFacts
<1>3. n \in Nat /\ c \in Seq(Nat) /\ Len(c) = n
  <2>1. n \in Nat /\ \A i \in 1 .. n : got + i \in Nat
    BY <1>1, <1>2
  <2>2. QED
    BY <2>1
<1> HIDE DEF b, c
<1>4. Len(b \o c) = Len(b) + n
  BY <1>2, <1>3, Joined
<1>5. think'.close = think.close /\ think'.buffer = b \o c
  BY <1>1, <1>2
<1>6. Passed' = Passed
  <2> DEFINE l == Len(b)
             k == Len(think'.buffer)
  <2>1. l \in Nat /\ k = l + n /\ n \in Nat /\ got \in Int /\ got' = got + n
    BY <1>1, <1>2, <1>3, <1>4, <1>5
  <2>2. Passed' = got' - k /\ Passed = got - l
    BY DEF Passed, b
  <2> HIDE DEF Passed, l, k
  <2>3. got' - k = got - l
    BY <2>1
  <2>4. QED
    BY <2>2, <2>3
<1>7. QED
  BY <1>1, <1>5, <1>6, ReadUnchanged

\* The tool parser shows no thinking.
LEMMA ToolRead ==
    ASSUME Held, Read,
           \/ \E q : Continue(q) \/ Return(q) \/ Done(q)
           \/ Flush
    PROVE  Read'
<1>1. answer' = answer /\ think' = think /\ got' = got
  BY DEF Continue, Return, Done, Flush
<1>2. shown \in ShownTypes
  BY HeldFacts
<1>3. shown'.thinking = shown.thinking
  BY <1>2 DEF Continue, Return, Done, Flush, ShownTypes
<1>4. Passed' = Passed
  BY <1>1 DEF Passed
<1>5. QED
  BY <1>1, <1>3, <1>4, ReadUnchanged

LEMMA ReadAtFirst == Init => Read
<1>1. SUFFICES ASSUME Init PROVE Read
  OBVIOUS
<1>2. Held
  BY <1>1, HeldAtFirst
<1>3. answer.symbols \in Seq(STRING) /\ Size \in Nat
  BY <1>2, HeldFacts
<1>4. think.buffer = <<>> /\ think.close = Outside /\ got = 0 /\ shown.thinking = <<>>
  BY <1>1 DEF Init
<1>5. Passed = 0
  <2>1. Len(think.buffer) = 0
    BY <1>4, NoneInOrder
  <2>2. Passed = got - 0
    BY <2>1 DEF Passed
  <2>3. QED
    BY <1>4, <2>2
<1>6. Reading[0] = Outside /\ Clean(0)
  <2>1. Reading[0] = Outside
    BY <1>3, ReadingExists
  <2>2. \A j \in 0 - 1 .. 0 : ~ (j > 0)
    OBVIOUS
  <2>3. QED
    BY <2>1, <2>2 DEF Clean
<1>7. Seen(0) = {}
  <2>1. \A i \in Thinking : i \in 1 .. Size
    BY <1>3, WholeFacts DEF Thinking
  <2>2. \A i \in 1 .. Size : ~ (i <= 0)
    OBVIOUS
  <2>3. QED
    BY <2>1, <2>2 DEF Seen
<1>8. QED
  BY <1>4, <1>5, <1>6, <1>7, NoneInOrder DEF Read, ReadSoFar, ThinkingShown

LEMMA ReadStays ==
    ASSUME Held, Read, Next
    PROVE  Read'
<1>1. CASE \E n \in 1 .. Len(answer.symbols) : Receive(n)
  BY <1>1, ReceiveRead
<1>2. CASE TakeTag
  BY <1>2, TakeTagRead
<1>3. CASE TakeAll
  BY <1>3, TakeAllRead
<1>4. CASE EndOfStream \/ EndOfPuterStream
  BY <1>4, EndRead
<1>5. CASE \/ TakeJsonCall \/ FindBullet \/ PassText \/ MatchFunction \/ GiveUpFunction \/ AwaitFunction
           \/ TakeParameter \/ EndCall \/ AwaitParameter
           \/ Flush \/ FlushParameter \/ FlushCall \/ FlushRest
  <2>1. \/ \E q : Continue(q) \/ Return(q) \/ Done(q)
        \/ Flush
    BY <1>5 DEF TakeJsonCall, FindBullet, PassText, MatchFunction, GiveUpFunction, AwaitFunction,
                TakeParameter, EndCall, AwaitParameter, FlushParameter, FlushCall, FlushRest
  <2>2. QED
    BY <2>1, ToolRead
<1>6. QED
  BY <1>1, <1>2, <1>3, <1>4, <1>5 DEF Next

LEMMA ReadAlways == Spec => []Read
<1>1. Held /\ Read /\ UNCHANGED vars => Read'
  <2>1. ASSUME Held, Read, UNCHANGED vars PROVE Read'
    <3>1. answer' = answer /\ think' = think /\ got' = got /\ shown' = shown
      BY <2>1 DEF vars
    <3>2. Passed' = Passed
      BY <3>1 DEF Passed
    <3>3. QED
      BY <2>1, <3>1, <3>2, ReadUnchanged
  <2>2. QED
    BY <2>1
<1>2. Held /\ Read /\ [Next]_vars => Read'
  BY <1>1, ReadStays
<1>3. QED
  BY <1>2, HeldAlways, ReadAtFirst, PTL DEF Spec

\* All that has arrived is read at the end.
LEMMA AllPassed ==
    ASSUME Held, at = "ended"
    PROVE  Passed = Size /\ Size \in Nat /\ DOMAIN answer.symbols = 1 .. Size
<1>1. think.buffer = <<>> /\ got = Size
  BY DEF Held, AllRead
<1>2. answer.symbols \in Seq(STRING) /\ Size \in Nat
  BY HeldFacts
<1>3. Len(think.buffer) = 0
  BY <1>1, NoneInOrder
<1>4. QED
  BY <1>1, <1>2, <1>3, WholeFacts DEF Passed

\* README on thinking tags: "safely relocating their contents": however the
\* chunks cut the answer, exactly what a reader of the whole answer finds inside
\* of thinking tags has become thinking in the end, in order, with broken, stray
\* and nested tags.
THEOREM ThinkingIsRelocated == Spec => []ThinkingSplit
<1>1. Held /\ Read => ThinkingSplit
  <2>1. SUFFICES ASSUME Held, Read, at = "ended"
                 PROVE  InOrder(shown.thinking) /\ Range(shown.thinking) = Thinking
    BY DEF ThinkingSplit
  <2>2. Passed = Size /\ Size \in Nat /\ DOMAIN answer.symbols = 1 .. Size
    BY <2>1, AllPassed
  <2>3. \A i \in Thinking : i \in 1 .. Size
    BY <2>2 DEF Thinking
  <2>4. Seen(Size) = Thinking
    BY <2>3 DEF Seen
  <2>5. QED
    BY <2>1, <2>2, <2>4 DEF Read, ThinkingShown
<1>2. QED
  BY <1>1, HeldAlways, ReadAlways, PTL

(* ----------------------------- the loops end ----------------------------- *)

\* What is left to do of an answer: a symbol that is to come is worth more than
\* one in ThinkTagParser's buffer, and that more than one in the tool parser's; a
\* turn that takes nothing from a buffer brings a parser nearer to its end.
StateLeft(state) ==
    IF state = "ParsingParameters" THEN 2 ELSE IF state = "Text" THEN 1 ELSE 0
AtLeft(place) ==
    IF place = "tool" THEN 5 ELSE IF place = "think" THEN 4
    ELSE IF place \in {"idle", "rest"} THEN 3
    ELSE IF place = "flush" THEN 2 ELSE IF place = "last" THEN 1 ELSE 0
Turns ==
    7 * (Size - got) + 5 * Len(think.buffer) + 3 * Len(tool.buffer) + StateLeft(tool.state) + AtLeft(at)

\* Every turn of a loop, and every chunk, uses some of it up; there is never more
\* of it than at the start, and that depends on the length of the answer alone.
TurnsUsedUp == [][Turns' < Turns]_vars
TurnsBounded == Turns \in 0 .. 7 * Size + 4

LEMMA StrippedShorter ==
    ASSUME NEW b \in Seq(Nat)
    PROVE  Len(Stripped(b)) \in Nat /\ Len(Stripped(b)) <= Len(b)
<1>1. PICK f \in [0 .. Len(b) -> Seq(Nat)] : IsStripping(b, f) /\ Stripped(b) = f[Len(b)]
  BY StrippingExists
<1> DEFINE N == Len(b)
           P == {n \in 0 .. N : Len(f[n]) <= n}
<1>2. N \in Nat /\ \A i \in 1 .. N : b[i] \in Nat
  BY Typed
<1>3. f[0] = <<>>
  BY <1>1, <1>2 DEF IsStripping
<1>4. \A n \in 1 .. N : f[n] = IF b[n] \in InToken(b) THEN f[n - 1] ELSE Append(f[n - 1], b[n])
  <2>1. \A n \in 1 .. N : n \in 0 .. N /\ n # 0
    OBVIOUS
  <2>2. QED
    BY <1>1, <2>1 DEF IsStripping
<1>5. 0 \in P
  BY <1>2, <1>3, NoneInOrder
<1>6. ASSUME NEW n \in 1 .. N, n - 1 \in P PROVE n \in P
  <2>1. f[n - 1] \in Seq(Nat) /\ b[n] \in Nat /\ Len(f[n - 1]) <= n - 1 /\ n \in 0 .. N
    <3>1. n - 1 \in 0 .. N /\ n \in 0 .. N
      BY <1>2
    <3>2. QED
      BY <1>2, <1>6, <3>1
  <2>2. Len(f[n - 1]) \in Nat /\ Len(Append(f[n - 1], b[n])) = Len(f[n - 1]) + 1
    BY <2>1, Typed, AppendProperties
  <2>3. f[n] = f[n - 1] \/ f[n] = Append(f[n - 1], b[n])
    BY <1>4
  <2>4. Len(f[n]) <= n
    BY <2>1, <2>2, <2>3
  <2>5. QED
    BY <2>1, <2>4
<1>7. N \in P
  <2>1. \A n \in 0 .. N : n \in P
    <3> HIDE DEF P
    <3>1. QED
      BY <1>2, <1>5, <1>6, Induction
  <2>2. QED
    BY <1>2, <2>1
<1>8. Len(f[N]) \in Nat
  BY <1>2, Typed
<1>9. QED
  BY <1>1, <1>7, <1>8

LEMMA Counts ==
    Held => /\ Size \in Nat /\ got \in 0 .. Size /\ Size - got \in Nat
            /\ Len(think.buffer) \in Nat /\ Len(tool.buffer) \in Nat
            /\ think.buffer \in Seq(Nat) /\ tool.buffer \in Seq(Nat)
            /\ tool \in Parsers /\ tool.state \in States /\ at \in Places
<1>1. SUFFICES ASSUME Held
               PROVE  /\ Len(tool.buffer) \in Nat /\ tool.buffer \in Seq(Nat) /\ tool.state \in States
                      /\ Size - got \in Nat
  BY HeldFacts
<1>2. tool \in Parsers
  BY <1>1, HeldFacts
<1>3. tool.buffer \in Seq(Nat) /\ tool.state \in States
  BY <1>2 DEF Parsers
<1>4. QED
  BY <1>1, <1>2, <1>3, HeldFacts, Typed

LEMMA Numbers ==
    ASSUME NEW state \in States, NEW place \in Places
    PROVE  StateLeft(state) \in 0 .. 2 /\ AtLeft(place) \in 0 .. 5
BY DEF StateLeft, AtLeft, States, Places

\* The turns of HeuristicToolParser's loop.
LEMMA ContinueCounts ==
    ASSUME Held, NEW q \in Parsers, Continue(q),
           3 * Len(q.buffer) + StateLeft(q.state) < 3 * Len(tool.buffer) + StateLeft(tool.state)
    PROVE  Turns' < Turns
<1>1. tool' = q /\ Size' = Size /\ at' = at /\ got' = got /\ think' = think
  BY DEF Continue, Size
<1>2. q.buffer \in Seq(Nat) /\ q.state \in States
  BY DEF Parsers
<1>3. Len(q.buffer) \in Nat
  BY <1>2, Typed
<1>4. /\ Size - got \in Nat /\ Len(think.buffer) \in Nat /\ Len(tool.buffer) \in Nat
      /\ StateLeft(tool.state) \in Nat /\ AtLeft(at) \in Nat /\ StateLeft(q.state) \in Nat
  <2>1. /\ Size - got \in Nat /\ Len(think.buffer) \in Nat /\ Len(tool.buffer) \in Nat
        /\ tool.state \in States /\ at \in Places
    BY Counts
  <2>2. QED
    BY <1>2, <2>1, Numbers
<1>5. /\ Turns = 7 * (Size - got) + 5 * Len(think.buffer) + 3 * Len(tool.buffer)
                   + StateLeft(tool.state) + AtLeft(at)
      /\ Turns' = 7 * (Size - got) + 5 * Len(think.buffer) + 3 * Len(q.buffer)
                   + StateLeft(q.state) + AtLeft(at)
  BY <1>1 DEF Turns
<1> DEFINE n == Size - got
           c == Len(think.buffer)
           t == Len(tool.buffer)
           u == Len(q.buffer)
           s == StateLeft(tool.state)
           r == StateLeft(q.state)
           a == AtLeft(at)
           b == AtLeft(at)
<1>6. /\ n \in Nat /\ c \in Nat /\ t \in Nat /\ u \in Nat
      /\ s \in Nat /\ r \in Nat /\ a \in Nat /\ b \in Nat /\ 3 * u + r < 3 * t + s /\ b = a
      /\ Turns = 7 * n + 5 * c + 3 * t + s + a /\ Turns' = 7 * n + 5 * c + 3 * u + r + b
  BY <1>3, <1>4, <1>5
<1> HIDE DEF n, c, t, u, s, r, a, b
<1>7. QED
  BY <1>6

LEMMA ReturnCounts ==
    ASSUME Held, NEW state, In(state), NEW q \in Parsers, Return(q), q.state = tool.state,
           Len(q.buffer) <= Len(tool.buffer)
    PROVE  Turns' < Turns
<1>1. /\ tool' = [q EXCEPT !.text = <<>>, !.tools = <<>>] /\ Size' = Size
      /\ at' = (IF at = "tool" THEN "think" ELSE "flush") /\ got' = got /\ think' = think
  BY DEF Return, Size
<1>2. q.buffer \in Seq(Nat) /\ tool'.buffer = q.buffer /\ tool'.state = tool.state
  BY <1>1 DEF Parsers
<1>3. Len(q.buffer) \in Nat
  BY <1>2, Typed
<1>4. /\ Size - got \in Nat /\ Len(think.buffer) \in Nat /\ Len(tool.buffer) \in Nat
      /\ StateLeft(tool.state) \in Nat /\ AtLeft(at) \in Nat /\ AtLeft(at') \in Nat
  <2>1. /\ Size - got \in Nat /\ Len(think.buffer) \in Nat /\ Len(tool.buffer) \in Nat
        /\ tool.state \in States /\ at \in Places
    BY Counts
  <2>2. at' \in Places
    BY <1>1 DEF Places
  <2>3. QED
    BY <2>1, <2>2, Numbers
<1>5. AtLeft(at') < AtLeft(at)
  BY <1>1, InFacts DEF AtLeft
<1>6. /\ Turns = 7 * (Size - got) + 5 * Len(think.buffer) + 3 * Len(tool.buffer)
                   + StateLeft(tool.state) + AtLeft(at)
      /\ Turns' = 7 * (Size - got) + 5 * Len(think.buffer) + 3 * Len(q.buffer)
                   + StateLeft(tool.state) + AtLeft(at')
  BY <1>1, <1>2 DEF Turns
<1> DEFINE n == Size - got
           c == Len(think.buffer)
           t == Len(tool.buffer)
           u == Len(q.buffer)
           s == StateLeft(tool.state)
           r == StateLeft(tool.state)
           a == AtLeft(at)
           b == AtLeft(at')
<1>7. /\ n \in Nat /\ c \in Nat /\ t \in Nat /\ u \in Nat
      /\ s \in Nat /\ r \in Nat /\ a \in Nat /\ b \in Nat /\ u <= t /\ r = s /\ b < a
      /\ Turns = 7 * n + 5 * c + 3 * t + s + a /\ Turns' = 7 * n + 5 * c + 3 * u + r + b
  BY <1>3, <1>4, <1>5, <1>6
<1> HIDE DEF n, c, t, u, s, r, a, b
<1>8. QED
  BY <1>7

LEMMA DoneCounts ==
    ASSUME Held, at = "last", NEW q \in Parsers, Done(q),
           Len(q.buffer) <= Len(tool.buffer), StateLeft(q.state) <= StateLeft(tool.state)
    PROVE  Turns' < Turns
<1>1. /\ tool' = [q EXCEPT !.tools = <<>>] /\ Size' = Size
      /\ at' = "ended" /\ got' = got /\ think' = think
  BY DEF Done, Size
<1>2. q.buffer \in Seq(Nat) /\ q.state \in States /\ tool'.buffer = q.buffer /\ tool'.state = q.state
  BY <1>1 DEF Parsers
<1>3. Len(q.buffer) \in Nat
  BY <1>2, Typed
<1>4. /\ Size - got \in Nat /\ Len(think.buffer) \in Nat /\ Len(tool.buffer) \in Nat
      /\ StateLeft(tool.state) \in Nat /\ StateLeft(q.state) \in Nat /\ AtLeft(at) = 1 /\ AtLeft(at') = 0
  <2>1. /\ Size - got \in Nat /\ Len(think.buffer) \in Nat /\ Len(tool.buffer) \in Nat
        /\ tool.state \in States /\ at \in Places
    BY Counts
  <2>2. AtLeft(at) = 1 /\ AtLeft(at') = 0
    BY <1>1 DEF AtLeft
  <2>3. QED
    BY <1>2, <2>1, <2>2, Numbers
<1>5. /\ Turns = 7 * (Size - got) + 5 * Len(think.buffer) + 3 * Len(tool.buffer)
                   + StateLeft(tool.state) + AtLeft(at)
      /\ Turns' = 7 * (Size - got) + 5 * Len(think.buffer) + 3 * Len(q.buffer)
                   + StateLeft(q.state) + AtLeft(at')
  BY <1>1, <1>2 DEF Turns
<1> DEFINE n == Size - got
           c == Len(think.buffer)
           t == Len(tool.buffer)
           u == Len(q.buffer)
           s == StateLeft(tool.state)
           r == StateLeft(q.state)
           a == AtLeft(at)
           b == AtLeft(at')
<1>6. /\ n \in Nat /\ c \in Nat /\ t \in Nat /\ u \in Nat
      /\ s \in Nat /\ r \in Nat /\ a \in Nat /\ b \in Nat /\ u <= t /\ r <= s /\ b < a
      /\ Turns = 7 * n + 5 * c + 3 * t + s + a /\ Turns' = 7 * n + 5 * c + 3 * u + r + b
  BY <1>3, <1>4, <1>5, SMTT(20)
<1> HIDE DEF n, c, t, u, s, r, a, b
<1>7. QED
  BY <1>6

LEMMA FromShorter ==
    ASSUME NEW b \in Seq(Nat), NEW i \in Nat \ {0}
    PROVE  /\ Len(From(b, i)) <= Len(b)
           /\ i > 1 /\ Len(b) > 0 => Len(From(b, i)) < Len(b)
           /\ i <= Len(b) + 1 => Len(From(b, i)) = Len(b) - i + 1
<1>1. Len(b) \in Nat /\ Len(From(b, i)) = IF i <= Len(b) THEN Len(b) - i + 1 ELSE 0
  BY Typed, FromFacts
<1>2. QED
  BY <1>1

LEMMA TakeJsonCallTurn ==
    ASSUME Held, Held', TakeJsonCall
    PROVE  Turns' < Turns
<1> DEFINE call == JsonCallIn(tool.buffer)
           q == [Filter(tool, call.first) EXCEPT
                   !.tools = Append(@, JsonTool(tool.buffer, call)),
                   !.buffer = From(tool.buffer, call.last + 1)]
<1>1. In("Text") /\ call.first > 0 /\ Continue(q)
  BY DEF TakeJsonCall
<1>2. tool \in Parsers /\ tool.buffer \in Seq(Nat) /\ Len(tool.buffer) \in Nat
  BY Counts
<1>3. call.first \in 1 .. Len(tool.buffer) /\ call.last \in call.first + 4 .. Len(tool.buffer)
  BY <1>1, <1>2, JsonCallFound
<1>4. q.buffer = From(tool.buffer, call.last + 1) /\ q.state = tool.state
  BY <1>2 DEF Filter, Parsers
<1>5. q \in Parsers
  BY <1>1, InFacts, JsonCallDigests DEF Digests
<1> HIDE DEF q, call
<1>6. call.last + 1 \in Nat \ {0} /\ call.last + 1 > 1 /\ Len(tool.buffer) > 0
  BY <1>2, <1>3
<1>7. Len(q.buffer) < Len(tool.buffer) /\ Len(q.buffer) \in Nat
  <2>1. q.buffer \in Seq(Nat)
    BY <1>5 DEF Parsers
  <2>2. QED
    BY <1>2, <1>4, <1>6, <2>1, FromShorter, Typed
<1>8. StateLeft(tool.state) \in Nat
  BY Counts, Numbers
<1>9. 3 * Len(q.buffer) + StateLeft(q.state) < 3 * Len(tool.buffer) + StateLeft(tool.state)
  BY <1>2, <1>4, <1>7, <1>8
<1>10. QED
  BY <1>1, <1>5, <1>9, ContinueCounts

LEMMA FindBulletTurn ==
    ASSUME Held, Held', FindBullet
    PROVE  Turns' < Turns
<1> DEFINE i == Min(Bullets(tool.buffer))
           q == [Filter(tool, i) EXCEPT !.state = "MatchingFunction"]
<1>1. In("Text") /\ Bullets(tool.buffer) # {} /\ Continue(q)
  BY DEF FindBullet
<1>2. /\ tool \in Parsers /\ tool.buffer \in Seq(Nat) /\ Len(tool.buffer) \in Nat
      /\ tool.state = "Text"
  BY <1>1, Counts, InFacts
<1>3. i \in Nat \ {0}
  BY <1>1, <1>2, BulletFound
<1>4. q.buffer = From(tool.buffer, i) /\ q.state = "MatchingFunction"
  BY <1>2 DEF Filter, Parsers
<1>5. q \in Parsers
  BY <1>1, Held' DEF Continue, Held, TypesHeld
<1> HIDE DEF q, i
<1>6. Len(q.buffer) <= Len(tool.buffer) /\ Len(q.buffer) \in Nat
  <2>1. q.buffer \in Seq(Nat)
    BY <1>5 DEF Parsers
  <2>2. QED
    BY <1>2, <1>3, <1>4, <2>1, FromShorter, Typed
<1>7. 3 * Len(q.buffer) + StateLeft(q.state) < 3 * Len(tool.buffer) + StateLeft(tool.state)
  BY <1>2, <1>4, <1>6 DEF StateLeft
<1>8. QED
  BY <1>1, <1>5, <1>7, ContinueCounts

LEMMA MatchFunctionTurn ==
    ASSUME Held, Held', MatchFunction
    PROVE  Turns' < Turns
<1> DEFINE i == FunctionIn(tool.buffer)
           q == [tool EXCEPT !.name = tool.buffer[i], !.parameters = NoParameters,
                             !.buffer = From(@, i + 1), !.state = "ParsingParameters"]
<1>1. In("MatchingFunction") /\ i > 0 /\ Continue(q)
  BY DEF MatchFunction
<1>2. /\ tool \in Parsers /\ tool.buffer \in Seq(Nat) /\ Len(tool.buffer) \in Nat
      /\ tool.state = "MatchingFunction"
  BY <1>1, Counts, InFacts
<1>3. i \in 1 .. Len(tool.buffer)
  BY <1>1, <1>2, FunctionFound
<1>4. q.buffer = From(tool.buffer, i + 1) /\ q.state = "ParsingParameters"
  BY <1>2 DEF Parsers
<1>5. q \in Parsers
  BY <1>1, Held' DEF Continue, Held, TypesHeld
<1> HIDE DEF q, i
<1>6. i + 1 \in Nat \ {0} /\ i + 1 > 1 /\ Len(tool.buffer) > 0
  BY <1>2, <1>3
<1>7. Len(q.buffer) < Len(tool.buffer) /\ Len(q.buffer) \in Nat
  <2>1. q.buffer \in Seq(Nat)
    BY <1>5 DEF Parsers
  <2>2. QED
    BY <1>2, <1>4, <1>6, <2>1, FromShorter, Typed
<1>8. 3 * Len(q.buffer) + StateLeft(q.state) < 3 * Len(tool.buffer) + StateLeft(tool.state)
  BY <1>2, <1>4, <1>7 DEF StateLeft
<1>9. QED
  BY <1>1, <1>5, <1>8, ContinueCounts

LEMMA GiveUpFunctionTurn ==
    ASSUME Held, Held', GiveUpFunction
    PROVE  Turns' < Turns
<1> DEFINE q == [Filter(tool, 2) EXCEPT !.state = "Text"]
<1>1. In("MatchingFunction") /\ Continue(q)
  BY DEF GiveUpFunction
<1>2. /\ tool \in Parsers /\ tool.buffer \in Seq(Nat) /\ Len(tool.buffer) \in Nat
      /\ tool.state = "MatchingFunction" /\ tool.buffer # <<>>
  BY <1>1, Counts, InFacts
<1>3. Len(tool.buffer) > 0
  BY <1>2, EmptySeq
<1>4. q.buffer = From(tool.buffer, 2) /\ q.state = "Text"
  BY <1>2 DEF Filter, Parsers
<1>5. q \in Parsers
  BY <1>1, Held' DEF Continue, Held, TypesHeld
<1> HIDE DEF q
<1>6. Len(q.buffer) < Len(tool.buffer) /\ Len(q.buffer) \in Nat
  <2>1. q.buffer \in Seq(Nat)
    BY <1>5 DEF Parsers
  <2>2. QED
    BY <1>2, <1>3, <1>4, <2>1, FromShorter, Typed
<1>7. 3 * Len(q.buffer) + StateLeft(q.state) < 3 * Len(tool.buffer) + StateLeft(tool.state)
  BY <1>2, <1>4, <1>6 DEF StateLeft
<1>8. QED
  BY <1>1, <1>5, <1>7, ContinueCounts

LEMMA ParameterTurn ==
    ASSUME Held, Held', TakeParameter \/ FlushParameter
    PROVE  Turns' < Turns
<1> DEFINE q == WithParameter(tool)
           i == Min(ParamStarts(tool.buffer))
           end == ParamEnd(tool.buffer, i)
<1>1. ParamStarts(tool.buffer) # {} /\ Continue(q)
  BY DEF TakeParameter, FlushParameter, HasParameter
<1>2. tool \in Parsers /\ tool.buffer \in Seq(Nat) /\ Len(tool.buffer) \in Nat
  BY Counts
<1>3. i \in 1 .. Len(tool.buffer) - 1 /\ end \in i + 1 .. Len(tool.buffer) + 1
  BY <1>1, <1>2, ParameterFound
<1>4. q.buffer = From(tool.buffer, end + 2) /\ q.state = tool.state
  BY <1>2 DEF WithParameter, Parsers
<1>5. q \in Parsers
  BY <1>1, Held' DEF Continue, Held, TypesHeld
<1> HIDE DEF q, i, end
<1>6. end + 2 \in Nat \ {0} /\ end + 2 > 1 /\ Len(tool.buffer) > 0
  BY <1>2, <1>3
<1>7. Len(q.buffer) < Len(tool.buffer) /\ Len(q.buffer) \in Nat
  <2>1. q.buffer \in Seq(Nat)
    BY <1>5 DEF Parsers
  <2>2. QED
    BY <1>2, <1>4, <1>6, <2>1, FromShorter, Typed
<1>8. StateLeft(tool.state) \in Nat
  BY Counts, Numbers, SMTT(20)
<1>9. 3 * Len(q.buffer) + StateLeft(q.state) < 3 * Len(tool.buffer) + StateLeft(tool.state)
  BY <1>2, <1>4, <1>7, <1>8
<1>10. QED
  BY <1>1, <1>5, <1>9, ContinueCounts

LEMMA EndCallTurn ==
    ASSUME Held, Held', EndCall
    PROVE  Turns' < Turns
<1>1. /\ In("ParsingParameters") /\ tool.state = "ParsingParameters"
      /\ tool \in Parsers /\ tool.buffer \in Seq(Nat) /\ Len(tool.buffer) \in Nat
  BY InFacts, Counts DEF EndCall
<1>2. PICK i \in Nat \ {0} : Continue(Finish(Filter(tool, i)))
  <2>1. CASE Bullets(tool.buffer) # {} /\ Continue(Finish(Filter(tool, Min(Bullets(tool.buffer)))))
    <3>1. Min(Bullets(tool.buffer)) \in Nat \ {0}
      BY <1>1, <2>1, BulletFound
    <3>2. QED
      BY <2>1, <3>1
  <2>2. CASE Continue(Finish(Filter(tool, Len(tool.buffer) + 1)))
    <3>1. Len(tool.buffer) + 1 \in Nat \ {0}
      BY <1>1
    <3>2. QED
      BY <2>2, <3>1
  <2>3. QED
    BY <2>1, <2>2 DEF EndCall
<1> DEFINE q == Finish(Filter(tool, i))
<1>3. q.buffer = From(tool.buffer, i) /\ q.state = "Text"
  BY <1>1 DEF Finish, Filter, Parsers
<1>4. Continue(q)
  BY <1>2
<1> HIDE DEF q
<1>5. q \in Parsers
  BY <1>4, Held' DEF Continue, Held, TypesHeld
<1>6. Len(q.buffer) <= Len(tool.buffer) /\ Len(q.buffer) \in Nat
  <2>1. q.buffer \in Seq(Nat)
    BY <1>5 DEF Parsers
  <2>2. QED
    BY <1>1, <1>2, <1>3, <2>1, FromShorter, Typed
<1>7. 3 * Len(q.buffer) + StateLeft(q.state) < 3 * Len(tool.buffer) + StateLeft(tool.state)
  BY <1>1, <1>3, <1>6 DEF StateLeft
<1>8. QED
  BY <1>4, <1>5, <1>7, ContinueCounts

\* feed returns, or flush does.
LEMMA ReturnTurn ==
    ASSUME Held, PassText \/ AwaitFunction \/ AwaitParameter
    PROVE  Turns' < Turns
<1>1. CASE PassText
  <2> DEFINE i == HeldText(tool.buffer)
             q == [Filter(tool, i) EXCEPT !.state = "Text"]
  <2>1. In("Text") /\ Return(Filter(tool, i))
    BY <1>1 DEF PassText
  <2>2. /\ tool \in Parsers /\ tool.buffer \in Seq(Nat) /\ Len(tool.buffer) \in Nat
        /\ tool.state = "Text"
    BY <2>1, Counts, InFacts
  <2>3. i \in 1 .. Len(tool.buffer) + 1 /\ i \in Nat \ {0}
    BY <2>2, HeldTextFound
  <2>4. q.buffer = From(tool.buffer, i) /\ q.state = "Text" /\ q = Filter(tool, i)
    BY <2>2 DEF Filter, Parsers
  <2> HIDE DEF i
  <2>5. q \in Parsers
    <3>1. Digests(shown, tool, q, Passed)
      BY <2>1, <2>2, <2>3, InFacts, FilterDigests
    <3>2. QED
      BY <3>1 DEF Digests
  <2> HIDE DEF q
  <2>6. Len(q.buffer) <= Len(tool.buffer)
    BY <2>2, <2>3, <2>4, FromShorter
  <2>7. QED
    BY <2>1, <2>2, <2>4, <2>5, <2>6, ReturnCounts
<1>2. CASE AwaitFunction \/ AwaitParameter
  <2>1. PICK state : In(state) /\ Return(tool)
    BY <1>2 DEF AwaitFunction, AwaitParameter
  <2>2. tool \in Parsers /\ Len(tool.buffer) <= Len(tool.buffer)
    BY Counts
  <2>3. QED
    BY <2>1, <2>2, ReturnCounts
<1>3. QED
  BY <1>1, <1>2

LEMMA LastTurn ==
    ASSUME Held, FlushCall \/ FlushRest
    PROVE  Turns' < Turns
<1>1. /\ shown \in ShownTypes /\ tool \in Parsers /\ Apart(shown, tool, Passed)
      /\ tool.buffer \in Seq(Nat) /\ Len(tool.buffer) \in Nat /\ StateLeft(tool.state) \in Nat
  BY HeldFacts, Counts, Numbers, SMTT(20)
<1>2. at = "last" /\ tool.text = <<>> /\ tool.tools = <<>>
  BY DEF FlushCall, FlushRest, Held, FoundHanded
<1>3. CASE FlushCall
  <2> DEFINE q == [Finish(tool) EXCEPT !.buffer = <<>>]
  <2>1. tool.state = "ParsingParameters" /\ Done(q)
    BY <1>3 DEF FlushCall
  <2>2. q \in Parsers
    BY <1>1, <2>1, LastCallDigests DEF Digests
  <2>3. q.buffer = <<>> /\ q.state = "Text"
    BY <1>1 DEF Finish, Parsers
  <2> HIDE DEF q
  <2>4. Len(q.buffer) <= Len(tool.buffer) /\ StateLeft(q.state) <= StateLeft(tool.state)
    BY <1>1, <2>1, <2>3, NoneInOrder DEF StateLeft
  <2>5. QED
    BY <1>2, <2>1, <2>2, <2>4, DoneCounts
<1>4. CASE FlushRest
  <2> DEFINE call == JsonCallIn(tool.buffer)
             q == [tool EXCEPT !.tools = <<JsonTool(tool.buffer, call)>>, !.buffer = <<>>]
  <2>1. (call.first > 0 /\ Done(q)) \/ Done(tool)
    BY <1>4 DEF FlushRest
  <2>2. CASE call.first > 0 /\ Done(q)
    <3>1. q \in Parsers
      <4>1. tool.state # "ParsingParameters"
        BY <1>4 DEF FlushRest
      <4>2. QED
        BY <1>1, <1>2, <2>2, <4>1, LastJsonCallDigests DEF Digests
    <3>2. q.buffer = <<>> /\ q.state = tool.state
      BY <1>1 DEF Parsers
    <3> HIDE DEF q
    <3>3. Len(q.buffer) <= Len(tool.buffer) /\ StateLeft(q.state) <= StateLeft(tool.state)
      BY <1>1, <3>2, NoneInOrder
    <3>4. QED
      BY <1>2, <2>2, <3>1, <3>3, DoneCounts
  <2>3. CASE Done(tool)
    <3>1. Len(tool.buffer) <= Len(tool.buffer) /\ StateLeft(tool.state) <= StateLeft(tool.state)
      BY <1>1
    <3>2. QED
      BY <1>1, <1>2, <2>3, <3>1, DoneCounts
  <2>4. QED
    BY <2>1, <2>2, <2>3
<1>5. QED
  BY <1>3, <1>4

\* The turns of ThinkTagParser's loop.
LEMMA HandleCounts ==
    ASSUME Held, Held', at = "think", NEW i \in Nat \ {0}, NEW j \in Nat, i - 1 <= j, j <= Len(think.buffer),
           Handle(Before(think.buffer, i)), j > 0, answer' = answer, got' = got,
           Len(think'.buffer) = Len(think.buffer) - j
    PROVE  Turns' < Turns
<1> DEFINE x == Before(think.buffer, i)
           c == Len(think.buffer)
           n == Size - got
           t == Len(tool.buffer)
           u == Len(tool'.buffer)
           s == StateLeft(tool.state)
           b == AtLeft(at')
<1>1. /\ think.buffer \in Seq(Nat) /\ tool.buffer \in Seq(Nat) /\ tool \in Parsers
      /\ n \in Nat /\ c \in Nat /\ t \in Nat /\ s \in Nat
  BY Counts, Numbers, SMTT(20)
<1>2. i \in 1 .. c + 1
  BY <1>1
<1>3. x \in Seq(Nat) /\ Len(x) = i - 1
  BY <1>1, <1>2, BeforeFacts
<1>4. tool'.state = tool.state /\ u \in Nat /\ u <= t + Len(x) /\ (at' = "think" \/ (at' = "tool" /\ i > 1))
  <2>1. CASE x = <<>> /\ at' = "think" /\ UNCHANGED <<tool, shown>>
    <3>1. tool' = tool
      BY <2>1
    <3>2. u = t
      BY <3>1
    <3>3. QED
      BY <1>1, <1>2, <1>3, <2>1, <3>1, <3>2
  <2>2. CASE at' = "think" /\ UNCHANGED tool
    <3>1. tool' = tool
      BY <2>2
    <3>2. u = t
      BY <3>1
    <3>3. QED
      BY <1>1, <1>2, <1>3, <2>2, <3>1, <3>2
  <2>3. CASE x # <<>> /\ Feed(x) /\ at' = "tool"
    <3>1. tool'.buffer = Stripped(tool.buffer \o x) /\ tool'.state = tool.state
      BY <1>1, <2>3 DEF Feed, Parsers
    <3>2. tool.buffer \o x \in Seq(Nat) /\ Len(tool.buffer \o x) = t + Len(x)
      BY <1>1, <1>3, ConcatProperties, ZenonT(30)
    <3>3. u \in Nat /\ u <= t + Len(x)
      <4> DEFINE y == tool.buffer \o x
      <4> HIDE DEF y, t, x
      <4>1. Len(Stripped(y)) \in Nat /\ Len(Stripped(y)) <= Len(y)
        BY <3>2, StrippedShorter DEF t, x, y
      <4>2. QED
        BY <3>1, <3>2, <4>1 DEF t, x, y
    <3>4. Len(x) # 0
      BY <1>3, <2>3, EmptySeq
    <3>5. i > 1
      BY <1>3, <3>4
    <3>6. QED
      BY <2>3, <3>1, <3>3, <3>5
  <2>4. QED
    BY <2>1, <2>2, <2>3 DEF Handle
<1>5. Size' = Size
  BY DEF Size
<1>6. /\ AtLeft(at) = 4 /\ b \in Nat /\ (b = 4 \/ (b = 5 /\ i > 1))
  BY <1>4 DEF AtLeft
<1>7. /\ Turns = 7 * n + 5 * c + 3 * t + s + 4
      /\ Turns' = 7 * n + 5 * (c - j) + 3 * u + s + b
  BY <1>4, <1>5, <1>6 DEF Turns
<1>8. u <= t + (i - 1)
  BY <1>3, <1>4
<1> HIDE DEF x, c, n, t, u, s, b
<1>9. c - j \in Int /\ 5 * (c - j) = 5 * c - 5 * j
  BY <1>1
<1>10. 3 * u <= 3 * t + 3 * j
  BY <1>1, <1>4, <1>8
<1>11. 3 * j + b < 5 * j + 4
  <2>1. b <= 5 /\ j >= 1
    BY <1>6
  <2>2. QED
    BY <1>6, <2>1
<1>12. QED
  BY <1>1, <1>4, <1>6, <1>7, <1>9, <1>10, <1>11

LEMMA TakeTagTurn ==
    ASSUME Held, Held', TakeTag
    PROVE  Turns' < Turns
<1> DEFINE b == think.buffer
           i == Min(Matches(b, Tags(think.close)))
           tag == CHOOSE t \in Tags(think.close) : StartsAt(b, i, t)
<1>1. /\ at = "think" /\ Matches(b, Tags(think.close)) # {} /\ Handle(Before(b, i))
      /\ think' = [buffer |-> From(b, i + 3), close |-> AfterTag(tag)]
      /\ answer' = answer /\ got' = got
  BY DEF TakeTag
<1>2. /\ answer.symbols \in Seq(STRING) /\ Holds(b, Passed) /\ think.close \in Readers
      /\ b \in Seq(Nat) /\ Len(b) \in Nat
  BY HeldFacts
<1>3. i \in 1 .. Len(b) /\ i + 2 <= Len(b)
  BY <1>1, <1>2, FirstTag
<1> HIDE DEF i, tag
<1> DEFINE j == i + 2
<1>4. i \in Nat \ {0} /\ j \in Nat /\ i - 1 <= j /\ j <= Len(b) /\ j > 0
      /\ i + 3 \in Nat \ {0} /\ i + 3 <= Len(b) + 1 /\ Len(b) - (i + 3) + 1 = Len(b) - j
  BY <1>2, <1>3
<1> HIDE DEF j
<1>5. Len(think'.buffer) = Len(b) - j
  BY <1>1, <1>2, <1>4, FromShorter
<1>6. QED
  BY <1>1, <1>4, <1>5, HandleCounts

LEMMA TakeAllTurn ==
    ASSUME Held, Held', TakeAll
    PROVE  Turns' < Turns
<1> DEFINE b == think.buffer
           i == HeldFrom(b, Tags(think.close))
<1>1. /\ at = "think" /\ Matches(b, Tags(think.close)) = {}
      /\ IF i = 1 THEN at' = "idle" /\ UNCHANGED <<tool, shown>> ELSE Handle(Before(b, i))
      /\ think' = [think EXCEPT !.buffer = From(b, i)]
      /\ answer' = answer /\ got' = got
  BY DEF TakeAll
<1>2. /\ answer.symbols \in Seq(STRING) /\ Holds(b, Passed) /\ think.close \in Readers
      /\ think \in [buffer : Seq(Nat), close : Readers] /\ b \in Seq(Nat) /\ Len(b) \in Nat
  BY HeldFacts
<1>3. i \in 1 .. Len(b) + 1
  BY <1>1, <1>2, HeldBack
<1> HIDE DEF i
<1> DEFINE j == i - 1
<1>4. i \in Nat \ {0} /\ i <= Len(b) + 1 /\ j \in Nat /\ i - 1 <= j /\ j <= Len(b) /\ Len(b) - i + 1 = Len(b) - j
  BY <1>2, <1>3
<1>5. think'.buffer = From(b, i)
  BY <1>1, <1>2
<1>6. Len(think'.buffer) = Len(b) - j
  BY <1>2, <1>4, <1>5, FromShorter
<1>7. CASE i = 1
  <2> DEFINE n == Size - got
             c == Len(b)
             t == Len(tool.buffer)
             s == StateLeft(tool.state)
  <2>1. n \in Nat /\ c \in Nat /\ t \in Nat /\ s \in Nat
    BY Counts, Numbers
  <2>2. Len(think'.buffer) = c
    BY <1>6, <1>7, <2>1
  <2>3. at' = "idle" /\ tool' = tool /\ Size' = Size
    BY <1>1, <1>7 DEF Size
  <2>4. Turns = 7 * n + 5 * c + 3 * t + s + 4 /\ Turns' = 7 * n + 5 * c + 3 * t + s + 3
    BY <1>1, <2>2, <2>3 DEF Turns, AtLeft
  <2> HIDE DEF n, c, t, s
  <2>5. QED
    BY <2>1, <2>4
<1>8. CASE i # 1
  <2>1. j > 0 /\ Handle(Before(b, i))
    BY <1>1, <1>4, <1>8
  <2> HIDE DEF j
  <2>2. QED
    BY <1>1, <1>4, <1>6, <2>1, HandleCounts
<1>9. QED
  BY <1>7, <1>8

LEMMA ReceiveTurn ==
    ASSUME Held, NEW m, Receive(m)
    PROVE  Turns' < Turns
<1> DEFINE n == Size - got
           c == Len(think.buffer)
           t == Len(tool.buffer)
           s == StateLeft(tool.state)
           x == [i \in 1 .. m |-> got + i]
<1>1. /\ at = "idle" /\ at' = "think" /\ m \in 1 .. n /\ got' = got + m
      /\ think' = [think EXCEPT !.buffer = @ \o x] /\ tool' = tool /\ Size' = Size
  BY DEF Receive, Size
<1>2. n \in Nat /\ c \in Nat /\ t \in Nat /\ s \in Nat /\ Size \in Nat /\ got \in Nat
  BY Counts, Numbers
<1>3. think \in [buffer : Seq(Nat), close : Readers] /\ think.buffer \in Seq(Nat)
  BY HeldFacts
<1>4. m \in Nat /\ m > 0 /\ Size - got' = n - m
  BY <1>1, <1>2
<1>5. x \in Seq(Nat) /\ Len(x) = m
  <2>1. \A i \in 1 .. m : got + i \in Nat
    BY <1>2, <1>4
  <2>2. x \in [1 .. m -> Nat]
    BY <2>1
  <2>3. QED
    BY <1>4, <2>2
<1>6. Len(think'.buffer) = c + m
  <2>1. think'.buffer = think.buffer \o x
    BY <1>1, <1>3
  <2> HIDE DEF x
  <2>2. QED
    BY <1>3, <1>5, <2>1, ConcatProperties
<1>7. /\ Turns = 7 * n + 5 * c + 3 * t + s + 3
      /\ Turns' = 7 * (n - m) + 5 * (c + m) + 3 * t + s + 4
  BY <1>1, <1>4, <1>6 DEF Turns, AtLeft
<1> HIDE DEF n, c, t, s, x
<1>8. QED
  BY <1>2, <1>4, <1>7

\* The end of the stream.
LEMMA EndTurn ==
    ASSUME Held, Held', EndOfStream \/ EndOfPuterStream \/ Flush
    PROVE  Turns' < Turns
<1> DEFINE n == Size - got
           c == Len(think.buffer)
           d == Len(think'.buffer)
           t == Len(tool.buffer)
           u == Len(tool'.buffer)
           s == StateLeft(tool.state)
<1>1. /\ n \in Nat /\ c \in Nat /\ t \in Nat /\ s \in Nat /\ tool \in Parsers
      /\ think \in [buffer : Seq(Nat), close : Readers] /\ think.buffer \in Seq(Nat)
      /\ tool.buffer \in Seq(Nat)
  BY Counts, Numbers, HeldFacts
<1>2. Size' = Size /\ got' = got
  BY DEF Size, EndOfStream, EndOfPuterStream, Flush
<1>3. CASE EndOfStream
  <2>1. at = "idle" /\ at' = "flush" /\ tool' = tool /\ think'.buffer = <<>>
    BY <1>1, <1>3 DEF EndOfStream, AllReceived
  <2>2. d = 0
    BY <2>1, NoneInOrder
  <2>3. /\ Turns = 7 * n + 5 * c + 3 * t + s + 3
        /\ Turns' = 7 * n + 5 * d + 3 * t + s + 2
    BY <1>2, <2>1 DEF Turns, AtLeft
  <2> HIDE DEF n, c, d, t, u, s
  <2>4. QED
    BY <1>1, <2>2, <2>3
<1>4. CASE EndOfPuterStream
  <2>1. /\ at = "idle" /\ at' = "rest" /\ think'.buffer = <<>> /\ think.buffer # <<>>
        /\ tool'.buffer = Stripped(tool.buffer \o think.buffer) /\ tool'.state = tool.state
    BY <1>1, <1>4 DEF EndOfPuterStream, AllReceived, Feed, Parsers
  <2>2. d = 0 /\ c # 0
    BY <1>1, <2>1, NoneInOrder, EmptySeq
  <2>3. tool.buffer \o think.buffer \in Seq(Nat) /\ Len(tool.buffer \o think.buffer) = t + c
    BY <1>1, ConcatProperties
  <2>4. u \in Nat /\ u <= t + c
    <3> DEFINE y == tool.buffer \o think.buffer
    <3> HIDE DEF y, t, c
    <3>1. Len(Stripped(y)) \in Nat /\ Len(Stripped(y)) <= Len(y)
      BY <2>3, StrippedShorter DEF y, t, c
    <3>2. QED
      BY <2>1, <2>3, <3>1 DEF y, t, c
  <2>5. /\ Turns = 7 * n + 5 * c + 3 * t + s + 3
        /\ Turns' = 7 * n + 5 * d + 3 * u + s + 3
    BY <1>2, <2>1 DEF Turns, AtLeft
  <2> HIDE DEF n, c, d, t, u, s
  <2>6. QED
    BY <1>1, <2>2, <2>4, <2>5
<1>5. CASE Flush
  <2>1. /\ at = "flush" /\ at' = "last" /\ think' = think
        /\ tool'.buffer = Stripped(tool.buffer) /\ tool'.state = tool.state
    BY <1>1, <1>5 DEF Flush, Parsers
  <2>2. u \in Nat /\ u <= t
    BY <1>1, <2>1, StrippedShorter
  <2>3. /\ Turns = 7 * n + 5 * c + 3 * t + s + 2
        /\ Turns' = 7 * n + 5 * c + 3 * u + s + 1
    BY <1>2, <2>1 DEF Turns, AtLeft
  <2> HIDE DEF n, c, d, t, u, s
  <2>4. QED
    BY <1>1, <2>2, <2>3
<1>6. QED
  BY <1>3, <1>4, <1>5

LEMMA TurnsTyped == Held => Turns \in Nat
<1>1. SUFFICES ASSUME Held PROVE Turns \in Nat
  OBVIOUS
<1> DEFINE n == Size - got
           c == Len(think.buffer)
           t == Len(tool.buffer)
           s == StateLeft(tool.state)
           a == AtLeft(at)
<1>2. n \in Nat /\ c \in Nat /\ t \in Nat /\ s \in Nat /\ a \in Nat
  BY <1>1, Counts, Numbers
<1>3. Turns = 7 * n + 5 * c + 3 * t + s + a
  BY DEF Turns
<1> HIDE DEF n, c, t, s, a
<1>4. QED
  BY <1>2, <1>3

LEMMA TurnsTypedNext == Held' => (Turns \in Nat)'
BY TurnsTyped, PTL

LEMMA TurnCounts ==
    ASSUME Held, Held', Next
    PROVE  Turns' < Turns
<1>1. CASE \E n \in 1 .. Len(answer.symbols) : Receive(n)
  BY <1>1, ReceiveTurn
<1>2. CASE TakeTag \/ TakeAll
  BY <1>2, TakeTagTurn, TakeAllTurn
<1>3. CASE TakeJsonCall \/ FindBullet \/ EndCall
  BY <1>3, TakeJsonCallTurn, FindBulletTurn, EndCallTurn
<1>4. CASE MatchFunction \/ GiveUpFunction
  BY <1>4, MatchFunctionTurn, GiveUpFunctionTurn
<1>5. CASE PassText \/ AwaitFunction \/ AwaitParameter
  BY <1>5, ReturnTurn
<1>6. CASE TakeParameter \/ FlushParameter
  BY <1>6, ParameterTurn
<1>7. CASE EndOfStream \/ EndOfPuterStream \/ Flush
  BY <1>7, EndTurn
<1>8. CASE FlushCall \/ FlushRest
  BY <1>8, LastTurn
<1>9. QED
  BY <1>1, <1>2, <1>3, <1>4, <1>5, <1>6, <1>7, <1>8 DEF Next

\* The loops of feed and flush end, on any answer and for any way of cutting it:
\* an answer of n symbols is done after at most 7 * n + 4 chunks and turns.  Every
\* continue of the tool parser's loop has made its buffer shorter or moved on in
\* the call it is at; a bullet that opens no call is passed on before the parser
\* looks again, and ThinkTagParser's loop goes on only after it has taken
\* something out.
THEOREM LoopsEnd == Spec => []TurnsBounded /\ TurnsUsedUp
<1>1. Init => TurnsBounded
  <2>1. SUFFICES ASSUME Init PROVE TurnsBounded
    OBVIOUS
  <2>2. Held
    BY <2>1, HeldAtFirst
  <2>3. Size \in Nat
    BY <2>2, Counts
  <2>4. got = 0 /\ at = "idle" /\ think.buffer = <<>> /\ tool.buffer = <<>> /\ tool.state = "Text"
    BY <2>1 DEF Init, FreshTool
  <2>5. Turns = 7 * (Size - 0) + 5 * 0 + 3 * 0 + 1 + 3
    BY <2>4, NoneInOrder DEF Turns, StateLeft, AtLeft
  <2>6. QED
    BY <2>3, <2>5 DEF TurnsBounded
<1>2. Held /\ TurnsBounded /\ Held' /\ [Next]_vars => TurnsBounded' /\ [Turns' < Turns]_vars
  <2>1. SUFFICES ASSUME Held, TurnsBounded, Held', [Next]_vars
                 PROVE  TurnsBounded' /\ [Turns' < Turns]_vars
    OBVIOUS
  <2>2. CASE UNCHANGED vars
    <3>1. Turns' = Turns /\ Size' = Size
      BY <2>2 DEF vars, Turns, Size
    <3>2. QED
      BY <2>1, <2>2, <3>1 DEF TurnsBounded
  <2>3. CASE Next
    <3>1. Turns' < Turns
      BY <2>1, <2>3, TurnCounts
    <3>2. Size' = Size
      BY <2>3 DEF Size, Next, Receive, TakeTag, TakeAll, TakeJsonCall, FindBullet, PassText, MatchFunction,
           GiveUpFunction, AwaitFunction, TakeParameter, EndCall, AwaitParameter, EndOfStream,
           EndOfPuterStream, Flush, FlushParameter, FlushCall, FlushRest, Continue, Return, Done
    <3>3. Turns' \in Nat
      BY <2>1, TurnsTypedNext
    <3>4. QED
      BY <2>1, <3>1, <3>2, <3>3, Counts DEF TurnsBounded
  <2>4. QED
    BY <2>1, <2>2, <2>3
<1>3. QED
  BY <1>1, <1>2, HeldAlways, PTL DEF Spec, TurnsUsedUp

(* ---------------------------- the text is kept --------------------------- *)

\* An answer in which no symbol opens a call or a control token.
Openers == {"bullet", "func", "bar"}
NoCalls == Range(answer.symbols) \cap Openers = {}

\* What of the first n symbols a reader takes for text; and what of them is shown
\* or on its way.
Spoken(n) == {i \in 1 .. n : i \notin Thinking /\ ~IsTag(i)}
TextSoFar == Range(shown.text) \cup Range(tool.text) \cup Range(tool.buffer)

TextKept ==
    /\ tool.state = "Text" /\ tool.tools = <<>> /\ shown.tools = <<>>
    /\ at \notin {"tool", "rest"} => tool.buffer = <<>>
    /\ TextSoFar = Spoken(Passed)

\* In such an answer there is nothing for the tool parser to find or hold back.
LEMMA NothingFound ==
    ASSUME NoCalls, answer.symbols \in Seq(STRING), NEW b \in Seq(Nat), Range(b) \subseteq 1 .. Size
    PROVE  /\ JsonCallIn(b).first = 0 /\ Bullets(b) = {}
           /\ HeldText(b) = Len(b) + 1 /\ InToken(b) = {}
<1>1. Len(b) \in Nat /\ DOMAIN b = 1 .. Len(b) /\ Range(b) = {b[i] : i \in 1 .. Len(b)}
  BY Typed
<1>2. DOMAIN answer.symbols = 1 .. Size /\ Range(answer.symbols) = {answer.symbols[i] : i \in 1 .. Size}
  BY WholeFacts DEF Range
<1>3. ASSUME NEW i \in 1 .. Len(b) PROVE Symbol(b, i) \notin Openers
  <2>1. b[i] \in 1 .. Size
    BY <1>1
  <2>2. Symbol(b, i) \in Range(answer.symbols)
    BY <1>2, <2>1 DEF Symbol
  <2>3. QED
    BY <2>2 DEF NoCalls
<1>4. Bullets(b) = {}
  <2>1. SUFFICES ASSUME NEW i \in 1 .. Len(b), StartsAt(b, i, <<"bullet">>) PROVE FALSE
    BY <1>1 DEF Bullets, Matches
  <2>2. Symbol(b, i + 1 - 1) = "bullet" /\ i + 1 - 1 = i
    BY <2>1, Start1
  <2>3. QED
    BY <1>3, <2>2 DEF Openers
<1>5. InToken(b) = {}
  <2>1. Matches(b, {ControlToken}) = {}
    <3>1. SUFFICES ASSUME NEW i \in 1 .. Len(b), StartsAt(b, i, ControlToken) PROVE FALSE
      BY <1>1 DEF Matches
    <3>2. ControlToken \in Seq({"<", "bar", "c>"}) /\ Len(ControlToken) = 3 /\ ControlToken[2] = "bar"
      BY DEF ControlToken
    <3>3. i \in Nat /\ i + 2 <= Len(b) /\ Symbol(b, i + 1) = "bar"
      BY <1>1, <3>1, <3>2, Start3
    <3>4. i + 1 \in 1 .. Len(b)
      BY <1>1, <3>3
    <3>5. QED
      BY <1>3, <3>3, <3>4 DEF Openers
  <2>2. QED
    BY <2>1 DEF InToken
<1>6. HeldText(b) = Len(b) + 1
  <2>1. LastMatch(b, <<"func", "tions.">>) = 0
    <3>1. ASSUME NEW i \in 1 .. Len(b), StartsAt(b, i, <<"func", "tions.">>) PROVE FALSE
      <4>1. Symbol(b, i + 1 - 1) = "func" /\ i + 1 - 1 = i
        BY <3>1, Start2
      <4>2. QED
        BY <1>3, <4>1 DEF Openers
    <3>2. Matches(b, {<<"func", "tions.">>}) = {}
      BY <1>1, <3>1 DEF Matches
    <3>3. QED
      BY <3>2 DEF LastMatch
  <2>2. LastMatch(b, <<"<", "bar">>) = 0
    <3>1. ASSUME NEW i \in 1 .. Len(b), StartsAt(b, i, <<"<", "bar">>) PROVE FALSE
      <4>1. i + 2 - 1 <= Len(b) /\ Symbol(b, i + 2 - 1) = "bar"
        BY <3>1, Start2
      <4>2. i + 2 - 1 \in 1 .. Len(b)
        BY <1>1, <4>1
      <4>3. QED
        BY <1>3, <4>1, <4>2 DEF Openers
    <3>2. Matches(b, {<<"<", "bar">>}) = {}
      BY <1>1, <3>1 DEF Matches
    <3>3. QED
      BY <3>2 DEF LastMatch
  <2>3. QED
    BY <2>1, <2>2 DEF HeldText
<1>7. JsonCallIn(b).first = 0
  <2> DEFINE ps == {<<"func", "tions.", c, "{">> : c \in JsonCalls}
             ends(i) == {j \in i + 4 .. Len(b) : Symbol(b, j) = "}"}
             starts == {i \in Matches(b, ps) : ends(i) # {}}
  <2>1. Matches(b, ps) = {}
    <3>1. SUFFICES ASSUME NEW i \in 1 .. Len(b), NEW c, StartsAt(b, i, <<"func", "tions.", c, "{">>)
                   PROVE  FALSE
      BY <1>1 DEF Matches
    <3>2. Symbol(b, i + 1 - 1) = "func" /\ i + 1 - 1 = i
      <4> DEFINE p == <<"func", "tions.", c, "{">>
      <4>1. 1 \in DOMAIN p /\ p[1] = "func"
        OBVIOUS
      <4>2. \A k \in DOMAIN p : Symbol(b, i + k - 1) = p[k]
        BY <3>1 DEF StartsAt
      <4> HIDE DEF p
      <4>3. QED
        BY <4>1, <4>2
    <3>3. QED
      BY <1>3, <3>2 DEF Openers
  <2>2. JsonCallIn(b) = IF starts = {} THEN [first |-> 0, last |-> 0]
                        ELSE [first |-> Min(starts), last |-> Max(ends(Min(starts)))]
    BY DEF JsonCallIn
  <2>3. starts = {}
    BY <2>1
  <2> HIDE DEF starts
  <2>4. QED
    BY <2>2, <2>3
<1>8. QED
  BY <1>4, <1>5, <1>6, <1>7

LEMMA NothingStripped ==
    ASSUME NEW b \in Seq(Nat), InToken(b) = {}
    PROVE  Range(Stripped(b)) = Range(b)
<1>1. PICK f \in [0 .. Len(b) -> Seq(Nat)] : IsStripping(b, f) /\ Stripped(b) = f[Len(b)]
  BY StrippingExists
<1> DEFINE N == Len(b)
           P == {n \in 0 .. N : Range(f[n]) = {b[i] : i \in 1 .. n}}
<1>2. N \in Nat /\ Range(b) = {b[i] : i \in 1 .. N} /\ \A i \in 1 .. N : b[i] \in Nat
  BY Typed
<1>3. f[0] = <<>>
  BY <1>1, <1>2 DEF IsStripping
<1>4. \A n \in 1 .. N : f[n] = Append(f[n - 1], b[n])
  <2>1. \A n \in 1 .. N : n \in 0 .. N /\ n # 0
    OBVIOUS
  <2>2. QED
    BY <1>1, <2>1 DEF IsStripping
<1>5. 0 \in P
  <2>1. {b[i] : i \in 1 .. 0} = {}
    OBVIOUS
  <2>2. QED
    BY <1>2, <1>3, <2>1, NoneInOrder
<1>6. ASSUME NEW n \in 1 .. N, n - 1 \in P PROVE n \in P
  <2>1. f[n - 1] \in Seq(Nat) /\ b[n] \in Nat /\ n \in 0 .. N /\ Range(f[n - 1]) = {b[i] : i \in 1 .. n - 1}
    <3>1. n - 1 \in 0 .. N /\ n \in 0 .. N
      BY <1>2
    <3>2. QED
      BY <1>2, <1>6, <3>1
  <2>2. Range(f[n]) = Range(f[n - 1]) \cup {b[n]}
    BY <1>4, <2>1, OneMore
  <2>3. \A i \in 1 .. n : i \in 1 .. n - 1 \/ i = n
    OBVIOUS
  <2>4. \A i \in 1 .. n - 1 : i \in 1 .. n
    OBVIOUS
  <2>5. Range(f[n]) = {b[i] : i \in 1 .. n}
    BY <2>1, <2>2, <2>3, <2>4
  <2>6. QED
    BY <2>1, <2>5
<1>7. N \in P
  <2>1. \A n \in 0 .. N : n \in P
    <3> HIDE DEF P
    <3>1. QED
      BY <1>2, <1>5, <1>6, Induction
  <2>2. QED
    BY <1>2, <2>1
<1>8. QED
  BY <1>1, <1>2, <1>7

\* What of the next symbols is text, if no tag is among them.
LEMMA SpokenInRun ==
    ASSUME answer.symbols \in Seq(STRING), NEW n \in Nat, NEW m \in Nat, n + m <= Size, Clean(n),
           \A k \in n + 1 .. n + m : ~ReadTag(Reading[n], k)
    PROVE  Spoken(n + m) = Spoken(n) \cup (IF Reading[n] = Outside THEN n + 1 .. n + m ELSE {})
<1>1. \A k \in n + 1 .. n + m : Reading[k - 1] = Reading[n] /\ ~IsTag(k)
  BY Run
<1>2. Size \in Nat /\ DOMAIN answer.symbols = 1 .. Size
  BY WholeFacts
<1>3. ASSUME NEW k \in n + 1 .. n + m PROVE k \notin Thinking <=> Reading[n] = Outside
  <2>1. k \in DOMAIN answer.symbols
    BY <1>2
  <2>2. QED
    BY <1>1, <2>1 DEF Thinking
<1>4. ASSUME NEW k \in Int
      PROVE  k \in 1 .. n + m <=> k \in 1 .. n \/ k \in n + 1 .. n + m
  OBVIOUS
<1>5. \A k \in n + 1 .. n + m : k \in Spoken(n + m) <=> Reading[n] = Outside
  BY <1>1, <1>3, <1>4 DEF Spoken
<1>6. \A k \in 1 .. n : k \in Spoken(n + m) <=> k \in Spoken(n)
  BY <1>4 DEF Spoken
<1>7. \A k \in Spoken(n + m) : k \in 1 .. n \/ k \in n + 1 .. n + m
  BY <1>4 DEF Spoken
<1>8. Spoken(n) \subseteq 1 .. n
  BY DEF Spoken
<1>9. QED
  BY <1>5, <1>6, <1>7, <1>8

\* And of a tag.
LEMMA SpokenInTag ==
    ASSUME NEW n \in Nat, \A k \in n + 1 .. n + 3 : IsTag(k)
    PROVE  Spoken(n + 3) = Spoken(n)
<1>1. \A k \in 1 .. n + 3 : k \in 1 .. n \/ k \in n + 1 .. n + 3
  OBVIOUS
<1>2. \A k \in 1 .. n : k \in 1 .. n + 3
  OBVIOUS
<1>3. QED
  BY <1>1, <1>2 DEF Spoken

LEMMA TextKeptNext ==
    ASSUME answer' = answer, NEW n, n = Passed',
           tool'.state = "Text", tool'.tools = <<>>, shown'.tools = <<>>,
           at' \notin {"tool", "rest"} => tool'.buffer = <<>>,
           Range(shown'.text) \cup Range(tool'.text) \cup Range(tool'.buffer) = Spoken(n)
    PROVE  TextKept'
<1>1. Reading' = Reading /\ Thinking' = Thinking
  BY SameReader
<1>2. \A i, c : ReadTag(c, i)' <=> ReadTag(c, i)
  BY DEF ReadTag, StartsAt, Symbol, Whole
<1>3. Spoken(Passed)' = Spoken(n)
  BY <1>1, <1>2 DEF Spoken, IsTag
<1>4. TextSoFar' = Range(shown'.text) \cup Range(tool'.text) \cup Range(tool'.buffer)
  BY DEF TextSoFar, Range
<1>5. QED
  BY <1>3, <1>4 DEF TextKept

LEMMA TextFacts ==
    ASSUME Held, TextKept, NoCalls
    PROVE  /\ tool \in Parsers /\ shown \in ShownTypes /\ answer.symbols \in Seq(STRING)
           /\ shown.text \in Seq(Nat) /\ tool.text \in Seq(Nat) /\ tool.buffer \in Seq(Nat)
           /\ Range(tool.buffer) \subseteq 1 .. Size
           /\ JsonCallIn(tool.buffer).first = 0 /\ Bullets(tool.buffer) = {}
           /\ HeldText(tool.buffer) = Len(tool.buffer) + 1
<1>1. /\ tool \in Parsers /\ shown \in ShownTypes /\ answer.symbols \in Seq(STRING)
      /\ Apart(shown, tool, Passed) /\ Passed \in 0 .. Size /\ Size \in Nat
  BY HeldFacts
<1>2. shown.text \in Seq(Nat) /\ tool.text \in Seq(Nat) /\ tool.buffer \in Seq(Nat)
  BY <1>1, ViewTyped
<1>3. Range(tool.buffer) \subseteq 1 .. Size
  <2>1. Range(tool.buffer) \subseteq 1 .. Passed
    BY <1>1 DEF Apart, Pieces
  <2>2. QED
    BY <1>1, <2>1
<1>4. QED
  BY <1>1, <1>2, <1>3, NothingFound

\* Fed text is added to the buffer as it is.
LEMMA TextFed ==
    ASSUME Held, TextKept, NoCalls, NEW x \in Seq(Nat), Range(x) \subseteq 1 .. Size, Feed(x)
    PROVE  /\ tool'.state = "Text" /\ tool'.tools = <<>> /\ tool'.text = tool.text
           /\ Range(tool'.buffer) = Range(tool.buffer) \cup Range(x)
<1>1. /\ tool \in Parsers /\ tool.buffer \in Seq(Nat) /\ Range(tool.buffer) \subseteq 1 .. Size
      /\ answer.symbols \in Seq(STRING)
  BY TextFacts
<1>2. tool.state = "Text" /\ tool.tools = <<>>
  BY DEF TextKept
<1> DEFINE y == tool.buffer \o x
<1>3. y \in Seq(Nat) /\ Range(y) = Range(tool.buffer) \cup Range(x)
  BY <1>1, Joined
<1>4. /\ tool'.state = tool.state /\ tool'.tools = tool.tools /\ tool'.text = tool.text
      /\ tool'.buffer = Stripped(y)
  BY <1>1 DEF Feed, Parsers
<1> HIDE DEF y
<1>5. Range(y) \subseteq 1 .. Size
  BY <1>1, <1>3
<1>6. Range(Stripped(y)) = Range(y)
  BY <1>1, <1>3, <1>5, NothingFound, NothingStripped
<1>7. QED
  BY <1>2, <1>3, <1>4, <1>6

\* ThinkTagParser passes text on, and takes thinking and tags out.
LEMMA TextHandled ==
    ASSUME Held, Read, TextKept, NoCalls, at = "think", NEW m \in 0 .. Len(think.buffer),
           \A k \in Passed + 1 .. Passed + m : ~ReadTag(think.close, k),
           \/ Handle(Before(think.buffer, m + 1))
           \/ m = 0 /\ UNCHANGED <<tool, shown>>
    PROVE  /\ tool'.state = "Text" /\ tool'.tools = <<>> /\ shown'.tools = <<>>
           /\ at' \notin {"tool", "rest"} => tool'.buffer = <<>>
           /\ Range(shown'.text) \cup Range(tool'.text) \cup Range(tool'.buffer) = Spoken(Passed + m)
           /\ Reading[Passed + m] = think.close /\ Clean(Passed + m)
<1> DEFINE b == think.buffer
           n == Passed
           x == Before(b, m + 1)
<1>1. /\ answer.symbols \in Seq(STRING) /\ Size \in Nat /\ b \in Seq(Nat) /\ Len(b) \in Nat
      /\ n \in Nat /\ Holds(b, n) /\ n + Len(b) <= Size /\ shown \in ShownTypes
  BY HeldFacts
<1>2. Reading[n] = think.close /\ Clean(n)
  BY DEF Read, ReadSoFar
<1>3. /\ tool.state = "Text" /\ tool.tools = <<>> /\ shown.tools = <<>> /\ tool.buffer = <<>>
      /\ Range(shown.text) \cup Range(tool.text) \cup Range(tool.buffer) = Spoken(n)
  BY DEF TextKept, TextSoFar
<1>4. m \in Nat /\ n + m <= Size /\ m + 1 \in 1 .. Len(b) + 1 /\ m + 1 - 1 = m
  BY <1>1
<1>5. /\ Reading[n + m] = think.close /\ Clean(n + m)
      /\ Spoken(n + m) = Spoken(n) \cup (IF think.close = Outside THEN n + 1 .. n + m ELSE {})
  <2> HIDE DEF n, b
  <2>1. \A k \in n + 1 .. n + m : ~ReadTag(Reading[n], k)
    BY <1>2 DEF n
  <2>2. QED
    BY <1>1, <1>2, <1>4, <2>1, Run, SpokenInRun
<1>6. x \in Seq(Nat) /\ Len(x) = m /\ Range(x) = n + 1 .. n + m
  <2> DEFINE i == m + 1
  <2>1. i \in 1 .. Len(b) + 1 /\ i - 1 = m /\ x = Before(b, i)
    BY <1>4
  <2>2. \A k \in 1 .. Len(b) : b[k] = n + k
    BY <1>1 DEF Holds
  <2> HIDE DEF b, i, x, n
  <2>3. x \in Seq(Nat) /\ Len(x) = i - 1 /\ Range(x) = {b[k] : k \in 1 .. i - 1}
    BY <1>1, <2>1, BeforeFacts
  <2>4. \A k \in 1 .. m : k \in 1 .. Len(b) /\ b[k] = n + k /\ n + k \in n + 1 .. n + m
    BY <1>1, <1>4, <2>2
  <2>5. ASSUME NEW l \in n + 1 .. n + m PROVE l \in {b[k] : k \in 1 .. m}
    <3>1. l - n \in 1 .. m /\ n + (l - n) = l
      BY <1>1
    <3>2. b[l - n] = l
      BY <2>4, <3>1
    <3>3. QED
      BY <3>1, <3>2
  <2>6. QED
    BY <2>1, <2>3, <2>4, <2>5
<1>7. m = 0 => n + 1 .. n + m = {}
  BY <1>1
<1> HIDE DEF x
<1>8. ASSUME tool' = tool, shown'.text = shown.text, shown'.tools = shown.tools, m = 0 \/ think.close # Outside
      PROVE  /\ tool'.state = "Text" /\ tool'.tools = <<>> /\ shown'.tools = <<>> /\ tool'.buffer = <<>>
             /\ Range(shown'.text) \cup Range(tool'.text) \cup Range(tool'.buffer) = Spoken(Passed + m)
  <2>1. Spoken(n + m) = Spoken(n)
    BY <1>5, <1>7, <1>8
  <2>2. QED
    BY <1>3, <1>8, <2>1
<1>9. CASE m = 0 /\ UNCHANGED <<tool, shown>>
  BY <1>5, <1>8, <1>9
<1>10. CASE x = <<>> /\ UNCHANGED <<tool, shown>>
  <2>1. m = 0
    BY <1>6, <1>10, NoneInOrder
  <2>2. QED
    BY <1>5, <1>8, <1>10, <2>1
<1>11. CASE think.close # Outside /\ shown' = [shown EXCEPT !.thinking = @ \o x] /\ UNCHANGED tool
  <2>1. shown'.text = shown.text /\ shown'.tools = shown.tools
    BY <1>1, <1>11 DEF ShownTypes
  <2>2. QED
    BY <1>5, <1>8, <1>11, <2>1
<1>12. CASE think.close = Outside /\ Feed(x) /\ at' = "tool" /\ UNCHANGED shown
  <2>1. Range(x) \subseteq 1 .. Size
    BY <1>1, <1>4, <1>6
  <2>2. /\ tool'.state = "Text" /\ tool'.tools = <<>> /\ tool'.text = tool.text
        /\ Range(tool'.buffer) = Range(tool.buffer) \cup Range(x)
    BY <1>6, <1>12, <2>1, TextFed
  <2>3. Spoken(n + m) = Spoken(n) \cup Range(x)
    BY <1>5, <1>6, <1>12
  <2>4. QED
    BY <1>3, <1>5, <1>12, <2>2, <2>3
<1>13. QED
  BY <1>9, <1>10, <1>11, <1>12 DEF Handle, x

LEMMA TakeTagKept ==
    ASSUME Held, Read, TextKept, NoCalls, TakeTag
    PROVE  TextKept'
<1> DEFINE b == think.buffer
           i == Min(Matches(b, Tags(think.close)))
           tag == CHOOSE t \in Tags(think.close) : StartsAt(b, i, t)
           n == Passed
<1>1. /\ Matches(b, Tags(think.close)) # {} /\ Handle(Before(b, i)) /\ at = "think"
      /\ think' = [buffer |-> From(b, i + 3), close |-> AfterTag(tag)]
      /\ answer' = answer /\ got' = got
  BY DEF TakeTag
<1>2. /\ answer.symbols \in Seq(STRING) /\ Size \in Nat /\ Holds(b, n) /\ think.close \in Readers
      /\ b \in Seq(Nat) /\ n \in Nat /\ Len(b) \in Nat /\ n + Len(b) = got /\ got \in 0 .. Size
  BY HeldFacts
<1>3. /\ i \in 1 .. Len(b) /\ i + 2 <= Len(b) /\ tag \in Tags(think.close)
      /\ StartsAt(Whole, n + i, tag) /\ \A k \in n + 1 .. n + i - 1 : ~ReadTag(think.close, k)
  BY <1>1, <1>2, FirstTag
<1> HIDE DEF i, tag, n
<1> DEFINE m == i - 1
           p == n + m
<1>4. /\ m \in 0 .. Len(b) /\ n + m = n + i - 1 /\ m + 1 = i
      /\ p \in Nat /\ p + 3 <= Size /\ p + 1 = n + i /\ i + 3 \in Nat \ {0}
      /\ got - (Len(b) - (i + 2)) = p + 3 /\ i + 2 \in 0 .. Len(b) /\ i + 2 + 1 = i + 3
  <2> DEFINE l == Len(b)
  <2>1. l \in Nat /\ n \in Nat /\ n + l = got /\ got \in 0 .. Size /\ Size \in Nat /\ i \in 1 .. l /\ i + 2 <= l
    BY <1>2, <1>3
  <2> HIDE DEF l
  <2>2. /\ m \in 0 .. l /\ n + m = n + i - 1 /\ m + 1 = i
        /\ p \in Nat /\ p + 3 <= Size /\ p + 1 = n + i /\ i + 3 \in Nat \ {0}
        /\ got - (l - (i + 2)) = p + 3 /\ i + 2 \in 0 .. l /\ i + 2 + 1 = i + 3
    BY <2>1
  <2>3. QED
    BY <2>2 DEF l
<1>5. Handle(Before(b, m + 1)) /\ \A k \in n + 1 .. n + m : ~ReadTag(think.close, k)
  BY <1>1, <1>3, <1>4
<1> HIDE DEF p, m
<1>6. /\ tool'.state = "Text" /\ tool'.tools = <<>> /\ shown'.tools = <<>>
      /\ at' \notin {"tool", "rest"} => tool'.buffer = <<>>
      /\ Range(shown'.text) \cup Range(tool'.text) \cup Range(tool'.buffer) = Spoken(p)
      /\ Reading[p] = think.close /\ Clean(p)
  BY <1>1, <1>4, <1>5, TextHandled DEF n, p
<1>7. StartsAt(Whole, p + 1, tag) /\ tag \in Tags(Reading[p])
  BY <1>3, <1>4, <1>6
<1>8. \A k \in p + 1 .. p + 3 : IsTag(k)
  BY <1>2, <1>4, <1>6, <1>7, Turn
<1>9. Spoken(p + 3) = Spoken(p)
  BY <1>4, <1>8, SpokenInTag
<1>10. Passed' = p + 3
  <2>1. think'.buffer = From(b, i + 2 + 1)
    BY <1>1, <1>4
  <2>2. Len(From(b, i + 2 + 1)) = Len(b) - (i + 2)
    BY <1>2, <1>4, RestHeld
  <2>3. QED
    BY <1>1, <1>4, <2>1, <2>2 DEF Passed
<1>11. QED
  BY <1>1, <1>6, <1>9, <1>10, TextKeptNext

LEMMA TakeAllKept ==
    ASSUME Held, Read, TextKept, NoCalls, TakeAll
    PROVE  TextKept'
<1> DEFINE b == think.buffer
           i == HeldFrom(b, Tags(think.close))
           n == Passed
<1>1. /\ Matches(b, Tags(think.close)) = {} /\ at = "think"
      /\ IF i = 1 THEN at' = "idle" /\ UNCHANGED <<tool, shown>> ELSE Handle(Before(b, i))
      /\ think' = [think EXCEPT !.buffer = From(b, i)]
      /\ answer' = answer /\ got' = got
  BY DEF TakeAll
<1>2. /\ answer.symbols \in Seq(STRING) /\ Size \in Nat /\ Holds(b, n) /\ think.close \in Readers
      /\ think \in [buffer : Seq(Nat), close : Readers]
      /\ b \in Seq(Nat) /\ n \in Nat /\ Len(b) \in Nat /\ n + Len(b) = got /\ got \in 0 .. Size
  BY HeldFacts
<1>3. i \in 1 .. Len(b) + 1 /\ \A k \in n + 1 .. n + i - 1 : ~ReadTag(think.close, k)
  BY <1>1, <1>2, HeldBack
<1> HIDE DEF i, n
<1> DEFINE m == i - 1
           p == n + m
<1>4. m \in 0 .. Len(b) /\ n + m = n + i - 1 /\ m + 1 = i /\ got - (Len(b) - m) = p /\ (i = 1 => m = 0)
  <2> DEFINE l == Len(b)
  <2>1. l \in Nat /\ n \in Nat /\ n + l = got /\ i \in 1 .. l + 1
    BY <1>2, <1>3
  <2> HIDE DEF l
  <2>2. m \in 0 .. l /\ n + m = n + i - 1 /\ m + 1 = i /\ got - (l - m) = p /\ (i = 1 => m = 0)
    BY <2>1
  <2>3. QED
    BY <2>2 DEF l
<1>5. /\ Handle(Before(b, m + 1)) \/ (m = 0 /\ UNCHANGED <<tool, shown>>)
      /\ \A k \in n + 1 .. n + m : ~ReadTag(think.close, k)
  BY <1>1, <1>3, <1>4
<1> HIDE DEF p, m
<1>6. /\ tool'.state = "Text" /\ tool'.tools = <<>> /\ shown'.tools = <<>>
      /\ at' \notin {"tool", "rest"} => tool'.buffer = <<>>
      /\ Range(shown'.text) \cup Range(tool'.text) \cup Range(tool'.buffer) = Spoken(p)
  BY <1>1, <1>4, <1>5, TextHandled DEF n, p
<1>7. Passed' = p
  <2>1. think'.buffer = From(b, m + 1)
    BY <1>1, <1>2, <1>4
  <2>2. Len(From(b, m + 1)) = Len(b) - m
    BY <1>2, <1>4, RestHeld
  <2>3. QED
    BY <1>1, <1>4, <2>1, <2>2 DEF Passed
<1>8. QED
  BY <1>1, <1>6, <1>7, TextKeptNext

LEMMA ReceiveKept ==
    ASSUME Held, TextKept, NEW n, Receive(n)
    PROVE  TextKept'
<1> DEFINE b == think.buffer
           c == [i \in 1 .. n |-> got + i]
<1>1. /\ n \in 1 .. Size - got /\ got' = got + n /\ think' = [think EXCEPT !.buffer = b \o c]
      /\ answer' = answer /\ shown' = shown /\ tool' = tool /\ at = "idle"
  BY DEF Receive, Size
<1>2. /\ think \in [buffer : Seq(Nat), close : Readers] /\ b \in Seq(Nat) /\ Len(b) \in Nat
      /\ got \in 0 .. Size /\ Size \in Nat
  BY HeldFacts
<1>3. n \in Nat /\ c \in Seq(Nat) /\ Len(c) = n
  <2>1. n \in Nat /\ \A i \in 1 .. n : got + i \in Nat
    BY <1>1, <1>2
  <2>2. QED
    BY <2>1
<1> HIDE DEF b, c
<1>4. Len(b \o c) = Len(b) + n
  BY <1>2, <1>3, Joined
<1>5. think'.buffer = b \o c
  BY <1>1, <1>2
<1>6. Passed' = Passed
  <2> DEFINE l == Len(b)
             k == Len(think'.buffer)
  <2>1. l \in Nat /\ k = l + n /\ n \in Nat /\ got \in Int /\ got' = got + n
    BY <1>1, <1>2, <1>3, <1>4, <1>5
  <2>2. Passed' = got' - k /\ Passed = got - l
    BY DEF Passed, b
  <2> HIDE DEF Passed, l, k
  <2>3. got' - k = got - l
    BY <2>1
  <2>4. QED
    BY <2>2, <2>3
<1>7. /\ tool.state = "Text" /\ tool.tools = <<>> /\ shown.tools = <<>> /\ tool.buffer = <<>>
      /\ Range(shown.text) \cup Range(tool.text) \cup Range(tool.buffer) = Spoken(Passed)
  BY <1>1 DEF TextKept, TextSoFar
<1>8. QED
  BY <1>1, <1>6, <1>7, TextKeptNext

\* At the end, what ThinkTagParser held back is no tag, but text or thinking.
LEMMA EndKept ==
    ASSUME Held, Read, TextKept, NoCalls, EndOfStream \/ EndOfPuterStream
    PROVE  TextKept'
<1> DEFINE b == think.buffer
           m == Len(b)
           n == Passed
<1>1. /\ at = "idle" /\ got = Size /\ think' = [think EXCEPT !.buffer = <<>>]
      /\ answer' = answer /\ got' = got
  BY DEF EndOfStream, EndOfPuterStream, AllReceived, Size
<1>2. /\ think \in [buffer : Seq(Nat), close : Readers] /\ shown \in ShownTypes /\ b \in Seq(Nat)
      /\ n \in Nat /\ m \in Nat /\ n + m = got /\ answer.symbols \in Seq(STRING) /\ Size \in Nat
      /\ Holds(b, n) /\ shown.text \in Seq(Nat)
  BY HeldFacts DEF ShownTypes
<1>3. Reading[n] = think.close /\ Clean(n)
  BY DEF Read, ReadSoFar
<1>4. /\ tool.state = "Text" /\ tool.tools = <<>> /\ shown.tools = <<>> /\ tool.buffer = <<>>
      /\ Range(shown.text) \cup Range(tool.text) \cup Range(tool.buffer) = Spoken(n)
  BY <1>1 DEF TextKept, TextSoFar
<1>5. Range(b) = n + 1 .. n + m
  BY <1>2, HeldSymbols
<1>6. \A k \in n + 1 .. n + m : ~ReadTag(think.close, k)
  BY <1>1, NoTagHeld
<1>7. Passed' = n + m
  <2>1. think'.buffer = <<>> /\ Len(think'.buffer) = 0 /\ got \in Nat
    BY <1>1, <1>2, NoneInOrder
  <2>2. QED
    BY <1>1, <1>2, <2>1 DEF Passed
<1> HIDE DEF b, m, n
<1>8. Spoken(n + m) = Spoken(n) \cup (IF think.close = Outside THEN n + 1 .. n + m ELSE {})
  <2>1. n + m <= Size
    BY <1>1, <1>2
  <2>2. QED
    BY <1>2, <1>3, <1>6, <2>1, SpokenInRun
<1>9. CASE EndOfStream
  <2>1. /\ tool' = tool /\ shown' = IF think.close = Outside THEN [shown EXCEPT !.text = @ \o b]
                                    ELSE [shown EXCEPT !.thinking = @ \o b]
    BY <1>9 DEF EndOfStream, b
  <2>2. shown'.tools = <<>>
    BY <1>2, <1>4, <2>1 DEF ShownTypes
  <2>3. Range(shown'.text) = Range(shown.text) \cup (IF think.close = Outside THEN n + 1 .. n + m ELSE {})
    <3>1. CASE think.close = Outside
      <4>1. shown'.text = shown.text \o b
        BY <1>2, <2>1, <3>1 DEF ShownTypes
      <4>2. QED
        BY <1>2, <1>5, <3>1, <4>1, Joined
    <3>2. CASE think.close # Outside
      <4>1. shown'.text = shown.text
        BY <1>2, <2>1, <3>2 DEF ShownTypes
      <4>2. QED
        BY <3>2, <4>1
    <3>3. QED
      BY <3>1, <3>2
  <2>4. Range(shown'.text) \cup Range(tool'.text) \cup Range(tool'.buffer) = Spoken(n + m)
    BY <1>4, <1>8, <2>1, <2>3
  <2>5. QED
    BY <1>1, <1>4, <1>7, <2>1, <2>2, <2>4, TextKeptNext
<1>10. CASE EndOfPuterStream
  <2>1. think.close = Outside /\ Feed(b) /\ at' = "rest" /\ shown' = shown
    BY <1>10 DEF EndOfPuterStream, b
  <2>2. Range(b) \subseteq 1 .. Size
    BY <1>1, <1>2, <1>5
  <2>3. /\ tool'.state = "Text" /\ tool'.tools = <<>> /\ tool'.text = tool.text
        /\ Range(tool'.buffer) = Range(tool.buffer) \cup Range(b)
    BY <1>2, <2>1, <2>2, TextFed
  <2>4. Range(shown'.text) \cup Range(tool'.text) \cup Range(tool'.buffer) = Spoken(n + m)
    BY <1>4, <1>5, <1>8, <2>1, <2>3
  <2>5. QED
    BY <1>1, <1>4, <1>7, <2>1, <2>3, <2>4, TextKeptNext
<1>11. QED
  BY <1>9, <1>10

\* The tool parser passes all of it on.
LEMMA PassTextKept ==
    ASSUME Held, TextKept, NoCalls, PassText
    PROVE  TextKept'
<1> DEFINE b == tool.buffer
           x == Before(b, Len(b) + 1)
           y == tool.text \o x
<1>1. /\ tool \in Parsers /\ shown \in ShownTypes /\ shown.text \in Seq(Nat) /\ tool.text \in Seq(Nat)
      /\ b \in Seq(Nat) /\ HeldText(b) = Len(b) + 1 /\ Len(b) \in Nat
  BY TextFacts, Counts
<1>2. Return(Filter(tool, Len(b) + 1)) /\ at \in {"tool", "rest"}
  BY <1>1 DEF PassText, In
<1>3. /\ tool.state = "Text" /\ tool.tools = <<>> /\ shown.tools = <<>>
      /\ Range(shown.text) \cup Range(tool.text) \cup Range(b) = Spoken(Passed)
  BY DEF TextKept, TextSoFar
<1>4. x = b
  <2>1. Len(b) + 1 - 1 = Len(b)
    BY <1>1
  <2>2. QED
    BY <1>1, <2>1, SubSeqFull DEF Before
<1>5. From(b, Len(b) + 1) = <<>>
  <2> DEFINE i == Len(b) + 1
  <2>1. i \in Nat \ {0} /\ ~ (i <= Len(b))
    BY <1>1
  <2> HIDE DEF i
  <2>2. From(b, i) \in Seq(Nat) /\ Len(From(b, i)) = 0
    BY <1>1, <2>1, FromFacts
  <2>3. QED
    BY <2>2, EmptySeq DEF i
<1> DEFINE q == Filter(tool, Len(b) + 1)
<1>6. /\ q.text = y /\ q.tools = <<>> /\ q.state = "Text" /\ q.buffer = <<>>
      /\ q \in [state : States, buffer : {<<>>}, name : Nat, parameters : Inputs, text : {y}, tools : {<<>>}]
  BY <1>1, <1>3, <1>5 DEF Filter, Parsers
<1> HIDE DEF q, x, y
<1>7. /\ tool'.state = "Text" /\ tool'.tools = <<>> /\ tool'.text = <<>> /\ tool'.buffer = <<>>
      /\ shown'.text = shown.text \o y /\ shown'.tools = <<>> \o <<>>
      /\ answer' = answer /\ Passed' = Passed
  BY <1>1, <1>2, <1>3, <1>6 DEF Return, ShownTypes, Passed, q
<1>8. Range(shown'.text) = Range(shown.text) \cup Range(tool.text) \cup Range(b)
  <2>1. y \in Seq(Nat) /\ Range(y) = Range(tool.text) \cup Range(b)
    BY <1>1, <1>4, Joined DEF y
  <2>2. QED
    BY <1>1, <1>7, <2>1, Joined
<1>9. Range(shown'.text) \cup Range(tool'.text) \cup Range(tool'.buffer) = Spoken(Passed)
  BY <1>3, <1>7, <1>8, NoneInOrder
<1>10. shown'.tools = <<>>
  BY <1>7
<1>11. QED
  BY <1>7, <1>9, <1>10, TextKeptNext

LEMMA FlushKept ==
    ASSUME Held, TextKept, NoCalls, Flush \/ FlushRest
    PROVE  TextKept'
<1>1. /\ tool \in Parsers /\ shown \in ShownTypes /\ tool.buffer \in Seq(Nat)
      /\ JsonCallIn(tool.buffer).first = 0
  BY TextFacts
<1>2. /\ tool.state = "Text" /\ tool.tools = <<>> /\ shown.tools = <<>> /\ tool.buffer = <<>>
      /\ Range(shown.text) \cup Range(tool.text) \cup Range(tool.buffer) = Spoken(Passed)
  BY DEF TextKept, TextSoFar, Flush, FlushRest
<1>3. answer' = answer /\ Passed' = Passed
  BY DEF Flush, FlushRest, Done, Passed
<1>4. CASE Flush
  <2>1. tool' = [tool EXCEPT !.buffer = Stripped(@)] /\ shown' = shown
    BY <1>4 DEF Flush
  <2>2. Stripped(<<>>) = <<>>
    <3>1. Stripped(<<>>) \in Seq(Nat) /\ Len(Stripped(<<>>)) \in Nat /\ Len(Stripped(<<>>)) <= 0
      BY NoneInOrder, StrippedFacts, StrippedShorter
    <3>2. QED
      BY <3>1, EmptySeq
  <2>3. tool' = tool
    BY <1>1, <1>2, <2>1, <2>2 DEF Parsers
  <2>4. QED
    BY <1>2, <1>3, <2>1, <2>3, TextKeptNext
<1>5. CASE FlushRest
  <2>1. Done(tool)
    BY <1>1, <1>5 DEF FlushRest
  <2>2. /\ tool' = [tool EXCEPT !.tools = <<>>] /\ shown' = [shown EXCEPT !.tools = <<>> \o <<>>]
    BY <1>2, <2>1 DEF Done
  <2>3. tool' = tool /\ shown' = shown
    BY <1>1, <1>2, <2>2 DEF Parsers, ShownTypes
  <2>4. QED
    BY <1>2, <1>3, <2>3, TextKeptNext
<1>6. QED
  BY <1>4, <1>5

LEMMA TextStays ==
    ASSUME Held, Read, TextKept, NoCalls, Next
    PROVE  TextKept'
<1>1. tool.state = "Text" /\ Bullets(tool.buffer) = {} /\ JsonCallIn(tool.buffer).first = 0
  BY TextFacts DEF TextKept
<1>2. ~ (TakeJsonCall \/ FindBullet)
  BY <1>1 DEF TakeJsonCall, FindBullet
<1>3. ~ (MatchFunction \/ GiveUpFunction \/ AwaitFunction \/ TakeParameter \/ EndCall \/ AwaitParameter)
  BY <1>1 DEF MatchFunction, GiveUpFunction, AwaitFunction, TakeParameter, EndCall, AwaitParameter, In
<1>4. ~ (FlushParameter \/ FlushCall)
  BY <1>1 DEF FlushParameter, FlushCall
<1>5. CASE \E n \in 1 .. Len(answer.symbols) : Receive(n)
  BY <1>5, ReceiveKept
<1>6. CASE TakeTag \/ TakeAll
  BY <1>6, TakeTagKept, TakeAllKept
<1>7. CASE PassText
  BY <1>7, PassTextKept
<1>8. CASE EndOfStream \/ EndOfPuterStream
  BY <1>8, EndKept
<1>9. CASE Flush \/ FlushRest
  BY <1>9, FlushKept
<1>10. QED
  BY <1>2, <1>3, <1>4, <1>5, <1>6, <1>7, <1>8, <1>9 DEF Next

LEMMA TextAtFirst == Init => TextKept
<1>1. SUFFICES ASSUME Init PROVE TextKept
  OBVIOUS
<1>2. Held
  BY <1>1, HeldAtFirst
<1>3. /\ at = "idle" /\ got = 0 /\ think.buffer = <<>> /\ shown.text = <<>> /\ shown.tools = <<>>
      /\ tool.state = "Text" /\ tool.buffer = <<>> /\ tool.text = <<>> /\ tool.tools = <<>>
  BY <1>1 DEF Init, FreshTool
<1>4. Passed = 0
  <2>1. Len(think.buffer) = 0
    BY <1>3, NoneInOrder
  <2>2. got = 0 /\ Passed = got - Len(think.buffer)
    BY <1>3 DEF Passed
  <2>3. QED
    BY <2>1, <2>2
<1>5. Spoken(0) = {}
  <2>1. 1 .. 0 = {}
    OBVIOUS
  <2>2. QED
    BY <2>1 DEF Spoken
<1>6. TextSoFar = {}
  BY <1>3, NoneInOrder DEF TextSoFar
<1>7. QED
  BY <1>3, <1>4, <1>5, <1>6 DEF TextKept

\* A sequence in order is known by what is in it.
LEMMA OneOrder ==
    ASSUME NEW s \in Seq(Nat), NEW t \in Seq(Nat), InOrder(s), InOrder(t), Range(s) = Range(t)
    PROVE  s = t
<1> DEFINE Agree(i) == i <= Len(t) /\ s[i] = t[i]
           Bad == {i \in 1 .. Len(s) : ~Agree(i)}
<1>1. /\ Len(s) \in Nat /\ Range(s) = {s[i] : i \in 1 .. Len(s)} /\ \A i \in 1 .. Len(s) : s[i] \in Nat
      /\ Len(t) \in Nat /\ Range(t) = {t[i] : i \in 1 .. Len(t)} /\ \A i \in 1 .. Len(t) : t[i] \in Nat
  BY Typed
<1>2. Bad = {}
  <2>1. SUFFICES ASSUME Bad # {} PROVE FALSE
    OBVIOUS
  <2>2. Bad \in SUBSET Nat
    OBVIOUS
  <2>3. PICK i \in Bad : \A k \in Bad : i <= k
    <3> HIDE DEF Bad
    <3>1. QED
      BY <2>1, <2>2, LeastNumber
  <2>4. i \in 1 .. Len(s) /\ ~Agree(i)
    BY <2>3
  <2>5. \A k \in 1 .. Len(s) : k < i => k <= Len(t) /\ s[k] = t[k]
    <3>1. ASSUME NEW k \in 1 .. Len(s), k < i PROVE Agree(k)
      <4>1. k \notin Bad
        BY <2>3, <3>1
      <4>2. QED
        BY <4>1
    <3>2. QED
      BY <3>1
  <2>6. PICK j \in 1 .. Len(t) : s[i] = t[j]
    BY <1>1, <2>4
  <2>7. j >= i
    <3>1. SUFFICES ASSUME j < i PROVE FALSE
      BY <2>4
    <3>2. j \in 1 .. Len(s)
      BY <1>1, <2>4, <3>1
    <3>3. s[j] = t[j]
      BY <2>5, <3>1, <3>2
    <3>4. s[j] = s[i]
      BY <2>6, <3>3
    <3>5. QED
      BY <2>4, <3>1, <3>2, <3>4, OrderOfPlaces
  <2>8. i \in 1 .. Len(t)
    BY <1>1, <2>4, <2>7
  <2>9. PICK l \in 1 .. Len(s) : t[i] = s[l]
    BY <1>1, <2>8
  <2>10. l >= i
    <3>1. SUFFICES ASSUME l < i PROVE FALSE
      BY <2>4
    <3>2. l \in 1 .. Len(t) /\ s[l] = t[l]
      BY <1>1, <2>5, <3>1
    <3>3. t[l] = t[i]
      BY <2>9, <3>2
    <3>4. QED
      BY <2>8, <3>1, <3>2, <3>3, OrderOfPlaces
  <2>11. i = l
    <3>1. SUFFICES ASSUME i < l PROVE FALSE
      BY <2>4, <2>10
    <3>2. s[i] < s[l]
      BY <2>4, <3>1, OrderOfPlaces
    <3>3. t[j] < t[i]
      BY <2>6, <2>9, <3>2
    <3>4. j < i
      BY <2>8, <3>3, OrderOfPlaces
    <3>5. QED
      BY <2>4, <2>7, <3>4
  <2>12. QED
    BY <2>4, <2>8, <2>9, <2>11
<1>3. \A i \in 1 .. Len(s) : i \in 1 .. Len(t) /\ s[i] = t[i]
  <2>1. \A i \in 1 .. Len(s) : Agree(i)
    BY <1>2
  <2>2. QED
    BY <1>1, <2>1
<1>4. Len(t) <= Len(s)
  <2>1. SUFFICES ASSUME Len(s) < Len(t) PROVE FALSE
    BY <1>1
  <2> DEFINE n == Len(t)
  <2>2. n \in 1 .. Len(t)
    BY <1>1, <2>1
  <2>3. PICK k \in 1 .. Len(s) : t[n] = s[k]
    BY <1>1, <2>2
  <2>4. k \in 1 .. Len(t) /\ s[k] = t[k] /\ k < n
    BY <1>1, <1>3, <2>1
  <2>5. QED
    BY <2>2, <2>3, <2>4, OrderOfPlaces
<1>5. Len(s) <= Len(t)
  <2>1. CASE Len(s) = 0
    BY <1>1, <2>1
  <2>2. CASE Len(s) # 0
    <3>1. Len(s) \in 1 .. Len(s)
      BY <1>1, <2>2
    <3>2. QED
      BY <1>1, <1>3, <3>1
  <2>3. QED
    BY <2>1, <2>2
<1>6. Len(s) = Len(t)
  BY <1>1, <1>4, <1>5
<1>7. QED
  BY <1>3, <1>6, SeqEqual

\* The places of a set, in order; and what a reader takes for text.
Listed(S) == CHOOSE s \in Seq(Nat) : InOrder(s) /\ Range(s) = S
TextPlaces == {i \in DOMAIN answer.symbols : i \notin Thinking /\ ~IsTag(i)}

\* What the client has got in the end is told by the answer alone.
ByTheAnswerAlone ==
    at = "ended" =>
      /\ shown.thinking = Listed(Thinking)
      /\ NoCalls => shown.text = Listed(TextPlaces) /\ shown.tools = <<>>

LEMMA ListedOnce ==
    ASSUME NEW s \in Seq(Nat), InOrder(s)
    PROVE  s = Listed(Range(s))
<1> DEFINE t == Listed(Range(s))
<1>1. t \in Seq(Nat) /\ InOrder(t) /\ Range(t) = Range(s)
  BY DEF Listed
<1> HIDE DEF t
<1>2. QED
  BY <1>1, OneOrder DEF t

\* How the chunks cut an answer does not matter to its thinking, for any answer,
\* nor to its text, for one with nothing in it that opens a call or a control
\* token: then all text and no tool is shown, whatever tags, stray tags and
\* cut-off tags there are.  (With calls chunks may matter; ChunksDoNotMatter says
\* of which answers they do not.)
THEOREM ChunksDoNotMatterWithoutCalls == Spec => []ByTheAnswerAlone
<1> DEFINE Inv == NoCalls => TextKept
<1>1. Init => Inv
  BY TextAtFirst
<1>2. Held /\ Read /\ Inv /\ [Next]_vars => Inv'
  <2>1. SUFFICES ASSUME Held, Read, NoCalls => TextKept, [Next]_vars, NoCalls' PROVE TextKept'
    OBVIOUS
  <2>2. CASE UNCHANGED vars
    <3>1. /\ answer' = answer /\ think' = think /\ got' = got /\ shown' = shown /\ tool' = tool /\ at' = at
      BY <2>2 DEF vars
    <3>2. Passed' = Passed /\ NoCalls
      BY <2>1, <3>1 DEF Passed, NoCalls
    <3>3. TextKept
      BY <2>1, <3>2
    <3>4. QED
      BY <3>1, <3>2, <3>3, TextKeptNext DEF TextKept, TextSoFar
  <2>3. CASE Next
    <3>1. answer' = answer
      BY <2>3 DEF Next, Receive, TakeTag, TakeAll, TakeJsonCall, FindBullet, PassText, MatchFunction,
           GiveUpFunction, AwaitFunction, TakeParameter, EndCall, AwaitParameter, EndOfStream,
           EndOfPuterStream, Flush, FlushParameter, FlushCall, FlushRest, Continue, Return, Done
    <3>2. NoCalls
      BY <2>1, <3>1 DEF NoCalls
    <3>3. QED
      BY <2>1, <2>3, <3>2, TextStays
  <2>4. QED
    BY <2>1, <2>2, <2>3
<1>3. Held /\ NothingInvented /\ ThinkingSplit /\ Inv => ByTheAnswerAlone
  <2>1. SUFFICES ASSUME Held, NothingInvented, ThinkingSplit, NoCalls => TextKept, at = "ended"
                 PROVE  /\ shown.thinking = Listed(Thinking)
                        /\ NoCalls => shown.text = Listed(TextPlaces) /\ shown.tools = <<>>
    BY DEF ByTheAnswerAlone
  <2>2. Passed = Size /\ Size \in Nat /\ DOMAIN answer.symbols = 1 .. Size
    BY <2>1, AllPassed
  <2>3. shown.thinking \in Seq(Nat) /\ shown.text \in Seq(Nat)
    BY <2>1, HeldFacts DEF ShownTypes
  <2>4. shown.thinking = Listed(Thinking)
    BY <2>1, <2>3, ListedOnce DEF ThinkingSplit
  <2>5. ASSUME NoCalls PROVE shown.text = Listed(TextPlaces) /\ shown.tools = <<>>
    <3>1. /\ shown.tools = <<>> /\ tool.buffer = <<>> /\ tool.text = <<>>
          /\ Range(shown.text) \cup Range(tool.text) \cup Range(tool.buffer) = Spoken(Size)
      BY <2>1, <2>2, <2>5 DEF TextKept, TextSoFar, Held, FoundHanded
    <3>2. Spoken(Size) = TextPlaces
      BY <2>2 DEF Spoken, TextPlaces
    <3>3. Range(shown.text) = TextPlaces
      BY <3>1, <3>2, NoneInOrder
    <3>4. InOrder(shown.text)
      BY <2>1 DEF NothingInvented
    <3>5. QED
      BY <2>3, <3>1, <3>3, <3>4, ListedOnce
  <2>6. QED
    BY <2>4, <2>5
<1> HIDE DEF Inv
<1>4. QED
  BY <1>1, <1>2, <1>3, HeldAlways, ReadAlways, OnlyTheAnswerIsShown, ThinkingIsRelocated, PTL DEF Spec

=============================================================================
