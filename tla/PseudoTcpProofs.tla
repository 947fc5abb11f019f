-------------------------- MODULE PseudoTcpProofs --------------------------
(***************************************************************************)
(* Theorems about PseudoTcp, for every value of its constants.             *)
(***************************************************************************)
EXTENDS PseudoTcp, SequenceTheorems, WellFoundedInduction, TLAPS

----------------------------------------------------------------------------
(* Numbers                                                                 *)

\* What the proofs use of the constants.
LEMMA Constants ==
  /\ MssLevels \subseteq Nat /\ MssLevels # {} /\ \A m \in MssLevels : m > 0
  /\ WndUnit \in Nat /\ WndUnit > 0
  /\ RcvBufLen \in Nat /\ SndBufLen \in Nat
  /\ WndUnit <= RcvBufLen /\ RcvBufLen < SndBufLen
<1>1. MssLevels \subseteq Nat /\ \A m \in MssLevels : m > 0
  BY PseudoTcpAssumption
<1> QED
  BY <1>1, PseudoTcpAssumption

\* A set of natural numbers that is not empty has a least element.
LEMMA LeastNat ==
  ASSUME NEW T, T \subseteq Nat, T # {}
  PROVE  \E m \in T : \A k \in T : m <= k
<1> DEFINE below == {ss \in Nat \X Nat : ss[1] < ss[2]}
<1>1. OpToRel(<, Nat) = below
  BY Zenon DEF OpToRel
<1>2. \E m \in T : \A k \in T : ~ (<<k, m>> \in OpToRel(<, Nat))
  BY WFMin, NatLessThanWellFounded, Zenon
<1>3. PICK m \in T : \A k \in T : ~(<<k, m>> \in below)
  BY <1>1, <1>2, Zenon
<1>4. \A k \in T : ~(k < m)
  BY <1>3
<1> QED
  BY <1>4

\* Min of a set of natural numbers, and Max of one that is bounded.
LEMMA MinOf ==
  ASSUME NEW T, T \subseteq Nat, T # {}
  PROVE  Min(T) \in T /\ \A k \in T : Min(T) <= k
<1>1. \E m \in T : \A k \in T : m <= k
  BY LeastNat
<1> QED
  BY <1>1, Zenon DEF Min

LEMMA MaxOf ==
  ASSUME NEW T, T \subseteq Nat, T # {}, NEW b \in Nat, \A k \in T : k <= b
  PROVE  Max(T) \in T /\ \A k \in T : k <= Max(T)
<1> DEFINE gaps == {b - k : k \in T}
<1>1. gaps \subseteq Nat /\ gaps # {}
  <2>1. \A k \in T : b - k \in Nat
    OBVIOUS
  <2> QED
    BY <2>1, Zenon
<1>2. PICK g \in gaps : \A h \in gaps : g <= h
  <2> HIDE DEF gaps
  <2> QED
    BY <1>1, LeastNat
<1>3. PICK m \in T : g = b - m
  BY <1>2
<1>4. \A k \in T : m >= k
  <2> TAKE k \in T
  <2>1. b - k \in gaps
    OBVIOUS
  <2>2. b - m <= b - k
    BY <1>2, <1>3, <2>1
  <2> QED
    BY <2>2
<1>5. Max(T) \in T /\ \A k \in T : Max(T) >= k
  BY <1>4, Zenon DEF Max
<1> QED
  BY <1>5

LEMMA OfTwo ==
  ASSUME NEW a \in Int, NEW b \in Int
  PROVE  /\ Min({a, b}) = IF a <= b THEN a ELSE b
         /\ Max({a, b}) = IF a <= b THEN b ELSE a
  BY DEF Min, Max

\* The window in a packet, in units.
LEMMA Quotient ==
  ASSUME NEW a \in Nat, NEW c \in Nat, c > 0
  PROVE  a \div c \in Nat /\ (a \div c) * c <= a /\ (c <= a => a \div c > 0)
  OBVIOUS

LEMMA Product ==
  ASSUME NEW a \in Nat, NEW c \in Nat, c > 0, NEW u \in {1, c}
  PROVE  a * u \in Nat /\ a * u <= a * c /\ (a > 0 => a * u > 0) /\ a * c \in Nat
<1>1. a * 1 = a /\ a <= a * c
  OBVIOUS
<1>2. a > 0 => a * c > 0
  OBVIOUS
<1>3. a * c \in Nat
  OBVIOUS
<1>4. u = 1 \/ u = c
  OBVIOUS
<1> QED
  BY <1>1, <1>2, <1>3, <1>4

----------------------------------------------------------------------------
(* The list of segments                                                    *)

SegEnd(g) == g.seq + g.len

\* The segments of L follow each other from sequence number a to b, and nxt lies
\* between the ones that were sent and the ones that were not.
Listed(L, a, b, nxt) ==
  /\ L = <<>> => a = b
  /\ L # <<>> => L[1].seq = a /\ SegEnd(L[Len(L)]) = b
  /\ \A i \in 1..(Len(L) - 1) : L[i + 1].seq = SegEnd(L[i])
  /\ \A i \in 1..Len(L) : L[i].len > 0
  /\ \A i \in 1..Len(L) : IF L[i].xmit > 0 THEN SegEnd(L[i]) <= nxt ELSE nxt <= L[i].seq

\* A segment that was sent ends at n.
EndsAt(L, n) == \E i \in 1..Len(L) : SegEnd(L[i]) = n /\ L[i].xmit > 0

LEMMA SegmentTypes ==
  ASSUME NEW L \in Seq(SSegment)
  PROVE  /\ Len(L) \in Nat
         /\ \A i \in 1..Len(L) :
              /\ L[i] \in SSegment /\ L[i].seq \in Nat /\ L[i].len \in Nat /\ L[i].xmit \in Nat
              /\ L[i].ctl \in BOOLEAN /\ SegEnd(L[i]) \in Nat
<1>1. \A i \in 1..Len(L) : L[i] \in SSegment
  OBVIOUS
<1>2. \A g \in SSegment : /\ g.seq \in Nat /\ g.len \in Nat /\ g.xmit \in Nat /\ g.ctl \in BOOLEAN
                          /\ SegEnd(g) \in Nat
  BY DEF SSegment, SegEnd
<1> QED
  BY <1>1, <1>2

\* Later segments lie behind earlier ones.
LEMMA Ordered ==
  ASSUME NEW L \in Seq(SSegment), NEW a, NEW b, NEW nxt, Listed(L, a, b, nxt)
  PROVE  \A i \in 1..Len(L) : \A j \in (i + 1)..Len(L) : SegEnd(L[i]) <= L[j].seq
<1> TAKE i \in 1..Len(L)
<1> DEFINE bad == {j \in (i + 1)..Len(L) : ~(SegEnd(L[i]) <= L[j].seq)}
<1> SUFFICES ASSUME bad # {} PROVE FALSE
  OBVIOUS
<1>1. bad \subseteq Nat
  BY SegmentTypes
<1>2. PICK j \in bad : \A k \in bad : j <= k
  <2> HIDE DEF bad
  <2> QED
    BY <1>1, LeastNat
<1>3. /\ Len(L) \in Nat /\ j \in Nat /\ j > i /\ j <= Len(L) /\ i \in Nat /\ i > 0
      /\ j - 1 \in 1..(Len(L) - 1) /\ j - 1 \in 1..Len(L) /\ j \in 1..Len(L) /\ (j - 1) + 1 = j
  BY <1>2, SegmentTypes
<1>4. L[j].seq = SegEnd(L[j - 1])
  BY <1>3 DEF Listed
<1>5. j - 1 # i
  BY <1>2, <1>3, <1>4, SegmentTypes
<1>6. j - 1 \in (i + 1)..Len(L) /\ j - 1 < j
  BY <1>3, <1>5
<1>7. SegEnd(L[i]) <= L[j - 1].seq
  BY <1>2, <1>6
<1>8. L[j - 1].seq \in Nat /\ L[j - 1].len \in Nat /\ SegEnd(L[i]) \in Nat
      /\ SegEnd(L[j - 1]) \in Nat
  BY <1>3, SegmentTypes
<1>9. L[j - 1].seq <= SegEnd(L[j - 1])
  <2>1. PICK x \in Nat, y \in Nat : x = L[j - 1].seq /\ y = L[j - 1].len
    BY <1>8, Zenon
  <2>2. x <= x + y
    OBVIOUS
  <2> QED
    BY <2>1, <2>2, Zenon DEF SegEnd
<1>10. SegEnd(L[i]) <= L[j].seq
  <2>1. PICK x \in Nat, y \in Nat, z \in Nat :
          x = SegEnd(L[i]) /\ y = L[j - 1].seq /\ z = SegEnd(L[j - 1]) /\ x <= y /\ y <= z
    BY <1>7, <1>8, <1>9, Zenon
  <2>2. x <= z
    BY <2>1
  <2> QED
    BY <1>4, <2>1, <2>2, Zenon
<1> QED
  BY <1>2, <1>10

\* Every segment lies between the two ends.
LEMMA Within ==
  ASSUME NEW L \in Seq(SSegment), NEW a \in Nat, NEW b \in Nat, NEW nxt, Listed(L, a, b, nxt),
         NEW i \in 1..Len(L)
  PROVE  a <= L[i].seq /\ SegEnd(L[i]) <= b /\ L[i].seq < SegEnd(L[i])
<1>1. /\ Len(L) \in Nat /\ 1 \in 1..Len(L) /\ Len(L) \in 1..Len(L) /\ L # <<>>
  BY SegmentTypes
<1>2. L[1].seq = a /\ SegEnd(L[Len(L)]) = b
  BY <1>1 DEF Listed
<1>3. \A k \in 1..Len(L) : L[k].seq \in Nat /\ SegEnd(L[k]) \in Nat /\ L[k].seq < SegEnd(L[k])
  BY SegmentTypes DEF Listed, SegEnd
<1>4. a <= L[i].seq
  <2>1. i = 1 \/ i \in (1 + 1)..Len(L)
    BY <1>1
  <2>2. CASE i = 1
    BY <1>2, <1>3, <2>2
  <2>3. CASE i \in (1 + 1)..Len(L)
    <3>1. SegEnd(L[1]) <= L[i].seq
      BY <1>1, <2>3, Ordered
    <3> QED
      BY <1>1, <1>2, <1>3, <3>1
  <2> QED
    BY <2>1, <2>2, <2>3
<1>5. SegEnd(L[i]) <= b
  <2>1. i = Len(L) \/ Len(L) \in (i + 1)..Len(L)
    BY <1>1
  <2>2. CASE i = Len(L)
    BY <1>2, <1>3, <2>2
  <2>3. CASE Len(L) \in (i + 1)..Len(L)
    <3>1. SegEnd(L[i]) <= L[Len(L)].seq
      BY <2>3, Ordered
    <3> QED
      BY <1>1, <1>2, <1>3, <3>1
  <2> QED
    BY <2>1, <2>2, <2>3
<1> QED
  BY <1>3, <1>4, <1>5

\* When bytes were sent and not acknowledged, the first segment was sent.
LEMMA FirstSent ==
  ASSUME NEW L \in Seq(SSegment), NEW a \in Nat, NEW b \in Nat, NEW nxt \in Nat,
         Listed(L, a, b, nxt), a < nxt, nxt <= b
  PROVE  1 \in 1..Len(L) /\ L[1].xmit > 0
<1>1. L # <<>>
  BY DEF Listed
<1>2. 1 \in 1..Len(L)
  BY <1>1, SegmentTypes
<1> QED
  BY <1>1, <1>2, SegmentTypes DEF Listed

\* The first segment that was not sent begins at nxt.
LEMMA FirstUnsent ==
  ASSUME NEW L \in Seq(SSegment), NEW a \in Nat, NEW b \in Nat, NEW nxt \in Nat,
         Listed(L, a, b, nxt), a <= nxt, nxt < b, NEW s, s.slist = L
  PROVE  /\ Unsent(s) \in 1..Len(L)
         /\ L[Unsent(s)].xmit = 0 /\ L[Unsent(s)].seq = nxt
<1> DEFINE unsent == {i \in 1..Len(L) : L[i].xmit = 0}
<1>1. /\ Len(L) \in Nat /\ L # <<>> /\ Len(L) \in 1..Len(L)
  BY SegmentTypes DEF Listed
<1>2. Len(L) \in unsent
  <2>1. SegEnd(L[Len(L)]) = b
    BY <1>1 DEF Listed
  <2> QED
    BY <1>1, <2>1, SegmentTypes DEF Listed
<1>3. unsent \subseteq Nat
  BY <1>1
<1>4. Unsent(s) = Min(unsent)
  BY <1>2, Zenon DEF Unsent, SelectInSeq
<1>5. Unsent(s) \in unsent /\ \A k \in unsent : Unsent(s) <= k
  <2> HIDE DEF unsent
  <2> QED
    BY <1>2, <1>3, <1>4, MinOf
<1> DEFINE k == Unsent(s)
<1>6. k \in 1..Len(L) /\ L[k].xmit = 0 /\ nxt <= L[k].seq
  BY <1>5, SegmentTypes DEF Listed
<1>7. CASE k = 1
  BY <1>1, <1>6, <1>7, SegmentTypes DEF Listed
<1>8. CASE k # 1
  <2>1. k - 1 \in 1..Len(L) /\ k - 1 \in 1..(Len(L) - 1) /\ (k - 1) + 1 = k
    BY <1>1, <1>6, <1>8
  <2>2. ~(k - 1 \in unsent)
    BY <1>1, <1>5, <2>1
  <2>3. L[k - 1].xmit > 0
    BY <2>1, <2>2, SegmentTypes
  <2>4. SegEnd(L[k - 1]) <= nxt /\ L[k].seq = SegEnd(L[k - 1])
    BY <2>1, <2>3 DEF Listed
  <2> QED
    BY <1>6, <2>1, <2>4, SegmentTypes
<1> QED
  BY <1>6, <1>7, <1>8

\* The two parts of a segment that is cut after n bytes.
FirstPart(g, n) == [g EXCEPT !.len = n]
Rest(g, n) == [g EXCEPT !.seq = @ + n, !.len = @ - n]

\* The elements of a list in which a segment was cut.
LEMMA CutElements ==
  ASSUME NEW L \in Seq(SSegment), NEW i \in 1..Len(L), NEW n \in Nat, 0 < n, n < L[i].len,
         NEW C, C = CutSegment(L, i, n)
  PROVE  /\ C \in Seq(SSegment) /\ Len(C) = Len(L) + 1
         /\ \A j \in 1..Len(L) : j < i => C[j] = L[j]
         /\ C[i] = FirstPart(L[i], n) /\ C[i + 1] = Rest(L[i], n)
         /\ \A j \in 1..Len(L) : j > i => C[j + 1] = L[j]
<1> DEFINE first == FirstPart(L[i], n)
           rest == Rest(L[i], n)
           K == [L EXCEPT ![i].len = n]
           A == SubSeq(K, 1, i)
           B == SubSeq(K, i + 1, Len(K))
           D == A \o <<rest>>
<1>1. Len(L) \in Nat /\ i \in Nat /\ 1 <= i /\ i <= Len(L)
  BY SegmentTypes
<1>2. first \in SSegment /\ rest \in SSegment
  <2>1. L[i].seq + n \in Nat /\ L[i].len - n \in Nat
    BY SegmentTypes
  <2> QED
    BY <2>1, SegmentTypes DEF SSegment, FirstPart, Rest
<1>3. K \in Seq(SSegment) /\ Len(K) = Len(L)
  BY <1>2 DEF FirstPart
<1>4. \A j \in 1..Len(L) : K[j] = IF j = i THEN first ELSE L[j]
  BY DEF FirstPart
<1>5. C = D \o B
  <2>1. (i + 1) - 1 = i
    BY <1>1
  <2> QED
    BY <2>1 DEF CutSegment, InsertAt, Rest
<1> HIDE DEF K, first, rest
<1>6. A \in Seq(SSegment) /\ Len(A) = i /\ \A j \in 1..i : A[j] = K[j]
  BY <1>1, <1>3
<1>7. B \in Seq(SSegment) /\ Len(B) = Len(L) - i /\ \A j \in 1..(Len(L) - i) : B[j] = K[i + j]
  BY <1>1, <1>3
<1> HIDE DEF A, B
<1>8. /\ D \in Seq(SSegment) /\ Len(D) = i + 1
      /\ \A j \in 1..i : D[j] = A[j]
      /\ D[i + 1] = rest
  BY <1>1, <1>2, <1>6
<1> HIDE DEF D
<1>9. /\ C \in Seq(SSegment) /\ Len(C) = Len(D) + Len(B)
      /\ \A j \in 1..(Len(D) + Len(B)) : C[j] = IF j <= Len(D) THEN D[j] ELSE B[j - Len(D)]
  <2>1. D \in Seq(SSegment) /\ B \in Seq(SSegment)
    BY <1>7, <1>8
  <2> QED
    BY <1>5, <2>1, ConcatProperties, ZenonT(30)
<1>10. Len(C) = Len(L) + 1
  BY <1>1, <1>7, <1>8, <1>9
<1>11. \A j \in 1..Len(L) : j < i => C[j] = L[j]
  <2> SUFFICES ASSUME NEW j \in 1..Len(L), j < i PROVE C[j] = L[j]
    OBVIOUS
  <2>1. j \in 1..i /\ j \in 1..(Len(D) + Len(B)) /\ j <= Len(D) /\ j # i
    BY <1>1, <1>7, <1>8
  <2> QED
    BY <2>1, <1>4, <1>6, <1>8, <1>9
<1>12. C[i] = first /\ C[i + 1] = rest
  <2>1. /\ i \in 1..i /\ i \in 1..(Len(D) + Len(B)) /\ i <= Len(D)
        /\ i + 1 \in 1..(Len(D) + Len(B)) /\ i + 1 <= Len(D)
    BY <1>1, <1>7, <1>8
  <2> QED
    BY <2>1, <1>4, <1>6, <1>8, <1>9
<1>13. \A j \in 1..Len(L) : j > i => C[j + 1] = L[j]
  <2> SUFFICES ASSUME NEW j \in 1..Len(L), j > i PROVE C[j + 1] = L[j]
    OBVIOUS
  <2>1. /\ j + 1 \in 1..(Len(D) + Len(B)) /\ ~(j + 1 <= Len(D)) /\ (j + 1) - Len(D) = j - i
        /\ j - i \in 1..(Len(L) - i) /\ i + (j - i) = j /\ j # i
    BY <1>1, <1>7, <1>8
  <2>2. C[j + 1] = B[j - i]
    BY <2>1, <1>9
  <2>3. B[j - i] = K[j]
    BY <2>1, <1>7
  <2> QED
    BY <2>1, <2>2, <2>3, <1>4
<1> QED
  BY <1>9, <1>10, <1>11, <1>12, <1>13 DEF first, rest

\* A cut keeps the list in order, and every end that it had.
LEMMA CutKeeps ==
  ASSUME NEW L \in Seq(SSegment), NEW a \in Nat, NEW b \in Nat, NEW nxt \in Nat,
         Listed(L, a, b, nxt), NEW i \in 1..Len(L), NEW n \in Nat, 0 < n, NEW C,
         C = CutSegment(L, i, n)
  PROVE  /\ C \in Seq(SSegment) /\ Listed(C, a, b, nxt)
         /\ \A m : EndsAt(L, m) => EndsAt(C, m)
         /\ i \in 1..Len(C) /\ C[i].seq = L[i].seq /\ C[i].xmit = L[i].xmit /\ C[i].ctl = L[i].ctl
         /\ C[i].len = IF n < L[i].len THEN n ELSE L[i].len
<1>1. CASE ~(n < L[i].len)
  BY <1>1 DEF CutSegment
<1>2. CASE n < L[i].len
  <2> DEFINE first == FirstPart(L[i], n)
             rest == Rest(L[i], n)
  <2>1. Len(L) \in Nat /\ i \in Nat /\ 1 <= i /\ i <= Len(L)
    BY SegmentTypes
  <2>2. C \in Seq(SSegment) /\ Len(C) = Len(L) + 1
    BY <1>2, CutElements
  <2>3. /\ first.seq = L[i].seq /\ first.len = n /\ first.xmit = L[i].xmit
        /\ first.ctl = L[i].ctl
        /\ rest.seq = L[i].seq + n /\ rest.len = L[i].len - n /\ rest.xmit = L[i].xmit
    BY SegmentTypes DEF SSegment, FirstPart, Rest
  <2>4. /\ SegEnd(first) = rest.seq /\ SegEnd(rest) = SegEnd(L[i]) /\ SegEnd(first) < SegEnd(L[i])
        /\ rest.len > 0 /\ L[i].seq <= rest.seq
    <3> HIDE DEF first, rest
    <3>1. L[i].seq \in Nat /\ L[i].len \in Nat
      BY SegmentTypes
    <3>2. SegEnd(first) = L[i].seq + n /\ SegEnd(rest) = (L[i].seq + n) + (L[i].len - n)
      BY <2>3 DEF SegEnd
    <3>3. SegEnd(L[i]) = L[i].seq + L[i].len
      BY DEF SegEnd
    <3> QED
      BY <2>3, <1>2, <3>1, <3>2, <3>3
  <2> HIDE DEF first, rest
  <2>5. C[i] = first /\ C[i + 1] = rest
    BY <1>2, CutElements DEF first, rest
  <2>6. \A j \in 1..Len(L) : j < i => C[j] = L[j]
    BY <1>2, CutElements
  <2>7. \A j \in 1..Len(L) : j > i => C[j + 1] = L[j]
    BY <1>2, CutElements
  <2>8. Listed(C, a, b, nxt)
    <3>1. C # <<>> /\ L # <<>>
      BY <2>1, <2>2
    <3>2. C[1].seq = a
      <4>1. L[1].seq = a
        BY <3>1 DEF Listed
      <4> QED
        BY <2>1, <2>3, <2>5, <2>6, <4>1
    <3>3. SegEnd(C[Len(C)]) = b
      <4>1. SegEnd(L[Len(L)]) = b
        BY <3>1 DEF Listed
      <4>2. CASE i = Len(L)
        BY <2>1, <2>2, <2>4, <2>5, <4>1, <4>2
      <4>3. CASE i < Len(L)
        BY <2>1, <2>2, <2>7, <4>1, <4>3
      <4> QED
        BY <2>1, <4>2, <4>3
    <3>4. \A j \in 1..(Len(C) - 1) : C[j + 1].seq = SegEnd(C[j])
      <4> TAKE j \in 1..(Len(C) - 1)
      <4>1. j \in 1..Len(L)
        BY <2>1, <2>2
      <4>2. CASE j + 1 < i
        <5>1. C[j] = L[j] /\ C[j + 1] = L[j + 1] /\ j \in 1..(Len(L) - 1)
          BY <2>1, <2>6, <4>1, <4>2
        <5> QED
          BY <5>1 DEF Listed
      <4>3. CASE j + 1 = i
        <5>1. C[j] = L[j] /\ C[j + 1] = first /\ j \in 1..(Len(L) - 1)
          BY <2>1, <2>5, <2>6, <4>1, <4>3
        <5>2. L[j + 1].seq = SegEnd(L[j])
          BY <5>1 DEF Listed
        <5> QED
          BY <5>1, <5>2, <4>3, <2>3
      <4>4. CASE j = i
        BY <2>4, <2>5, <4>4
      <4>5. CASE j = i + 1
        <5>1. C[j] = rest /\ j \in 1..Len(L) /\ i \in 1..(Len(L) - 1)
          BY <2>1, <2>5, <4>1, <4>5
        <5>2. C[j + 1] = L[j]
          BY <2>1, <2>7, <4>1, <4>5
        <5>3. L[i + 1].seq = SegEnd(L[i])
          BY <5>1 DEF Listed
        <5> QED
          BY <5>1, <5>2, <5>3, <4>5, <2>4
      <4>6. CASE j > i + 1
        <5>1. /\ j - 1 \in 1..Len(L) /\ j - 1 > i /\ (j - 1) + 1 = j
              /\ j - 1 \in 1..(Len(L) - 1) /\ j > i
          BY <2>1, <4>1, <4>6
        <5>2. C[j] = L[j - 1] /\ C[j + 1] = L[j]
          BY <2>7, <4>1, <5>1
        <5>3. L[j].seq = SegEnd(L[j - 1])
          BY <5>1 DEF Listed
        <5> QED
          BY <5>2, <5>3
      <4> QED
        BY <2>1, <4>1, <4>2, <4>3, <4>4, <4>5, <4>6
    <3>5. \A j \in 1..Len(C) :
            /\ C[j].len > 0
            /\ IF C[j].xmit > 0 THEN SegEnd(C[j]) <= nxt ELSE nxt <= C[j].seq
      <4> TAKE j \in 1..Len(C)
      <4>0. \A k \in 1..Len(L) :
              /\ L[k].len > 0
              /\ IF L[k].xmit > 0 THEN SegEnd(L[k]) <= nxt ELSE nxt <= L[k].seq
        BY DEF Listed
      <4>1. CASE j < i
        BY <2>1, <2>2, <2>6, <4>0, <4>1
      <4>2. CASE j = i
        <5>1. C[j].len > 0
          BY <2>3, <2>5, <4>2
        <5>2. C[j].xmit = L[i].xmit /\ C[j].seq = L[i].seq /\ SegEnd(C[j]) < SegEnd(L[i])
          BY <2>3, <2>4, <2>5, <4>2
        <5>3. SegEnd(C[j]) \in Nat /\ SegEnd(L[i]) \in Nat
          BY <2>2, SegmentTypes
        <5> QED
          BY <5>1, <5>2, <5>3, <4>0
      <4>3. CASE j = i + 1
        <5>1. /\ C[j].len > 0 /\ C[j].xmit = L[i].xmit /\ L[i].seq <= C[j].seq
              /\ SegEnd(C[j]) = SegEnd(L[i])
          BY <2>3, <2>4, <2>5, <4>3
        <5>2. C[j].seq \in Nat /\ L[i].seq \in Nat
          BY <2>2, SegmentTypes
        <5> QED
          BY <5>1, <5>2, <4>0
      <4>4. CASE j > i + 1
        <5>1. j - 1 \in 1..Len(L) /\ j - 1 > i /\ (j - 1) + 1 = j
          BY <2>1, <2>2, <4>4
        <5>2. C[j] = L[j - 1]
          BY <2>7, <5>1
        <5> QED
          BY <4>0, <5>1, <5>2
      <4> QED
        BY <2>1, <2>2, <4>1, <4>2, <4>3, <4>4
    <3> QED
      BY <3>1, <3>2, <3>3, <3>4, <3>5 DEF Listed
  <2>9. ASSUME NEW m, EndsAt(L, m) PROVE EndsAt(C, m)
    <3>1. PICK j \in 1..Len(L) : SegEnd(L[j]) = m /\ L[j].xmit > 0
      BY <2>9 DEF EndsAt
    <3>2. j \in 1..Len(C) /\ j + 1 \in 1..Len(C)
      BY <2>1, <2>2
    <3>3. CASE j < i
      BY <2>6, <3>1, <3>2, <3>3 DEF EndsAt
    <3>4. CASE j = i
      <4>1. SegEnd(C[j + 1]) = m /\ C[j + 1].xmit > 0
        BY <2>3, <2>4, <2>5, <3>1, <3>4
      <4> QED
        BY <3>2, <4>1 DEF EndsAt
    <3>5. CASE j > i
      BY <2>7, <3>1, <3>2, <3>5 DEF EndsAt
    <3> QED
      BY <2>1, <3>3, <3>4, <3>5
  <2> QED
    BY <1>2, <2>1, <2>2, <2>3, <2>5, <2>8, <2>9
<1> QED
  BY <1>1, <1>2, SegmentTypes

\* The i-th segment is sent, again or for the first time.
LEMMA SentKeeps ==
  ASSUME NEW C \in Seq(SSegment), NEW a \in Nat, NEW b \in Nat, NEW nxt \in Nat,
         Listed(C, a, b, nxt), NEW i \in 1..Len(C), NEW nxt2 \in Nat,
         \/ C[i].xmit > 0 /\ nxt2 = nxt
         \/ C[i].xmit = 0 /\ C[i].seq = nxt /\ nxt2 = SegEnd(C[i]),
         NEW M, M = MarkSent(C, i)
  PROVE  /\ M \in Seq(SSegment) /\ Listed(M, a, b, nxt2)
         /\ EndsAt(M, SegEnd(C[i]))
         /\ \A m : EndsAt(C, m) => EndsAt(M, m)
<1> DEFINE sent == [C[i] EXCEPT !.xmit = @ + 1]
<1>1. Len(C) \in Nat /\ i \in Nat /\ 1 <= i /\ i <= Len(C)
  BY SegmentTypes
<1>2. sent \in SSegment
  <2>1. C[i].xmit + 1 \in Nat
    BY SegmentTypes
  <2> QED
    BY <2>1, SegmentTypes DEF SSegment
<1>3. /\ M \in Seq(SSegment) /\ Len(M) = Len(C)
      /\ M[i] = sent /\ \A j \in 1..Len(C) : j # i => M[j] = C[j]
  BY <1>2 DEF MarkSent
<1>4. /\ sent.seq = C[i].seq /\ sent.len = C[i].len /\ sent.xmit = C[i].xmit + 1
  BY SegmentTypes DEF SSegment
<1>5. SegEnd(sent) = SegEnd(C[i]) /\ sent.xmit > 0
  BY <1>4, SegmentTypes DEF SegEnd
<1> HIDE DEF sent
<1>6. \A j \in 1..Len(C) : /\ M[j].seq = C[j].seq /\ M[j].len = C[j].len
                           /\ SegEnd(M[j]) = SegEnd(C[j])
  BY <1>3, <1>4, <1>5
<1>7. Listed(M, a, b, nxt2)
  <2>1. M # <<>> /\ C # <<>>
    BY <1>1, <1>3
  <2>2. M[1].seq = a /\ SegEnd(M[Len(M)]) = b
    <3>1. C[1].seq = a /\ SegEnd(C[Len(C)]) = b
      BY <2>1 DEF Listed
    <3>2. 1 \in 1..Len(C) /\ Len(C) \in 1..Len(C)
      BY <1>1
    <3> QED
      BY <1>3, <1>6, <3>1, <3>2
  <2>3. \A j \in 1..(Len(M) - 1) : M[j + 1].seq = SegEnd(M[j])
    <3> TAKE j \in 1..(Len(M) - 1)
    <3>1. j \in 1..(Len(C) - 1) /\ j \in 1..Len(C) /\ j + 1 \in 1..Len(C)
      BY <1>1, <1>3
    <3> QED
      BY <1>6, <3>1 DEF Listed
  <2>4. \A j \in 1..Len(M) : M[j].len > 0
    BY <1>3, <1>6 DEF Listed
  <2>5. \A j \in 1..Len(M) : IF M[j].xmit > 0 THEN SegEnd(M[j]) <= nxt2 ELSE nxt2 <= M[j].seq
    <3> TAKE j \in 1..Len(M)
    <3>1. j \in 1..Len(C)
      BY <1>3
    <3>2. IF C[j].xmit > 0 THEN SegEnd(C[j]) <= nxt ELSE nxt <= C[j].seq
      BY <3>1 DEF Listed
    <3>3. /\ SegEnd(C[j]) \in Nat /\ C[j].seq \in Nat /\ C[j].seq < SegEnd(C[j])
          /\ SegEnd(C[i]) \in Nat /\ C[i].seq \in Nat /\ C[i].seq < SegEnd(C[i])
          /\ C[j].xmit \in Nat
      BY <3>1, SegmentTypes, Within
    <3>4. CASE j = i
      <4>1. SegEnd(C[i]) <= nxt2
        BY <3>2, <3>3, <3>4
      <4> QED
        BY <1>3, <1>5, <3>4, <4>1
    <3>5. CASE j # i /\ C[i].xmit > 0 /\ nxt2 = nxt
      <4>1. M[j] = C[j]
        BY <1>3, <3>1, <3>5
      <4> QED
        BY <3>2, <3>5, <4>1
    <3>6. CASE j # i /\ C[i].xmit = 0 /\ C[i].seq = nxt /\ nxt2 = SegEnd(C[i])
      <4>1. M[j] = C[j]
        BY <1>3, <3>1, <3>6
      <4>2. CASE j < i
        <5>1. i \in (j + 1)..Len(C)
          BY <1>1, <3>1, <4>2
        <5>2. SegEnd(C[j]) <= C[i].seq
          BY <3>1, <5>1, Ordered
        <5>3. C[j].xmit > 0
          BY <3>2, <3>3, <3>6, <5>2
        <5>4. SegEnd(C[j]) <= nxt2
          BY <3>3, <3>6, <5>2
        <5> QED
          BY <4>1, <5>3, <5>4
      <4>3. CASE j > i
        <5>1. j \in (i + 1)..Len(C)
          BY <1>1, <3>1, <4>3
        <5>2. SegEnd(C[i]) <= C[j].seq
          BY <5>1, Ordered
        <5>3. PICK x \in Nat, y \in Nat :
                x = SegEnd(C[i]) /\ y = C[j].seq /\ x <= y /\ nxt2 = x /\ nxt < x
          BY <3>3, <3>6, <5>2
        <5>4. ~(SegEnd(C[j]) <= nxt)
          BY <3>3, <5>3
        <5>5. C[j].xmit = 0
          BY <3>2, <3>3, <5>4, SMTT(20)
        <5> QED
          BY <4>1, <5>3, <5>5
      <4> QED
        BY <1>1, <3>1, <3>6, <4>2, <4>3
    <3> QED
      BY <3>4, <3>5, <3>6
  <2> QED
    BY <2>1, <2>2, <2>3, <2>4, <2>5 DEF Listed
<1>8. EndsAt(M, SegEnd(C[i]))
  BY <1>3, <1>5 DEF EndsAt
<1>9. ASSUME NEW m, EndsAt(C, m) PROVE EndsAt(M, m)
  <2>1. PICK j \in 1..Len(C) : SegEnd(C[j]) = m /\ C[j].xmit > 0
    BY <1>9 DEF EndsAt
  <2>2. j \in 1..Len(M) /\ SegEnd(M[j]) = m /\ M[j].xmit > 0
    BY <1>3, <1>5, <1>6, <2>1
  <2> QED
    BY <2>2 DEF EndsAt
<1> QED
  BY <1>3, <1>7, <1>8, <1>9

\* A new segment at the end of the list.
LEMMA AppendKeeps ==
  ASSUME NEW L \in Seq(SSegment), NEW a \in Nat, NEW b \in Nat, NEW nxt \in Nat,
         Listed(L, a, b, nxt), nxt <= b, NEW n \in Nat, n > 0, NEW g \in SSegment,
         g.seq = b, g.len = n, g.xmit = 0, NEW M, M = Append(L, g)
  PROVE  /\ M \in Seq(SSegment) /\ Listed(M, a, b + n, nxt)
         /\ \A m : EndsAt(L, m) => EndsAt(M, m)
<1>1. /\ Len(L) \in Nat /\ M \in Seq(SSegment) /\ Len(M) = Len(L) + 1
      /\ \A j \in 1..Len(L) : M[j] = L[j]
      /\ M[Len(L) + 1] = g
  BY SegmentTypes, AppendProperties
<1>2. SegEnd(g) = b + n
  BY DEF SegEnd
<1>3. Listed(M, a, b + n, nxt)
  <2>1. M # <<>> /\ SegEnd(M[Len(M)]) = b + n
    BY <1>1, <1>2
  <2>2. M[1].seq = a
    <3>1. CASE L = <<>>
      BY <1>1, <3>1 DEF Listed
    <3>2. CASE L # <<>>
      BY <1>1, <3>2 DEF Listed
    <3> QED
      BY <3>1, <3>2
  <2>3. \A j \in 1..(Len(M) - 1) : M[j + 1].seq = SegEnd(M[j])
    <3> TAKE j \in 1..(Len(M) - 1)
    <3>1. CASE j < Len(L)
      <4>1. j \in 1..(Len(L) - 1) /\ j \in 1..Len(L) /\ j + 1 \in 1..Len(L)
        BY <1>1, <3>1
      <4> QED
        BY <1>1, <4>1 DEF Listed
    <3>2. CASE j = Len(L)
      <4>1. j \in 1..Len(L) /\ L # <<>>
        BY <1>1, <3>2
      <4>2. SegEnd(L[j]) = b
        BY <3>2, <4>1 DEF Listed
      <4> QED
        BY <1>1, <3>2, <4>1, <4>2
    <3> QED
      BY <1>1, <3>1, <3>2
  <2>4. \A j \in 1..Len(M) :
          /\ M[j].len > 0
          /\ IF M[j].xmit > 0 THEN SegEnd(M[j]) <= nxt ELSE nxt <= M[j].seq
    <3> TAKE j \in 1..Len(M)
    <3>1. CASE j \in 1..Len(L)
      BY <1>1, <3>1 DEF Listed
    <3>2. CASE j = Len(L) + 1
      BY <1>1, <3>2
    <3> QED
      BY <1>1, <3>1, <3>2
  <2> QED
    BY <2>1, <2>2, <2>3, <2>4 DEF Listed
<1>4. ASSUME NEW m, EndsAt(L, m) PROVE EndsAt(M, m)
  <2>1. PICK j \in 1..Len(L) : SegEnd(L[j]) = m /\ L[j].xmit > 0
    BY <1>4 DEF EndsAt
  <2>2. j \in 1..Len(M) /\ M[j] = L[j]
    BY <1>1
  <2> QED
    BY <2>1, <2>2 DEF EndsAt
<1> QED
  BY <1>1, <1>3, <1>4

\* The last segment, which was not sent, grows.
Joined(L, n) == [L EXCEPT ![Len(L)].len = @ + n]

LEMMA JoinKeeps ==
  ASSUME NEW L \in Seq(SSegment), NEW a \in Nat, NEW b \in Nat, NEW nxt \in Nat,
         Listed(L, a, b, nxt), NEW n \in Nat, n > 0,
         Len(L) > 0, L[Len(L)].xmit = 0, NEW M, M = Joined(L, n)
  PROVE  /\ M \in Seq(SSegment) /\ Listed(M, a, b + n, nxt)
         /\ \A m : EndsAt(L, m) => EndsAt(M, m)
<1> DEFINE k == Len(L)
           grown == [L[k] EXCEPT !.len = @ + n]
<1>1. k \in Nat /\ k \in 1..k /\ 1 \in 1..k
  BY SegmentTypes
<1>2. grown \in SSegment
  <2>1. L[k].len + n \in Nat
    BY <1>1, SegmentTypes
  <2> QED
    BY <1>1, <2>1, SegmentTypes DEF SSegment
<1>3. /\ M \in Seq(SSegment) /\ Len(M) = k
      /\ M[k] = grown /\ \A j \in 1..k : j # k => M[j] = L[j]
  BY <1>1, <1>2 DEF Joined
<1>4. /\ grown.seq = L[k].seq /\ grown.len = L[k].len + n /\ grown.xmit = 0
  BY <1>1, SegmentTypes DEF SSegment
<1> HIDE DEF grown
<1>5. SegEnd(grown) = b + n
  <2>1. SegEnd(L[k]) = b
    BY <1>1 DEF Listed
  <2>2. PICK x \in Nat, y \in Nat : x = L[k].seq /\ y = L[k].len
    BY <1>1, SegmentTypes
  <2>3. x + y = b
    BY <2>1, <2>2 DEF SegEnd
  <2>4. SegEnd(grown) = x + (y + n)
    BY <1>4, <2>2 DEF SegEnd
  <2> QED
    BY <2>3, <2>4
<1>6. \A j \in 1..k : M[j].seq = L[j].seq
  BY <1>3, <1>4
<1>7. Listed(M, a, b + n, nxt)
  <2>1. M # <<>> /\ L # <<>> /\ SegEnd(M[Len(M)]) = b + n
    BY <1>1, <1>3, <1>5
  <2>2. M[1].seq = a
    BY <1>1, <1>6, <2>1 DEF Listed
  <2>3. \A j \in 1..(Len(M) - 1) : M[j + 1].seq = SegEnd(M[j])
    <3> TAKE j \in 1..(Len(M) - 1)
    <3>1. j \in 1..(k - 1) /\ j \in 1..k /\ j + 1 \in 1..k /\ j # k
      BY <1>1, <1>3
    <3>2. M[j] = L[j] /\ M[j + 1].seq = L[j + 1].seq
      BY <1>3, <1>6, <3>1
    <3> QED
      BY <3>1, <3>2 DEF Listed
  <2>4. \A j \in 1..Len(M) :
          /\ M[j].len > 0
          /\ IF M[j].xmit > 0 THEN SegEnd(M[j]) <= nxt ELSE nxt <= M[j].seq
    <3> TAKE j \in 1..Len(M)
    <3>1. CASE j # k
      BY <1>3, <3>1 DEF Listed
    <3>2. CASE j = k
      <4>1. L[k].len \in Nat /\ nxt <= L[k].seq
        BY <1>1, SegmentTypes DEF Listed
      <4> QED
        BY <1>3, <1>4, <3>2, <4>1
    <3> QED
      BY <3>1, <3>2
  <2> QED
    BY <2>1, <2>2, <2>3, <2>4 DEF Listed
<1>8. ASSUME NEW m, EndsAt(L, m) PROVE EndsAt(M, m)
  <2>1. PICK j \in 1..k : SegEnd(L[j]) = m /\ L[j].xmit > 0
    BY <1>8 DEF EndsAt
  <2>2. j # k
    BY <2>1
  <2>3. M[j] = L[j] /\ j \in 1..Len(M)
    BY <1>3, <2>2
  <2> QED
    BY <2>1, <2>3 DEF EndsAt
<1> QED
  BY <1>3, <1>7, <1>8

\* The bytes of the first j segments, as Unacked adds them up.
Upto(L, f) == f = [j \in 0..Len(L) |-> IF j = 0 THEN 0 ELSE f[j - 1] + L[j].len]

\* Added up, they are the distance from the begin of the list.
LEMMA UptoIs ==
  ASSUME NEW L \in Seq(SSegment), NEW a \in Nat, NEW b \in Nat, NEW nxt, Listed(L, a, b, nxt)
  PROVE  /\ \E f : Upto(L, f)
         /\ \A f : Upto(L, f) => /\ f[0] = 0
                                 /\ \A j \in 1..Len(L) : f[j] = SegEnd(L[j]) - a
<1>1. Len(L) \in Nat
  BY SegmentTypes
<1>2. \A j \in 1..Len(L) : /\ SegEnd(L[j]) - a \in Nat /\ L[j].len \in Nat
                           /\ SegEnd(L[j]) = L[j].seq + L[j].len /\ L[j].seq \in Nat
  <2> TAKE j \in 1..Len(L)
  <2>1. a <= L[j].seq /\ L[j].seq < SegEnd(L[j])
    BY Within
  <2>2. SegEnd(L[j]) = L[j].seq + L[j].len
    BY DEF SegEnd
  <2> QED
    BY <2>1, <2>2, SegmentTypes
<1>3. \A j \in 1..Len(L) : L[j].seq = IF j = 1 THEN a ELSE SegEnd(L[j - 1])
  <2> TAKE j \in 1..Len(L)
  <2>1. CASE j = 1
    <3>1. L # <<>>
      BY <1>1
    <3> QED
      BY <2>1, <3>1 DEF Listed
  <2>2. CASE j # 1
    <3>1. j - 1 \in 1..(Len(L) - 1) /\ (j - 1) + 1 = j
      BY <1>1, <2>2
    <3> QED
      BY <2>2, <3>1 DEF Listed
  <2> QED
    BY <2>1, <2>2
<1>4. \E f : Upto(L, f)
  <2> DEFINE f == [j \in 0..Len(L) |-> IF j = 0 THEN 0 ELSE SegEnd(L[j]) - a]
  <2>1. \A j \in 0..Len(L) : f[j] = IF j = 0 THEN 0 ELSE f[j - 1] + L[j].len
    <3> TAKE j \in 0..Len(L)
    <3>1. CASE j = 0
      BY <3>1
    <3>2. CASE j = 1
      <4>1. 1 \in 1..Len(L)
        BY <1>1, <3>2
      <4>2. f[1] = SegEnd(L[1]) - a /\ f[0] = 0
        BY <1>1, <4>1
      <4>3. SegEnd(L[1]) - a = 0 + L[1].len
        BY <1>2, <1>3, <4>1
      <4> QED
        BY <3>2, <4>2, <4>3
    <3>3. CASE j > 1
      <4>1. j \in 1..Len(L) /\ j - 1 \in 1..Len(L) /\ j # 1 /\ j # 0 /\ j - 1 # 0
            /\ j - 1 \in 0..Len(L)
        BY <1>1, <3>3
      <4>2. f[j] = SegEnd(L[j]) - a /\ f[j - 1] = SegEnd(L[j - 1]) - a
        BY <4>1
      <4>3. SegEnd(L[j]) - a = (SegEnd(L[j - 1]) - a) + L[j].len
        <5>1. L[j].seq = SegEnd(L[j - 1])
          BY <1>3, <4>1
        <5> QED
          BY <1>2, <4>1, <5>1
      <4> QED
        BY <4>1, <4>2, <4>3
    <3> QED
      BY <1>1, <3>1, <3>2, <3>3
  <2>2. f = [j \in 0..Len(L) |-> f[j]]
    OBVIOUS
  <2> HIDE DEF f
  <2>3. f = [j \in 0..Len(L) |-> IF j = 0 THEN 0 ELSE f[j - 1] + L[j].len]
    BY <2>1, <2>2, Zenon
  <2> QED
    BY <2>3 DEF Upto
<1>5. ASSUME NEW f, Upto(L, f)
      PROVE  f[0] = 0 /\ \A j \in 1..Len(L) : f[j] = SegEnd(L[j]) - a
  <2>1. \A j \in 0..Len(L) : f[j] = IF j = 0 THEN 0 ELSE f[j - 1] + L[j].len
    BY <1>5, Zenon DEF Upto
  <2>2. f[0] = 0
    BY <1>1, <2>1
  <2> DEFINE bad == {j \in 1..Len(L) : f[j] # SegEnd(L[j]) - a}
  <2>3. ASSUME bad # {} PROVE FALSE
    <3>1. bad \subseteq Nat
      BY <1>1
    <3>2. PICK j \in bad : \A k \in bad : j <= k
      <4> HIDE DEF bad
      <4> QED
        BY <2>3, <3>1, LeastNat
    <3>3. j \in 1..Len(L) /\ j \in 0..Len(L) /\ j # 0 /\ f[j] = f[j - 1] + L[j].len
      BY <1>1, <2>1, <3>2
    <3>4. CASE j = 1
      <4>1. f[1] = 0 + L[1].len
        BY <2>2, <3>3, <3>4
      <4>2. SegEnd(L[1]) - a = 0 + L[1].len
        BY <1>2, <1>3, <3>3, <3>4
      <4> QED
        BY <3>2, <3>4, <4>1, <4>2
    <3>5. CASE j # 1
      <4>1. j - 1 \in 1..Len(L) /\ j - 1 < j
        BY <1>1, <3>3, <3>5
      <4>2. f[j - 1] = SegEnd(L[j - 1]) - a
        BY <1>1, <3>2, <4>1
      <4>3. SegEnd(L[j]) - a = (SegEnd(L[j - 1]) - a) + L[j].len
        <5>1. L[j].seq = SegEnd(L[j - 1])
          BY <1>3, <3>3, <3>5
        <5> QED
          BY <1>2, <3>3, <4>1, <5>1
      <4> QED
        BY <3>2, <3>3, <4>2, <4>3
    <3> QED
      BY <3>4, <3>5
  <2> QED
    BY <2>2, <2>3
<1> QED
  BY <1>4, <1>5

\* Segments are acknowledged as a whole: the ones up to m leave the list.
LEMMA UnackedIs ==
  ASSUME NEW L \in Seq(SSegment), NEW a \in Nat, NEW b \in Nat, NEW nxt \in Nat,
         Listed(L, a, b, nxt), NEW i \in 1..Len(L)
  PROVE  Unacked(L, SegEnd(L[i]) - a) = SubSeq(L, i + 1, Len(L))
<1> DEFINE f == CHOOSE f : f = [j \in 0..Len(L) |-> IF j = 0 THEN 0 ELSE f[j - 1] + L[j].len]
           n == SegEnd(L[i]) - a
           low == {j \in 0..Len(L) : f[j] <= n}
           after(k) == IF f[k] = n THEN SubSeq(L, k + 1, Len(L))
                       ELSE [SubSeq(L, k + 1, Len(L)) EXCEPT ![1].len = @ - (n - f[k])]
<1>1. Unacked(L, n) = after(Max(low))
  BY Zenon DEF Unacked
<1>2. Upto(L, f)
  <2>1. \E h : h = [j \in 0..Len(L) |-> IF j = 0 THEN 0 ELSE h[j - 1] + L[j].len]
    BY UptoIs DEF Upto
  <2> QED
    BY <2>1, Zenon DEF Upto
<1> HIDE DEF f
<1>3. f[0] = 0 /\ \A j \in 1..Len(L) : f[j] = SegEnd(L[j]) - a
  BY <1>2, UptoIs
<1>4. Len(L) \in Nat
  BY SegmentTypes
<1>5. \A j \in 1..Len(L) : SegEnd(L[j]) \in Nat /\ L[j].seq < SegEnd(L[j]) /\ L[j].seq \in Nat
  BY SegmentTypes, Within
<1>6. i \in low
  BY <1>3, <1>4, <1>5
<1>7. \A j \in low : j <= i
  <2> SUFFICES ASSUME NEW j \in low, j > i PROVE FALSE
    BY <1>4
  <2>1. j \in (i + 1)..Len(L) /\ j \in 1..Len(L)
    BY <1>4
  <2>2. SegEnd(L[i]) <= L[j].seq
    BY <2>1, Ordered
  <2>3. SegEnd(L[j]) - a <= n
    BY <1>3, <2>1
  <2> QED
    BY <1>5, <2>1, <2>2, <2>3
<1>8. low \subseteq Nat
  BY <1>4
<1>9. Max(low) = i
  <2>1. i \in Nat
    BY <1>4
  <2> HIDE DEF low
  <2>2. Max(low) \in low /\ \A j \in low : j <= Max(low)
    BY <1>6, <1>7, <1>8, <2>1, MaxOf
  <2>3. Max(low) \in Nat
    BY <1>8, <2>2
  <2>4. Max(low) <= i /\ i <= Max(low)
    BY <1>6, <1>7, <2>2
  <2> QED
    BY <2>1, <2>3, <2>4
<1>10. f[i] = n
  BY <1>3
<1> QED
  BY <1>1, <1>9, <1>10

\* What is left of the list after an acknowledgment of everything up to m.
LEMMA UnackedKeeps ==
  ASSUME NEW L \in Seq(SSegment), NEW a \in Nat, NEW b \in Nat, NEW nxt \in Nat,
         Listed(L, a, b, nxt), NEW m \in Nat, EndsAt(L, m)
  PROVE  /\ m <= b /\ m <= nxt
         /\ Unacked(L, m - a) \in Seq(SSegment)
         /\ Listed(Unacked(L, m - a), m, b, nxt)
         /\ \A k \in Nat : EndsAt(L, k) => k <= m \/ EndsAt(Unacked(L, m - a), k)
<1>1. PICK i \in 1..Len(L) : SegEnd(L[i]) = m /\ L[i].xmit > 0
  BY DEF EndsAt
<1> DEFINE U == SubSeq(L, i + 1, Len(L))
<1>2. Unacked(L, m - a) = U
  BY <1>1, UnackedIs
<1>3. Len(L) \in Nat /\ i \in Nat /\ 1 <= i /\ i <= Len(L)
  BY SegmentTypes
<1>4. /\ U \in Seq(SSegment) /\ Len(U) = Len(L) - i
      /\ \A j \in 1..(Len(L) - i) : U[j] = L[i + j]
  BY <1>3
<1> HIDE DEF U
<1>5. m <= b /\ m <= nxt
  <2>1. m <= b
    BY <1>1, Within
  <2>2. m <= nxt
    BY <1>1 DEF Listed
  <2> QED
    BY <2>1, <2>2
<1>6. Listed(U, m, b, nxt)
  <2>1. U = <<>> => m = b
    <3> SUFFICES ASSUME U = <<>> PROVE m = b
      OBVIOUS
    <3>1. i = Len(L) /\ L # <<>>
      BY <1>3, <1>4
    <3> QED
      BY <1>1, <3>1 DEF Listed
  <2>2. ASSUME U # <<>> PROVE U[1].seq = m /\ SegEnd(U[Len(U)]) = b
    <3>1. i < Len(L) /\ L # <<>>
      BY <1>3, <1>4, <2>2
    <3>2. /\ 1 \in 1..(Len(L) - i) /\ Len(L) - i \in 1..(Len(L) - i)
          /\ i + (Len(L) - i) = Len(L) /\ i \in 1..(Len(L) - 1)
      BY <1>3, <3>1
    <3>3. U[1] = L[i + 1] /\ U[Len(U)] = L[Len(L)]
      BY <1>4, <3>2
    <3>4. L[i + 1].seq = SegEnd(L[i])
      BY <3>2 DEF Listed
    <3>5. SegEnd(L[Len(L)]) = b
      BY <3>1 DEF Listed
    <3> QED
      BY <1>1, <3>3, <3>4, <3>5
  <2>3. \A j \in 1..(Len(U) - 1) : U[j + 1].seq = SegEnd(U[j])
    <3> TAKE j \in 1..(Len(U) - 1)
    <3>1. /\ j \in 1..(Len(L) - i) /\ j + 1 \in 1..(Len(L) - i)
          /\ i + (j + 1) = (i + j) + 1 /\ i + j \in 1..(Len(L) - 1)
      BY <1>3, <1>4
    <3>2. U[j] = L[i + j] /\ U[j + 1] = L[(i + j) + 1]
      BY <1>4, <3>1
    <3> QED
      BY <3>1, <3>2 DEF Listed
  <2>4. \A j \in 1..Len(U) :
          /\ U[j].len > 0
          /\ IF U[j].xmit > 0 THEN SegEnd(U[j]) <= nxt ELSE nxt <= U[j].seq
    <3> TAKE j \in 1..Len(U)
    <3>1. j \in 1..(Len(L) - i) /\ i + j \in 1..Len(L)
      BY <1>3, <1>4
    <3>2. U[j] = L[i + j]
      BY <1>4, <3>1
    <3> QED
      BY <3>1, <3>2 DEF Listed
  <2> QED
    BY <2>1, <2>2, <2>3, <2>4 DEF Listed
<1>7. ASSUME NEW k \in Nat, EndsAt(L, k) PROVE k <= m \/ EndsAt(U, k)
  <2>1. PICK j \in 1..Len(L) : SegEnd(L[j]) = k /\ L[j].xmit > 0
    BY <1>7 DEF EndsAt
  <2>2. CASE j <= i
    <3>1. j = i \/ i \in (j + 1)..Len(L)
      BY <1>3, <2>2
    <3>2. CASE j = i
      BY <1>1, <2>1, <3>2
    <3>3. CASE i \in (j + 1)..Len(L)
      <4>1. SegEnd(L[j]) <= L[i].seq
        BY <3>3, Ordered
      <4>2. L[i].seq < SegEnd(L[i]) /\ L[i].seq \in Nat
        BY Within, SegmentTypes
      <4> QED
        BY <1>1, <2>1, <4>1, <4>2
    <3> QED
      BY <3>1, <3>2, <3>3
  <2>3. CASE j > i
    <3>1. j - i \in 1..Len(U) /\ j - i \in 1..(Len(L) - i) /\ i + (j - i) = j
      BY <1>3, <1>4, <2>3
    <3>2. U[j - i] = L[j]
      BY <1>4, <3>1
    <3>3. EndsAt(U, k)
      BY <2>1, <3>1, <3>2 DEF EndsAt
    <3> QED
      BY <3>3
  <2> QED
    BY <1>3, <2>2, <2>3
<1> QED
  BY <1>2, <1>4, <1>5, <1>6, <1>7

----------------------------------------------------------------------------
(* One endpoint, and what it owes its peer                                 *)

Fields ==
  {"state", "shutdown", "snd_una", "snd_nxt", "snd_wnd", "slist", "sbuf", "rcv_nxt", "rcv_wnd",
   "rlist", "rbuf", "ahead", "unit", "mss", "advise", "cwnd", "ssthresh", "dup_acks", "recover",
   "rto", "t_ack", "probes", "readEnable", "writeEnable", "out", "room"}

IsTcp(s) ==
  /\ DOMAIN s = Fields
  /\ s.state \in {"LISTEN", "SYN_SENT", "SYN_RECEIVED", "ESTABLISHED", "CLOSED"}
  /\ s.shutdown \in {"NONE"} \cup Modes
  /\ s.snd_una \in Nat /\ s.snd_nxt \in Nat /\ s.snd_wnd \in 0..RcvBufLen
  /\ s.slist \in Seq(SSegment) /\ s.sbuf \in Seq(Nat)
  /\ s.rcv_nxt \in Nat /\ s.rcv_wnd \in 0..RcvBufLen
  /\ s.rlist \in SUBSET [seq : Nat, len : Nat] /\ s.rbuf \in Seq(Nat)
  /\ s.ahead \in [1..RcvBufLen -> Nat]
  /\ s.unit \in {1, WndUnit} /\ s.mss \in MssLevels /\ s.advise \in MssLevels
  /\ s.cwnd \in Nat /\ s.ssthresh \in Nat /\ s.dup_acks \in 0..DupCap /\ s.recover \in Nat
  /\ s.rto \in BOOLEAN /\ s.t_ack \in BOOLEAN /\ s.probes \in Nat
  /\ s.readEnable \in BOOLEAN /\ s.writeEnable \in BOOLEAN
  /\ s.out \in SUBSET Segment /\ s.room \in MssLevels \cup {0}

\* The sender's half: the segments describe the buffer, the timer runs while
\* bytes are in flight, and a window is closed only after bytes were sent.
SndInv(s) ==
  /\ s.snd_una <= s.snd_nxt /\ s.snd_nxt <= s.snd_una + Len(s.sbuf)
  /\ Listed(s.slist, s.snd_una, s.snd_una + Len(s.sbuf), s.snd_nxt)
  /\ Len(s.sbuf) <= SndBufLen
  /\ s.recover <= s.snd_nxt
  /\ s.rto = (s.snd_una < s.snd_nxt)
  /\ s.state = "LISTEN" => s.snd_nxt = 0 /\ s.sbuf = <<>>
  /\ s.snd_nxt = 0 => s.snd_wnd > 0
  /\ s.cwnd > 0 /\ s.ssthresh > 0

\* The right edge of the window that the receiver's half has announced.
Edge(s) == s.rcv_nxt + s.rcv_wnd

\* The receiver's half: what is announced fits the buffer, and so does what was saved.
RcvInv(s) ==
  /\ s.rcv_wnd + Len(s.rbuf) <= RcvBufLen
  /\ RcvBufLen <= Edge(s)
  /\ \A r \in s.rlist : SegEnd(r) <= Edge(s) /\ r.len > 0

\* n is a place where an acknowledgment may end: before what is unacknowledged,
\* or at the end of a segment that was sent.
Bound(s, n) == n <= s.snd_una \/ EndsAt(s.slist, n)

\* The sender's half of s and the receiver's half of r: everything received
\* was sent, in whole segments, and what was sent is within the window.
Pair(s, r) ==
  /\ r.rcv_nxt <= s.snd_nxt /\ Bound(s, r.rcv_nxt)
  /\ \A g \in r.rlist : SegEnd(g) <= s.snd_nxt /\ Bound(s, SegEnd(g))
  /\ s.snd_una <= r.rcv_nxt
  /\ s.snd_una + s.snd_wnd <= Edge(r) /\ s.snd_nxt <= Edge(r)

\* A packet p that s wrote for q, however old it is.
Good(s, p, q) ==
  /\ p.data # <<>> => p.seq + Len(p.data) <= s.snd_nxt /\ Bound(s, p.seq + Len(p.data))
  /\ p.ack <= s.rcv_nxt /\ Bound(q, p.ack)
  /\ p.ack = 0 => p.wnd > 0
  /\ p.wnd * WndUnit <= RcvBufLen /\ p.ack + p.wnd * WndUnit <= Edge(s)

\* The state of an endpoint in a handler, with q for its peer.
Handling(s, q) ==
  /\ IsTcp(s) /\ SndInv(s) /\ RcvInv(s)
  /\ Pair(s, q) /\ Pair(q, s)
  /\ \A p \in s.out : Good(s, p, q)

\* What no step of an endpoint takes back.
Later(s, t) ==
  /\ s.snd_nxt <= t.snd_nxt /\ s.rcv_nxt <= t.rcv_nxt /\ Edge(s) <= Edge(t)
  /\ t.room = s.room
  /\ \A n \in Nat : Bound(s, n) => Bound(t, n)

LEMMA Numbers ==
  ASSUME NEW s, IsTcp(s)
  PROVE  /\ s.snd_una \in Nat /\ s.snd_nxt \in Nat /\ s.snd_wnd \in Nat /\ s.rcv_nxt \in Nat
         /\ s.rcv_wnd \in Nat /\ Edge(s) \in Nat /\ Len(s.sbuf) \in Nat /\ Len(s.rbuf) \in Nat
         /\ s.mss \in Nat /\ s.mss > 0 /\ s.snd_wnd <= RcvBufLen /\ s.rcv_wnd <= RcvBufLen
         /\ s.advise \in Nat /\ s.advise > 0
         /\ s.slist \in Seq(SSegment) /\ s.sbuf \in Seq(Nat) /\ s.rbuf \in Seq(Nat)
         /\ \A r \in s.rlist : r.seq \in Nat /\ r.len \in Nat /\ SegEnd(r) \in Nat
<1>1. s.rcv_nxt \in Nat /\ s.rcv_wnd \in Nat /\ s.rcv_wnd <= RcvBufLen
  BY Constants DEF IsTcp
<1>2. s.snd_una \in Nat /\ s.snd_nxt \in Nat /\ s.snd_wnd \in Nat /\ s.snd_wnd <= RcvBufLen
  BY Constants DEF IsTcp
<1>3. s.mss \in Nat /\ s.mss > 0 /\ s.advise \in Nat /\ s.advise > 0
  BY Constants DEF IsTcp
<1>4. /\ s.slist \in Seq(SSegment) /\ s.sbuf \in Seq(Nat) /\ s.rbuf \in Seq(Nat)
      /\ Len(s.sbuf) \in Nat /\ Len(s.rbuf) \in Nat
  BY DEF IsTcp
<1>5. \A r \in s.rlist : r.seq \in Nat /\ r.len \in Nat /\ SegEnd(r) \in Nat
  <2>1. \A r \in [seq : Nat, len : Nat] : r.seq \in Nat /\ r.len \in Nat /\ SegEnd(r) \in Nat
    BY DEF SegEnd
  <2> QED
    BY <2>1 DEF IsTcp
<1> QED
  BY <1>1, <1>2, <1>3, <1>4, <1>5 DEF Edge

LEMMA LaterTrans ==
  ASSUME NEW s, NEW t, NEW u, IsTcp(s), IsTcp(t), IsTcp(u), Later(s, t), Later(t, u)
  PROVE  Later(s, u)
  BY Numbers DEF Later

\* A packet stays good while its sender, or its receiver, goes on.
LEMMA GoodLater ==
  ASSUME NEW s, NEW t, NEW q, NEW p \in Segment, IsTcp(s), IsTcp(t), Later(s, t), Good(s, p, q)
  PROVE  Good(t, p, q)
<1>1. p.seq \in Nat /\ p.ack \in Nat /\ p.wnd \in Nat /\ Len(p.data) \in Nat
  BY DEF Segment
<1>2. p.wnd * WndUnit \in Nat
  BY <1>1, Constants
<1>3. p.data # <<>> => p.seq + Len(p.data) <= t.snd_nxt /\ Bound(t, p.seq + Len(p.data))
  <2>1. p.seq + Len(p.data) \in Nat
    BY <1>1
  <2> QED
    BY <2>1, Numbers DEF Good, Later
<1>4. p.ack <= t.rcv_nxt /\ p.ack + p.wnd * WndUnit <= Edge(t)
  BY <1>1, <1>2, Numbers DEF Good, Later
<1> QED
  BY <1>3, <1>4 DEF Good

LEMMA GoodPeerLater ==
  ASSUME NEW s, NEW q, NEW r, NEW p \in Segment, Later(q, r), Good(s, p, q)
  PROVE  Good(s, p, r)
<1>1. p.ack \in Nat
  BY DEF Segment
<1> QED
  BY <1>1 DEF Good, Later

\* The two halves of an endpoint, unchanged.
SameSnd(s, t) ==
  /\ t.snd_una = s.snd_una /\ t.snd_nxt = s.snd_nxt /\ t.snd_wnd = s.snd_wnd
  /\ t.slist = s.slist /\ t.sbuf = s.sbuf /\ t.recover = s.recover /\ t.rto = s.rto

SameRcv(s, t) ==
  /\ t.rcv_nxt = s.rcv_nxt /\ t.rcv_wnd = s.rcv_wnd /\ t.rlist = s.rlist /\ t.rbuf = s.rbuf

LEMMA RcvSame ==
  ASSUME NEW s, NEW t, NEW q, SameRcv(s, t), RcvInv(s), Pair(q, s)
  PROVE  RcvInv(t) /\ Pair(q, t) /\ Edge(t) = Edge(s)
  BY DEF SameRcv, RcvInv, Pair, Edge

LEMMA SndSame ==
  ASSUME NEW s, NEW t, NEW q, SameSnd(s, t), SndInv(s), Pair(s, q),
         t.cwnd > 0, t.ssthresh > 0, t.state = "LISTEN" => s.state = "LISTEN"
  PROVE  SndInv(t) /\ Pair(t, q) /\ \A n : Bound(s, n) => Bound(t, n)
  BY DEF SameSnd, SndInv, Pair, Bound

\* A change to the fields that neither half is about, and perhaps a new packet.
LEMMA Aside ==
  ASSUME NEW s, NEW t, NEW q, Handling(s, q), IsTcp(t), SameSnd(s, t), SameRcv(s, t),
         t.cwnd > 0, t.ssthresh > 0, t.state = "LISTEN" => s.state = "LISTEN",
         t.room = s.room, \A p \in t.out : p \in s.out \/ Good(t, p, q)
  PROVE  Handling(t, q) /\ Later(s, t)
<1>1. RcvInv(t) /\ Pair(q, t) /\ Edge(t) = Edge(s)
  BY RcvSame DEF Handling
<1>2. SndInv(t) /\ Pair(t, q) /\ \A n : Bound(s, n) => Bound(t, n)
  BY SndSame DEF Handling
<1>3. Later(s, t)
  <2>1. s.snd_nxt <= t.snd_nxt /\ s.rcv_nxt <= t.rcv_nxt /\ Edge(s) <= Edge(t)
    BY <1>1, Numbers DEF SameSnd, SameRcv, Handling
  <2> QED
    BY <1>2, <2>1 DEF Later
<1>4. \A p \in t.out : Good(t, p, q)
  <2> TAKE p \in t.out
  <2>1. p \in Segment
    BY DEF IsTcp
  <2>2. CASE p \in s.out
    BY <1>3, <2>1, <2>2, GoodLater DEF Handling
  <2> QED
    BY <2>2
<1> QED
  BY <1>1, <1>2, <1>3, <1>4 DEF Handling

----------------------------------------------------------------------------
(* Sending                                                                 *)

\* What packet() writes of the receiver's half.
LEMMA AckGood ==
  ASSUME NEW s, NEW q, IsTcp(s), RcvInv(s), Pair(q, s), NEW w, w = s.rcv_wnd \div WndUnit
  PROVE  /\ w \in Nat /\ s.rcv_nxt \in Nat /\ Bound(q, s.rcv_nxt)
         /\ s.rcv_nxt = 0 => w > 0
         /\ w * WndUnit <= RcvBufLen /\ s.rcv_nxt + w * WndUnit <= Edge(s)
<1>1. s.rcv_nxt \in Nat /\ s.rcv_wnd \in Nat /\ s.rcv_wnd <= RcvBufLen
  BY Numbers
<1>2. w \in Nat /\ w * WndUnit <= s.rcv_wnd /\ (WndUnit <= s.rcv_wnd => w > 0)
  BY <1>1, Constants, Quotient
<1>3. s.rcv_nxt = 0 => WndUnit <= s.rcv_wnd
  BY <1>1, Constants DEF RcvInv, Edge
<1>4. w * WndUnit \in Nat
  BY <1>2, Constants
<1>5. w * WndUnit <= RcvBufLen /\ s.rcv_nxt + w * WndUnit <= Edge(s)
  BY <1>1, <1>2, <1>4, Constants DEF Edge
<1> QED
  BY <1>1, <1>2, <1>3, <1>5 DEF Pair

\* An endpoint with other packets, and no acknowledgment due.
WithOut(s, o) == [s EXCEPT !.out = o, !.t_ack = FALSE]

LEMMA WithOutIs ==
  ASSUME NEW s, IsTcp(s), NEW o \in SUBSET Segment
  PROVE  /\ IsTcp(WithOut(s, o)) /\ SameSnd(s, WithOut(s, o)) /\ SameRcv(s, WithOut(s, o))
         /\ WithOut(s, o).cwnd = s.cwnd /\ WithOut(s, o).ssthresh = s.ssthresh
         /\ WithOut(s, o).state = s.state /\ WithOut(s, o).room = s.room
         /\ WithOut(s, o).out = o
<1>1. PICK t : t = WithOut(s, o)
  OBVIOUS
<1>2. DOMAIN s = Fields
  BY DEF IsTcp
<1>3. IsTcp(t)
  BY <1>1 DEF WithOut, IsTcp, Fields
<1>4. /\ SameSnd(s, t) /\ SameRcv(s, t) /\ t.cwnd = s.cwnd
      /\ t.ssthresh = s.ssthresh /\ t.state = s.state /\ t.room = s.room /\ t.out = o
  BY <1>1, <1>2 DEF WithOut, Fields, SameSnd, SameRcv
<1> QED
  BY <1>1, <1>3, <1>4

\* A packet without data: an acknowledgment or a probe.
LEMMA PacketKeeps ==
  ASSUME NEW s, NEW q, Handling(s, q), NEW seq \in Nat,
         NEW t, t = Packet(s, seq, FALSE, <<>>)
  PROVE  Handling(t, q) /\ Later(s, t)
<1> DEFINE w == s.rcv_wnd \div WndUnit
           p == [seq |-> seq, ctl |-> FALSE, data |-> <<>>, ack |-> s.rcv_nxt, wnd |-> w]
<1>1. IsTcp(s) /\ RcvInv(s) /\ Pair(q, s) /\ SndInv(s)
  BY DEF Handling
<1>2. /\ w \in Nat /\ s.rcv_nxt \in Nat /\ Bound(q, s.rcv_nxt) /\ (s.rcv_nxt = 0 => w > 0)
      /\ w * WndUnit <= RcvBufLen /\ s.rcv_nxt + w * WndUnit <= Edge(s)
  BY <1>1, AckGood
<1>3. p \in Segment
  <2> HIDE DEF w
  <2>1. <<>> \in Seq(Nat)
    OBVIOUS
  <2> QED
    BY <1>2, <2>1 DEF Segment
<1>4. p.data = <<>> /\ p.ack = s.rcv_nxt /\ p.wnd = w
  OBVIOUS
<1>5. t = [s EXCEPT !.out = s.out \cup {p}, !.t_ack = FALSE]
  BY <1>1 DEF Packet, IsTcp, Fields
<1> HIDE DEF w, p
<1>6. s.out \cup {p} \in SUBSET Segment
  BY <1>1, <1>3 DEF IsTcp
<1>7. /\ IsTcp(t) /\ SameSnd(s, t) /\ SameRcv(s, t) /\ t.cwnd = s.cwnd
      /\ t.ssthresh = s.ssthresh /\ t.state = s.state /\ t.room = s.room
      /\ t.out = s.out \cup {p}
  <2>1. PICK o \in SUBSET Segment : o = s.out \cup {p}
    BY <1>6
  <2>2. t = WithOut(s, o)
    BY <1>5, <2>1, Zenon DEF WithOut
  <2>3. IsTcp(s)
    BY <1>1
  <2>4. /\ IsTcp(WithOut(s, o)) /\ SameSnd(s, WithOut(s, o)) /\ SameRcv(s, WithOut(s, o))
        /\ WithOut(s, o).cwnd = s.cwnd /\ WithOut(s, o).ssthresh = s.ssthresh
        /\ WithOut(s, o).state = s.state /\ WithOut(s, o).room = s.room
        /\ WithOut(s, o).out = o
    BY <2>1, <2>3, WithOutIs
  <2> QED
    BY <2>1, <2>2, <2>4
<1>8. Good(t, p, q)
  <2>1. t.rcv_nxt = s.rcv_nxt /\ Edge(t) = Edge(s)
    BY <1>7 DEF SameRcv, Edge
  <2>2. p.ack <= t.rcv_nxt
    <3>1. s.rcv_nxt <= s.rcv_nxt
      BY <1>1, Numbers
    <3> QED
      BY <1>4, <2>1, <3>1, Zenon
  <2> QED
    BY <1>2, <1>4, <2>1, <2>2, Zenon DEF Good
<1>9. t.cwnd > 0 /\ t.ssthresh > 0
  BY <1>1, <1>7 DEF SndInv
<1> QED
  BY <1>7, <1>8, <1>9, Aside

\* A new list of segments, with more of them sent, and perhaps a new packet.
LEMMA Relisted ==
  ASSUME NEW s, NEW t, NEW q, Handling(s, q), IsTcp(q), IsTcp(t), SameRcv(s, t),
         t.snd_una = s.snd_una, t.sbuf = s.sbuf, t.snd_wnd = s.snd_wnd,
         t.recover = s.recover, t.state = s.state, t.room = s.room,
         t.cwnd > 0, t.ssthresh > 0,
         Listed(t.slist, s.snd_una, s.snd_una + Len(s.sbuf), t.snd_nxt),
         s.snd_nxt <= t.snd_nxt, t.snd_nxt <= s.snd_una + Len(s.sbuf), t.snd_nxt <= Edge(q),
         t.rto = (s.snd_una < t.snd_nxt), s.state = "LISTEN" => t.snd_nxt = 0,
         \A m : EndsAt(s.slist, m) => EndsAt(t.slist, m),
         \A p \in t.out : p \in s.out \/ Good(t, p, q)
  PROVE  Handling(t, q) /\ Later(s, t)
<1>1. /\ IsTcp(s) /\ SndInv(s) /\ RcvInv(s) /\ Pair(s, q) /\ Pair(q, s)
      /\ \A p \in s.out : Good(s, p, q)
  BY DEF Handling
<1>2. RcvInv(t) /\ Pair(q, t) /\ Edge(t) = Edge(s)
  BY <1>1, RcvSame
<1>3. \A n : Bound(s, n) => Bound(t, n)
  BY DEF Bound
<1>4. /\ s.snd_una \in Nat /\ s.snd_nxt \in Nat /\ t.snd_nxt \in Nat /\ s.rcv_nxt \in Nat
      /\ Edge(s) \in Nat /\ s.recover \in Nat
  BY <1>1, Numbers DEF IsTcp
<1>5. Later(s, t)
  <2>1. s.rcv_nxt <= t.rcv_nxt /\ Edge(s) <= Edge(t)
    BY <1>2, <1>4 DEF SameRcv
  <2> QED
    BY <1>3, <2>1 DEF Later
<1>6. SndInv(t)
  <2>1. t.recover <= t.snd_nxt /\ t.snd_una <= t.snd_nxt
    BY <1>1, <1>4 DEF SndInv
  <2>2. t.snd_nxt = 0 => t.snd_wnd > 0
    BY <1>1, <1>4 DEF SndInv
  <2> QED
    BY <1>1, <2>1, <2>2 DEF SndInv
<1>7. Pair(t, q)
  <2>1. q.rcv_nxt <= t.snd_nxt /\ Bound(t, q.rcv_nxt)
    <3>1. q.rcv_nxt \in Nat /\ q.rcv_nxt <= s.snd_nxt /\ Bound(s, q.rcv_nxt)
      BY <1>1, Numbers DEF Pair
    <3> QED
      BY <1>3, <1>4, <3>1
  <2>2. \A g \in q.rlist : SegEnd(g) <= t.snd_nxt /\ Bound(t, SegEnd(g))
    <3> TAKE g \in q.rlist
    <3>1. SegEnd(g) \in Nat /\ SegEnd(g) <= s.snd_nxt /\ Bound(s, SegEnd(g))
      BY <1>1, Numbers DEF Pair
    <3> QED
      BY <1>3, <1>4, <3>1
  <2> QED
    BY <1>1, <2>1, <2>2 DEF Pair
<1>8. \A p \in t.out : Good(t, p, q)
  <2> TAKE p \in t.out
  <2>1. p \in Segment
    BY DEF IsTcp
  <2> QED
    BY <1>1, <1>5, <2>1, GoodLater
<1> QED
  BY <1>2, <1>5, <1>6, <1>7, <1>8 DEF Handling

\* The size of a packet: something, no more than the segment has and the path takes.
LEMMA SizeIs ==
  ASSUME NEW s, IsTcp(s), s.room > 0, NEW len \in Nat, len > 0,
         NEW want, want = Min({len, s.mss}), NEW n, n = TransmitSize(s, want)
  PROVE  /\ n \in Nat /\ 0 < n /\ n <= len /\ want \in Nat
         /\ n < want => n \in MssLevels
<1>1. s.mss \in Nat /\ s.mss > 0
  BY Numbers
<1>2. want \in Nat /\ want > 0 /\ want <= len
  BY <1>1, OfTwo
<1>3. CASE ~(want > s.room)
  BY <1>2, <1>3 DEF TransmitSize
<1>4. CASE want > s.room
  <2> DEFINE small == {m \in MssLevels : m <= s.room}
  <2>1. s.room \in MssLevels /\ s.room \in Nat /\ s.room <= s.room
    <3>1. s.room \in MssLevels \cup {0}
      BY DEF IsTcp
    <3>2. CASE s.room = 0
      BY <3>2
    <3>3. CASE s.room \in MssLevels
      <4>1. s.room \in Nat
        BY <3>3, Constants
      <4>2. \A k \in Nat : k <= k
        OBVIOUS
      <4> QED
        BY <3>3, <4>1, <4>2, Zenon
    <3> QED
      BY <3>1, <3>2, <3>3
  <2>2. small \subseteq Nat /\ s.room \in small
    <3>1. MssLevels \subseteq Nat
      BY Constants
    <3> QED
      BY <2>1, <3>1, Zenon
  <2>3. n = Max(small)
    BY <1>4 DEF TransmitSize
  <2>4. n \in small
    <3>1. \A m \in small : m <= s.room
      OBVIOUS
    <3> HIDE DEF small
    <3> QED
      BY <2>1, <2>2, <2>3, <3>1, MaxOf
  <2>5. n \in MssLevels /\ n <= s.room
    BY <2>4
  <2>6. n \in Nat /\ n > 0
    BY <2>5, Constants
  <2> QED
    BY <1>2, <1>4, <2>1, <2>5, <2>6
<1> QED
  BY <1>3, <1>4

\* The i-th segment, of which n bytes are sent.
LEMMA SendSegment ==
  ASSUME NEW L \in Seq(SSegment), NEW a \in Nat, NEW b \in Nat, NEW nxt \in Nat,
         Listed(L, a, b, nxt), a <= nxt, nxt <= b, NEW i \in 1..Len(L),
         NEW n \in Nat, 0 < n, n <= L[i].len,
         L[i].xmit > 0 \/ (L[i].xmit = 0 /\ L[i].seq = nxt),
         NEW M, M = MarkSent(CutSegment(L, i, n), i),
         NEW N, N = IF L[i].xmit = 0 THEN nxt + n ELSE nxt
  PROVE  /\ M \in Seq(SSegment) /\ Listed(M, a, b, N)
         /\ EndsAt(M, L[i].seq + n) /\ \A m : EndsAt(L, m) => EndsAt(M, m)
         /\ N \in Nat /\ nxt <= N /\ N <= b /\ a < N /\ L[i].seq + n <= N
         /\ N = nxt \/ N <= SegEnd(L[i])
         /\ L[i].seq - a \in Nat /\ (L[i].seq - a) + n <= b - a
<1> DEFINE C == CutSegment(L, i, n)
<1>1. PICK seq \in Nat, len \in Nat, xmit \in Nat :
        /\ seq = L[i].seq /\ len = L[i].len /\ xmit = L[i].xmit /\ SegEnd(L[i]) = seq + len
  BY SegmentTypes DEF SegEnd
<1>2. /\ a <= seq /\ seq + len <= b
      /\ IF xmit > 0 THEN seq + len <= nxt ELSE nxt <= seq
  <2>1. a <= L[i].seq /\ SegEnd(L[i]) <= b
    BY Within
  <2>2. IF L[i].xmit > 0 THEN SegEnd(L[i]) <= nxt ELSE nxt <= L[i].seq
    BY DEF Listed
  <2> QED
    BY <1>1, <2>1, <2>2, Zenon
<1>3. xmit > 0 \/ (xmit = 0 /\ seq = nxt)
  BY <1>1
<1>4. N = IF xmit = 0 THEN nxt + n ELSE nxt
  BY <1>1
<1>5. n <= len
  BY <1>1
<1>6. /\ N \in Nat /\ nxt <= N /\ N <= b /\ a < N /\ seq + n <= N
      /\ N = nxt \/ N <= seq + len
      /\ seq - a \in Nat /\ (seq - a) + n <= b - a
  <2>1. CASE xmit > 0
    <3>1. seq + len <= nxt /\ N = nxt
      BY <1>2, <1>4, <2>1
    <3> QED
      BY <1>2, <1>5, <3>1
  <2>2. CASE xmit = 0 /\ seq = nxt
    <3>1. N = nxt + n
      BY <1>4, <2>2
    <3> QED
      BY <1>2, <1>5, <2>2, <3>1
  <2> QED
    BY <1>3, <2>1, <2>2
<1>7. /\ C \in Seq(SSegment) /\ Listed(C, a, b, nxt)
      /\ \A m : EndsAt(L, m) => EndsAt(C, m)
      /\ i \in 1..Len(C) /\ C[i].seq = seq /\ C[i].xmit = xmit
      /\ C[i].len = n
  <2>1. /\ C \in Seq(SSegment) /\ Listed(C, a, b, nxt)
        /\ \A m : EndsAt(L, m) => EndsAt(C, m)
        /\ i \in 1..Len(C) /\ C[i].seq = L[i].seq /\ C[i].xmit = L[i].xmit
        /\ C[i].len = IF n < L[i].len THEN n ELSE L[i].len
    BY CutKeeps
  <2> HIDE DEF C
  <2> QED
    BY <1>1, <1>5, <2>1
<1>8. M = MarkSent(C, i)
  OBVIOUS
<1> HIDE DEF C
<1>9. SegEnd(C[i]) = seq + n
  BY <1>7 DEF SegEnd
<1>10. /\ M \in Seq(SSegment) /\ Listed(M, a, b, N)
       /\ EndsAt(M, SegEnd(C[i])) /\ \A m : EndsAt(C, m) => EndsAt(M, m)
  <2>1. \/ C[i].xmit > 0 /\ N = nxt
        \/ C[i].xmit = 0 /\ C[i].seq = nxt /\ N = SegEnd(C[i])
    BY <1>1, <1>3, <1>4, <1>7, <1>9
  <2>2. C \in Seq(SSegment) /\ Listed(C, a, b, nxt) /\ i \in 1..Len(C) /\ N \in Nat
    BY <1>6, <1>7
  <2> QED
    BY <1>8, <2>1, <2>2, SentKeeps, SMTT(30)
<1>11. EndsAt(M, L[i].seq + n)
  BY <1>1, <1>9, <1>10
<1>12. \A m : EndsAt(L, m) => EndsAt(M, m)
  BY <1>7, <1>10
<1> QED
  BY <1>1, <1>6, <1>10, <1>11, <1>12

LEMMA Piece ==
  ASSUME NEW b \in Seq(Nat), NEW from \in Nat, NEW n \in Nat, from + n <= Len(b)
  PROVE  SubSeq(b, from + 1, from + n) \in Seq(Nat) /\ Len(SubSeq(b, from + 1, from + n)) = n
<1>1. \A j \in (from + 1)..(from + n) : b[j] \in Nat
  <2> TAKE j \in (from + 1)..(from + n)
  <2>1. j \in 1..Len(b)
    OBVIOUS
  <2> QED
    BY <2>1
<1>2. SubSeq(b, from + 1, from + n) \in Seq(Nat)
  BY <1>1, SubSeqProperties
<1>3. Len(SubSeq(b, from + 1, from + n))
        = IF from + 1 <= from + n THEN (from + n) - (from + 1) + 1 ELSE 0
  BY <1>1, SubSeqProperties
<1> QED
  BY <1>2, <1>3

LEMMA TransmitBytesIs ==
  ASSUME NEW s, NEW i, NEW g, NEW n
  PROVE  TransmitBytes(s, i, g, n)
           = [Packet(s, g.seq, g.ctl,
                     SubSeq(s.sbuf, (g.seq - s.snd_una) + 1, (g.seq - s.snd_una) + n)) EXCEPT
                !.mss = IF n < Min({g.len, s.mss}) THEN n ELSE @,
                !.cwnd = IF n < Min({g.len, s.mss}) THEN 2 * n ELSE @,
                !.slist = MarkSent(CutSegment(@, i, n), i),
                !.snd_nxt = IF g.xmit = 0 THEN @ + n ELSE @,
                !.rto = TRUE]
  BY DEF TransmitBytes

LEMMA SentTypes ==
  ASSUME NEW u, IsTcp(u), NEW m \in MssLevels, NEW c \in Nat, NEW M \in Seq(SSegment), NEW N \in Nat
  PROVE  IsTcp([u EXCEPT !.mss = m, !.cwnd = c, !.slist = M, !.snd_nxt = N, !.rto = TRUE])
  BY DEF IsTcp, Fields

\* transmit(): n bytes of the i-th segment, which was sent before or is the first
\* that was not.
LEMMA TransmitBytesKeeps ==
  ASSUME NEW s, NEW q, Handling(s, q), IsTcp(q), NEW i \in 1..Len(s.slist),
         NEW g, g = s.slist[i],
         \/ g.xmit > 0
         \/ g.xmit = 0 /\ g.seq = s.snd_nxt /\ SegEnd(g) <= s.snd_una + s.snd_wnd,
         NEW n \in Nat, 0 < n, n <= g.len, NEW want, want = Min({g.len, s.mss}),
         n < want => n \in MssLevels,
         NEW t, t = TransmitBytes(s, i, g, n)
  PROVE  Handling(t, q) /\ Later(s, t)
<1>1. /\ IsTcp(s) /\ SndInv(s) /\ RcvInv(s) /\ Pair(s, q) /\ Pair(q, s)
  BY DEF Handling
<1>2. PICK L, a, b, nxt :
        /\ L = s.slist /\ a = s.snd_una /\ b = s.snd_una + Len(s.sbuf) /\ nxt = s.snd_nxt
  OBVIOUS
<1>3. /\ L \in Seq(SSegment) /\ a \in Nat /\ b \in Nat /\ nxt \in Nat /\ i \in 1..Len(L)
      /\ a <= nxt /\ nxt <= b /\ Listed(L, a, b, nxt) /\ g = L[i]
  <2>1. s.snd_una \in Nat /\ s.snd_nxt \in Nat /\ s.snd_una + Len(s.sbuf) \in Nat
    BY <1>1, Numbers
  <2> QED
    BY <1>1, <1>2, <2>1 DEF SndInv, IsTcp
<1>4. /\ g.seq \in Nat /\ g.len \in Nat /\ g.ctl \in BOOLEAN /\ SegEnd(g) \in Nat
      /\ g.xmit \in Nat /\ a <= g.seq /\ SegEnd(g) <= b /\ g.seq < SegEnd(g)
  <2>1. a <= L[i].seq /\ SegEnd(L[i]) <= b /\ L[i].seq < SegEnd(L[i])
    BY <1>3, Within
  <2> QED
    BY <1>3, <2>1, SegmentTypes
<1>5. g.xmit > 0 \/ (g.xmit = 0 /\ g.seq = nxt)
  BY <1>2
<1>6. PICK M : M = MarkSent(CutSegment(L, i, n), i)
  OBVIOUS
<1>7. PICK N : N = IF g.xmit = 0 THEN nxt + n ELSE nxt
  OBVIOUS
<1>8. /\ M \in Seq(SSegment) /\ Listed(M, a, b, N)
      /\ EndsAt(M, g.seq + n) /\ \A m : EndsAt(L, m) => EndsAt(M, m)
      /\ N \in Nat /\ nxt <= N /\ N <= b /\ a < N /\ g.seq + n <= N
      /\ N = nxt \/ N <= SegEnd(g)
      /\ g.seq - a \in Nat /\ (g.seq - a) + n <= b - a
  BY <1>3, <1>5, <1>6, <1>7, SendSegment, SMTT(30)
<1>9. N <= Edge(q)
  <2>1. /\ Edge(q) \in Nat /\ nxt <= Edge(q) /\ a + s.snd_wnd <= Edge(q) /\ s.snd_wnd \in Nat
    BY <1>1, <1>2, Numbers DEF Pair
  <2>2. CASE g.xmit > 0
    <3>1. N = nxt
      BY <1>4, <1>7, <2>2
    <3> QED
      BY <2>1, <3>1
  <2>3. CASE g.xmit = 0 /\ SegEnd(g) <= a + s.snd_wnd
    <3>1. N \in Nat /\ (N = nxt \/ N <= SegEnd(g)) /\ SegEnd(g) \in Nat /\ a \in Nat
      BY <1>3, <1>4, <1>8
    <3> QED
      BY <2>1, <2>3, <3>1
  <2> QED
    BY <1>2, <2>2, <2>3
<1>10. PICK data : data = SubSeq(s.sbuf, (g.seq - a) + 1, (g.seq - a) + n)
  OBVIOUS
<1>11. data \in Seq(Nat) /\ Len(data) = n
  <2>1. PICK from \in Nat : from = g.seq - a
    BY <1>8
  <2>2. s.sbuf \in Seq(Nat) /\ Len(s.sbuf) \in Nat
    BY <1>1, Numbers
  <2>3. from + n <= Len(s.sbuf)
    <3>1. b - a = Len(s.sbuf)
      BY <1>2, <1>3, <2>2
    <3> QED
      BY <1>8, <2>1, <3>1
  <2> QED
    BY <1>10, <2>1, <2>2, <2>3, Piece
<1>12. PICK w : w = s.rcv_wnd \div WndUnit
  OBVIOUS
<1>13. /\ w \in Nat /\ s.rcv_nxt \in Nat /\ Bound(q, s.rcv_nxt) /\ (s.rcv_nxt = 0 => w > 0)
       /\ w * WndUnit <= RcvBufLen /\ s.rcv_nxt + w * WndUnit <= Edge(s)
  BY <1>1, <1>12, AckGood
<1>14. PICK p :
         p = [seq |-> g.seq, ctl |-> g.ctl, data |-> data, ack |-> s.rcv_nxt, wnd |-> w]
  OBVIOUS
<1>15. p \in Segment
  BY <1>4, <1>11, <1>13, <1>14 DEF Segment
<1>16. p.seq = g.seq /\ p.data = data /\ p.ack = s.rcv_nxt /\ p.wnd = w
  BY <1>14
<1>17. PICK u : u = [s EXCEPT !.out = s.out \cup {p}, !.t_ack = FALSE]
  OBVIOUS
<1>18. IsTcp(u)
  <2>1. s.out \cup {p} \in SUBSET Segment
    BY <1>1, <1>15 DEF IsTcp
  <2> QED
    BY <1>1, <1>17, <2>1 DEF IsTcp, Fields
<1>19. /\ SameRcv(s, u) /\ u.snd_una = s.snd_una /\ u.sbuf = s.sbuf /\ u.snd_wnd = s.snd_wnd
       /\ u.recover = s.recover /\ u.state = s.state /\ u.room = s.room /\ u.mss = s.mss
       /\ u.cwnd = s.cwnd /\ u.slist = s.slist /\ u.snd_nxt = s.snd_nxt
       /\ u.ssthresh = s.ssthresh /\ u.out = s.out \cup {p}
  BY <1>1, <1>17 DEF IsTcp, Fields, SameRcv
<1>20. PICK m2, c2 : /\ m2 = IF n < want THEN n ELSE u.mss
                     /\ c2 = IF n < want THEN 2 * n ELSE u.cwnd
  OBVIOUS
<1>29. m2 \in MssLevels /\ c2 \in Nat /\ c2 > 0
  <2>1. u.mss \in MssLevels /\ u.cwnd \in Nat /\ u.cwnd > 0
    BY <1>1, <1>18, <1>19 DEF IsTcp, SndInv
  <2> QED
    BY <1>20, <2>1
<1>30. t = [u EXCEPT !.mss = m2, !.cwnd = c2, !.slist = M, !.snd_nxt = N, !.rto = TRUE]
  <2>1. Packet(s, g.seq, g.ctl, SubSeq(s.sbuf, (g.seq - s.snd_una) + 1, (g.seq - s.snd_una) + n)) = u
    BY <1>2, <1>10, <1>12, <1>14, <1>17, Zenon DEF Packet
  <2>2. t = [u EXCEPT !.mss = IF n < want THEN n ELSE @,
                      !.cwnd = IF n < want THEN 2 * n ELSE @,
                      !.slist = MarkSent(CutSegment(@, i, n), i),
                      !.snd_nxt = IF g.xmit = 0 THEN @ + n ELSE @,
                      !.rto = TRUE]
    BY <2>1, TransmitBytesIs, Zenon
  <2>3. M = MarkSent(CutSegment(u.slist, i, n), i)
    BY <1>2, <1>6, <1>19
  <2>4. N = IF g.xmit = 0 THEN u.snd_nxt + n ELSE u.snd_nxt
    BY <1>2, <1>7, <1>19
  <2> QED
    BY <1>18, <1>20, <2>2, <2>3, <2>4 DEF IsTcp, Fields
<1>31. IsTcp(t)
  <2>1. M \in Seq(SSegment) /\ N \in Nat /\ m2 \in MssLevels /\ c2 \in Nat
    BY <1>8, <1>29
  <2>2. IsTcp([u EXCEPT !.mss = m2, !.cwnd = c2, !.slist = M, !.snd_nxt = N, !.rto = TRUE])
    BY <1>18, <2>1, SentTypes, Zenon
  <2> QED
    BY <1>30, <2>2, Zenon
<1>32. /\ SameRcv(s, t) /\ t.snd_una = s.snd_una /\ t.sbuf = s.sbuf /\ t.snd_wnd = s.snd_wnd
       /\ t.recover = s.recover /\ t.state = s.state /\ t.room = s.room
       /\ t.cwnd = c2 /\ t.ssthresh = s.ssthresh /\ t.slist = M /\ t.snd_nxt = N
       /\ t.rto = TRUE /\ t.out = s.out \cup {p}
  <2>1. /\ SameRcv(u, t) /\ t.snd_una = u.snd_una /\ t.sbuf = u.sbuf /\ t.snd_wnd = u.snd_wnd
        /\ t.recover = u.recover /\ t.state = u.state /\ t.room = u.room
        /\ t.cwnd = c2 /\ t.ssthresh = u.ssthresh /\ t.slist = M /\ t.snd_nxt = N
        /\ t.rto = TRUE /\ t.out = u.out
    BY <1>18, <1>30 DEF IsTcp, Fields, SameRcv
  <2> QED
    BY <1>19, <2>1 DEF SameRcv
<1>33. Good(t, p, q)
  <2>1. t.rcv_nxt = s.rcv_nxt /\ Edge(t) = Edge(s)
    BY <1>32 DEF SameRcv, Edge
  <2>2. p.ack <= t.rcv_nxt
    <3>1. s.rcv_nxt <= s.rcv_nxt
      BY <1>1, Numbers
    <3> QED
      BY <1>16, <2>1, <3>1, Zenon
  <2>3. p.seq + Len(p.data) <= t.snd_nxt /\ Bound(t, p.seq + Len(p.data))
    <3>1. p.seq + Len(p.data) = g.seq + n
      BY <1>11, <1>16
    <3> QED
      BY <1>8, <1>32, <3>1, Zenon DEF Bound
  <2> QED
    BY <1>13, <1>16, <2>1, <2>2, <2>3, Zenon DEF Good
<1>34. s.state # "LISTEN"
  <2>1. s.state = "LISTEN" => Len(s.sbuf) = 0
    BY <1>1 DEF SndInv
  <2> SUFFICES ASSUME Len(s.sbuf) = 0 PROVE FALSE
    BY <2>1
  <2>2. b = a
    BY <1>2, <1>3
  <2> QED
    BY <1>3, <1>4, <2>2
<1>35. /\ Listed(t.slist, s.snd_una, s.snd_una + Len(s.sbuf), t.snd_nxt)
       /\ \A m : EndsAt(s.slist, m) => EndsAt(t.slist, m)
  BY <1>2, <1>8, <1>32
<1>36. /\ s.snd_nxt <= t.snd_nxt /\ t.snd_nxt <= s.snd_una + Len(s.sbuf) /\ t.snd_nxt <= Edge(q)
       /\ s.snd_una < t.snd_nxt
  BY <1>2, <1>8, <1>9, <1>32, Zenon
<1>37. t.rto = (s.snd_una < t.snd_nxt)
  BY <1>32, <1>36
<1>38. t.cwnd > 0 /\ t.ssthresh > 0
  BY <1>1, <1>29, <1>32 DEF SndInv
<1>39. \A h \in t.out : h \in s.out \/ Good(t, h, q)
  BY <1>32, <1>33
<1> QED
  BY <1>31, <1>32, <1>34, <1>35, <1>36, <1>37, <1>38, <1>39, Relisted

LEMMA TransmitKeeps ==
  ASSUME NEW s, NEW q, Handling(s, q), IsTcp(q), NEW i \in 1..Len(s.slist), s.room > 0,
         \/ s.slist[i].xmit > 0
         \/ /\ s.slist[i].xmit = 0 /\ s.slist[i].seq = s.snd_nxt
            /\ SegEnd(s.slist[i]) <= s.snd_una + s.snd_wnd,
         NEW t, t = Transmit(s, i)
  PROVE  Handling(t, q) /\ Later(s, t)
<1>1. PICK g : g = s.slist[i]
  OBVIOUS
<1>2. PICK want : want = Min({g.len, s.mss})
  OBVIOUS
<1>3. PICK n : n = TransmitSize(s, want)
  OBVIOUS
<1>4. IsTcp(s) /\ g.len \in Nat /\ g.len > 0
  <2>1. IsTcp(s) /\ s.slist \in Seq(SSegment) /\ s.slist[i].len > 0
    BY DEF Handling, IsTcp, SndInv, Listed
  <2> QED
    BY <1>1, <2>1, SegmentTypes
<1>5. n \in Nat /\ 0 < n /\ n <= g.len /\ (n < want => n \in MssLevels)
  BY <1>2, <1>3, <1>4, SizeIs
<1>6. t = TransmitBytes(s, i, g, n)
  BY <1>1, <1>2, <1>3 DEF Transmit
<1> QED
  BY <1>1, <1>2, <1>5, <1>6, TransmitBytesKeeps


\* attemptSend() sends no more than the buffer holds and the peer's window leaves.
LEMMA SendableIs ==
  ASSUME NEW s, IsTcp(s), SndInv(s), NEW n, n = Sendable(s)
  PROVE  /\ n \in Nat
         /\ n > 0 => /\ s.snd_nxt + n <= s.snd_una + Len(s.sbuf)
                     /\ s.snd_nxt + n <= s.snd_una + s.snd_wnd
<1>1. PICK una \in Nat, nxt \in Nat, wnd \in Nat, len \in Nat, mss \in Nat, cwnd \in Nat :
        /\ una = s.snd_una /\ nxt = s.snd_nxt /\ wnd = s.snd_wnd /\ len = Len(s.sbuf)
        /\ mss = s.mss /\ cwnd = s.cwnd
  BY Numbers DEF IsTcp
<1>2. una <= nxt /\ nxt <= una + len
  BY <1>1 DEF SndInv
<1>3. PICK c : c = s.cwnd + IF s.dup_acks \in {1, 2} THEN s.dup_acks * s.mss ELSE 0
  OBVIOUS
<1>4. c \in Nat
  <2>1. CASE s.dup_acks = 1
    BY <1>1, <1>3, <2>1
  <2>2. CASE s.dup_acks = 2
    BY <1>1, <1>3, <2>2
  <2>3. CASE s.dup_acks \notin {1, 2}
    BY <1>1, <1>3, <2>3
  <2> QED
    BY <2>1, <2>2, <2>3
<1>5. PICK window : window = Min({wnd, c})
  OBVIOUS
<1>6. window \in Nat /\ window <= wnd
  BY <1>4, <1>5, OfTwo
<1>7. PICK useable : useable = Max({window - (nxt - una), 0})
  OBVIOUS
<1>8. useable \in Nat /\ (useable > 0 => useable = window - (nxt - una))
  <2>1. window - (nxt - una) \in Int /\ 0 \in Int
    BY <1>6
  <2>2. useable = IF window - (nxt - una) <= 0 THEN 0 ELSE window - (nxt - una)
    BY <1>7, <2>1, OfTwo, Zenon
  <2> QED
    BY <2>1, <2>2
<1>9. PICK ready : ready = Min({len - (nxt - una), mss})
  OBVIOUS
<1>10. ready \in Nat /\ ready <= len - (nxt - una)
  BY <1>2, <1>9, OfTwo
<1>11. n = IF ready <= useable THEN ready
           ELSE IF useable * 4 < window THEN 0 ELSE useable
  BY <1>1, <1>3, <1>5, <1>7, <1>9 DEF Sendable, InFlight
<1>12. n \in Nat /\ n <= ready /\ n <= useable
  BY <1>6, <1>8, <1>10, <1>11
<1>13. n > 0 => nxt + n <= una + len /\ nxt + n <= una + wnd
  BY <1>6, <1>8, <1>10, <1>12
<1> QED
  BY <1>1, <1>12, <1>13

LEMMA ListTypes ==
  ASSUME NEW s, IsTcp(s), NEW C \in Seq(SSegment)
  PROVE  LET t == [s EXCEPT !.slist = C]
         IN /\ IsTcp(t) /\ SameRcv(s, t) /\ t.slist = C
            /\ t.snd_una = s.snd_una /\ t.snd_nxt = s.snd_nxt /\ t.sbuf = s.sbuf
            /\ t.snd_wnd = s.snd_wnd /\ t.recover = s.recover /\ t.state = s.state
            /\ t.room = s.room /\ t.cwnd = s.cwnd /\ t.ssthresh = s.ssthresh /\ t.rto = s.rto
            /\ t.out = s.out
<1>1. PICK t : t = [s EXCEPT !.slist = C]
  OBVIOUS
<1>2. IsTcp(t)
  BY <1>1 DEF IsTcp, Fields
<1>3. /\ SameRcv(s, t) /\ t.slist = C
      /\ t.snd_una = s.snd_una /\ t.snd_nxt = s.snd_nxt /\ t.sbuf = s.sbuf
      /\ t.snd_wnd = s.snd_wnd /\ t.recover = s.recover /\ t.state = s.state
      /\ t.room = s.room /\ t.cwnd = s.cwnd /\ t.ssthresh = s.ssthresh /\ t.rto = s.rto
      /\ t.out = s.out
  BY <1>1 DEF IsTcp, Fields, SameRcv
<1> QED
  BY <1>1, <1>2, <1>3, Zenon

\* The first segment that was not sent, cut after n bytes.
CutFirst(s, n) == [s EXCEPT !.slist = CutSegment(@, Unsent(s), n)]

LEMMA CutUnsent ==
  ASSUME NEW s, NEW q, Handling(s, q), IsTcp(q), s.snd_nxt < s.snd_una + Len(s.sbuf),
         NEW n \in Nat, 0 < n, NEW i, i = Unsent(s),
         NEW t, t = CutFirst(s, n)
  PROVE  /\ Handling(t, q) /\ Later(s, t) /\ t.room = s.room
         /\ t.snd_una = s.snd_una /\ t.snd_wnd = s.snd_wnd
         /\ i \in 1..Len(t.slist) /\ t.slist[i].xmit = 0 /\ t.slist[i].seq = t.snd_nxt
         /\ SegEnd(t.slist[i]) <= s.snd_nxt + n
<1>1. /\ IsTcp(s) /\ SndInv(s) /\ Pair(s, q)
  BY DEF Handling
<1>2. PICK L, a, b, nxt :
        /\ L = s.slist /\ a = s.snd_una /\ b = s.snd_una + Len(s.sbuf) /\ nxt = s.snd_nxt
  OBVIOUS
<1>3. /\ L \in Seq(SSegment) /\ a \in Nat /\ b \in Nat /\ nxt \in Nat
      /\ a <= nxt /\ nxt < b /\ Listed(L, a, b, nxt)
  <2>1. s.snd_una \in Nat /\ s.snd_nxt \in Nat /\ s.snd_una + Len(s.sbuf) \in Nat
    BY <1>1, Numbers
  <2> QED
    BY <1>1, <1>2, <2>1 DEF SndInv, IsTcp
<1>4. i \in 1..Len(L) /\ L[i].xmit = 0 /\ L[i].seq = nxt
  BY <1>2, <1>3, FirstUnsent
<1>5. PICK C : C = CutSegment(L, i, n)
  OBVIOUS
<1>6. /\ C \in Seq(SSegment) /\ Listed(C, a, b, nxt)
      /\ \A m : EndsAt(L, m) => EndsAt(C, m)
      /\ i \in 1..Len(C) /\ C[i].seq = nxt /\ C[i].xmit = 0
      /\ C[i].len = IF n < L[i].len THEN n ELSE L[i].len
  <2>1. /\ C \in Seq(SSegment) /\ Listed(C, a, b, nxt)
        /\ \A m : EndsAt(L, m) => EndsAt(C, m)
        /\ i \in 1..Len(C) /\ C[i].seq = L[i].seq /\ C[i].xmit = L[i].xmit
        /\ C[i].len = IF n < L[i].len THEN n ELSE L[i].len
    BY <1>3, <1>4, <1>5, CutKeeps
  <2> QED
    BY <1>4, <2>1
<1>7. t = [s EXCEPT !.slist = C]
  BY <1>2, <1>5 DEF CutFirst
<1>8. /\ IsTcp(t) /\ SameRcv(s, t) /\ t.slist = C
      /\ t.snd_una = s.snd_una /\ t.snd_nxt = s.snd_nxt /\ t.sbuf = s.sbuf
      /\ t.snd_wnd = s.snd_wnd /\ t.recover = s.recover /\ t.state = s.state /\ t.room = s.room
      /\ t.cwnd = s.cwnd /\ t.ssthresh = s.ssthresh /\ t.rto = s.rto /\ t.out = s.out
  <2>1. IsTcp(s) /\ C \in Seq(SSegment)
    BY <1>1, <1>6
  <2>2. PICK v : v = [s EXCEPT !.slist = C]
    OBVIOUS
  <2>3. /\ IsTcp(v) /\ SameRcv(s, v) /\ v.slist = C
        /\ v.snd_una = s.snd_una /\ v.snd_nxt = s.snd_nxt /\ v.sbuf = s.sbuf
        /\ v.snd_wnd = s.snd_wnd /\ v.recover = s.recover /\ v.state = s.state /\ v.room = s.room
        /\ v.cwnd = s.cwnd /\ v.ssthresh = s.ssthresh /\ v.rto = s.rto /\ v.out = s.out
    BY <2>1, <2>2, ListTypes, Zenon
  <2> QED
    BY <1>7, <2>2, <2>3, Zenon
<1>9. Handling(t, q) /\ Later(s, t)
  <2>1. /\ Listed(t.slist, s.snd_una, s.snd_una + Len(s.sbuf), t.snd_nxt)
        /\ \A m : EndsAt(s.slist, m) => EndsAt(t.slist, m)
    BY <1>2, <1>6, <1>8
  <2>2. s.snd_nxt <= t.snd_nxt
    BY <1>2, <1>3, <1>8
  <2>3. t.snd_nxt <= s.snd_una + Len(s.sbuf) /\ t.snd_nxt <= Edge(q)
    BY <1>1, <1>8 DEF SndInv, Pair
  <2>4. t.rto = (s.snd_una < t.snd_nxt) /\ (s.state = "LISTEN" => t.snd_nxt = 0)
    BY <1>1, <1>8 DEF SndInv
  <2>5. t.cwnd > 0 /\ t.ssthresh > 0
    BY <1>1, <1>8 DEF SndInv
  <2>6. \A p \in t.out : p \in s.out \/ Good(t, p, q)
    BY <1>8
  <2> QED
    BY <1>8, <2>1, <2>2, <2>3, <2>4, <2>5, <2>6, Relisted
<1>10. SegEnd(C[i]) <= nxt + n
  <2>1. L[i].len \in Nat
    BY <1>3, <1>4, SegmentTypes
  <2> QED
    BY <1>3, <1>6, <2>1 DEF SegEnd
<1> QED
  BY <1>2, <1>6, <1>8, <1>9, <1>10

\* What every part of a handler does: it keeps the invariant and takes nothing back.
Keeps(s, t, q) == Handling(t, q) /\ Later(s, t)

LEMMA KeepsSelf ==
  ASSUME NEW s, NEW q, Handling(s, q)
  PROVE  Keeps(s, s, q)
<1>1. IsTcp(s)
  BY DEF Handling
<1>2. s.snd_nxt <= s.snd_nxt /\ s.rcv_nxt <= s.rcv_nxt /\ Edge(s) <= Edge(s)
  <2>1. \A k \in Nat : k <= k
    OBVIOUS
  <2> QED
    BY <1>1, <2>1, Numbers, Zenon
<1> QED
  BY <1>2, Zenon DEF Keeps, Later

LEMMA KeepsTrans ==
  ASSUME NEW s, NEW t, NEW u, NEW q, Handling(s, q), Keeps(s, t, q), Keeps(t, u, q)
  PROVE  Keeps(s, u, q)
  BY LaterTrans DEF Keeps, Handling

LEMMA AckTimer ==
  ASSUME NEW s, NEW q, Handling(s, q)
  PROVE  Keeps(s, [s EXCEPT !.t_ack = TRUE], q)
<1>1. PICK t : t = [s EXCEPT !.t_ack = TRUE]
  OBVIOUS
<1>2. IsTcp(s) /\ SndInv(s)
  BY DEF Handling
<1>3. IsTcp(t)
  BY <1>1, <1>2 DEF IsTcp, Fields
<1>4. /\ SameSnd(s, t) /\ SameRcv(s, t) /\ t.cwnd = s.cwnd /\ t.ssthresh = s.ssthresh
      /\ t.state = s.state /\ t.room = s.room /\ t.out = s.out
  BY <1>1, <1>2 DEF IsTcp, Fields, SameSnd, SameRcv
<1>5. t.cwnd > 0 /\ t.ssthresh > 0
  BY <1>2, <1>4 DEF SndInv
<1>6. Handling(t, q) /\ Later(s, t)
  BY <1>3, <1>4, <1>5, Aside
<1> QED
  BY <1>1, <1>6, Zenon DEF Keeps

LEMMA SendAckOnlyKeeps ==
  ASSUME NEW s, NEW q, Handling(s, q), NEW flags
  PROVE  Keeps(s, SendAckOnly(s, flags), q)
<1>1. CASE flags = "none"
  <2>1. SendAckOnly(s, flags) = s
    BY <1>1 DEF SendAckOnly
  <2> QED
    BY <2>1, KeepsSelf
<1>2. CASE flags # "none" /\ (flags = "immediate" \/ s.t_ack)
  <2>1. SendAckOnly(s, flags) = Packet(s, s.snd_nxt, FALSE, <<>>)
    BY <1>2 DEF SendAckOnly
  <2>2. s.snd_nxt \in Nat
    BY Numbers DEF Handling
  <2> QED
    BY <2>1, <2>2, PacketKeeps DEF Keeps
<1>3. CASE flags # "none" /\ ~(flags = "immediate" \/ s.t_ack)
  <2>1. SendAckOnly(s, flags) = [s EXCEPT !.t_ack = TRUE]
    BY <1>3, Zenon DEF SendAckOnly
  <2> QED
    BY <2>1, AckTimer
<1> QED
  BY <1>1, <1>2, <1>3

\* One turn of the loop in attemptSend().
IsTurn(x) == DOMAIN x = {"s", "flags", "run"}

LEMMA SendFirstKeeps ==
  ASSUME NEW s, NEW q, Handling(s, q), IsTcp(q), NEW x, IsTurn(x), NEW i \in 1..Len(s.slist),
         s.slist[i].xmit = 0, s.slist[i].seq = s.snd_nxt,
         SegEnd(s.slist[i]) <= s.snd_una + s.snd_wnd
  PROVE  IsTurn(SendFirst(x, s, i)) /\ Keeps(s, SendFirst(x, s, i).s, q)
<1>1. CASE MayTransmit(s, i)
  <2>1. PICK t : t = Transmit(s, i)
    OBVIOUS
  <2>2. Keeps(s, t, q)
    <3>1. s.room > 0
      BY <1>1 DEF MayTransmit
    <3> QED
      BY <2>1, <3>1, TransmitKeeps DEF Keeps
  <2>3. SendFirst(x, s, i) = [x EXCEPT !.s = t, !.flags = "none"]
    BY <1>1, <2>1 DEF SendFirst
  <2>4. IsTurn(SendFirst(x, s, i)) /\ SendFirst(x, s, i).s = t
    BY <2>3 DEF IsTurn
  <2> QED
    BY <2>2, <2>4
<1>2. CASE ~MayTransmit(s, i)
  <2>1. SendFirst(x, s, i) = [x EXCEPT !.s = s, !.run = FALSE]
    BY <1>2 DEF SendFirst
  <2>2. IsTurn(SendFirst(x, s, i)) /\ SendFirst(x, s, i).s = s
    BY <2>1 DEF IsTurn
  <2> QED
    BY <2>2, KeepsSelf
<1> QED
  BY <1>1, <1>2

LEMMA SendTurnKeeps ==
  ASSUME NEW x, IsTurn(x), NEW q, Handling(x.s, q), IsTcp(q), NEW n, n = Sendable(x.s)
  PROVE  IsTurn(SendTurn(x, n)) /\ Keeps(x.s, SendTurn(x, n).s, q)
<1>1. PICK s : s = x.s
  OBVIOUS
<1>2. Handling(s, q) /\ IsTcp(s) /\ SndInv(s)
  BY <1>1 DEF Handling
<1>3. /\ n \in Nat
      /\ n > 0 => /\ s.snd_nxt + n <= s.snd_una + Len(s.sbuf)
                  /\ s.snd_nxt + n <= s.snd_una + s.snd_wnd
  BY <1>1, <1>2, SendableIs
<1>4. CASE ~x.run
  <2>1. SendTurn(x, n) = x
    BY <1>4 DEF SendTurn
  <2> QED
    BY <2>1, KeepsSelf
<1>5. CASE x.run /\ n = 0
  <2>1. SendTurn(x, n) = [x EXCEPT !.s = SendAckOnly(x.s, x.flags), !.run = FALSE]
    BY <1>5 DEF SendTurn
  <2>2. IsTurn(SendTurn(x, n)) /\ SendTurn(x, n).s = SendAckOnly(x.s, x.flags)
    BY <2>1 DEF IsTurn
  <2> QED
    BY <2>2, SendAckOnlyKeeps
<1>6. CASE x.run /\ n > 0 /\ HeldBack(x.s, n)
  <2>1. SendTurn(x, n) = [x EXCEPT !.run = FALSE]
    BY <1>6 DEF SendTurn
  <2>2. IsTurn(SendTurn(x, n)) /\ SendTurn(x, n).s = x.s
    BY <2>1 DEF IsTurn
  <2> QED
    BY <2>2, KeepsSelf
<1>7. CASE x.run /\ n > 0 /\ ~HeldBack(x.s, n)
  <2>1. PICK i : i = Unsent(s)
    OBVIOUS
  <2>2. PICK t : t = CutFirst(s, n)
    OBVIOUS
  <2>3. SendTurn(x, n) = SendFirst(x, t, i)
    BY <1>1, <1>7, <2>1, <2>2 DEF SendTurn, CutFirst
  <2>4. s.snd_nxt < s.snd_una + Len(s.sbuf) /\ 0 < n
    BY <1>2, <1>3, <1>7, Numbers
  <2>5. /\ Handling(t, q) /\ Later(s, t)
        /\ t.snd_una = s.snd_una /\ t.snd_wnd = s.snd_wnd
        /\ i \in 1..Len(t.slist) /\ t.slist[i].xmit = 0 /\ t.slist[i].seq = t.snd_nxt
        /\ SegEnd(t.slist[i]) <= s.snd_nxt + n
    BY <1>2, <1>3, <2>1, <2>2, <2>4, CutUnsent
  <2>6. SegEnd(t.slist[i]) <= t.snd_una + t.snd_wnd
    <3>1. PICK e : e = SegEnd(t.slist[i])
      OBVIOUS
    <3>2. e \in Nat
      <4>1. t.slist \in Seq(SSegment)
        BY <2>5, Numbers DEF Handling
      <4> QED
        BY <2>5, <3>1, <4>1, SegmentTypes
    <3>3. e <= s.snd_nxt + n /\ s.snd_nxt + n <= s.snd_una + s.snd_wnd
      BY <1>3, <1>7, <2>5, <3>1
    <3>4. e <= s.snd_una + s.snd_wnd
      BY <1>2, <1>3, <3>2, <3>3, Numbers
    <3> QED
      BY <2>5, <3>1, <3>4
  <2>7. IsTurn(SendFirst(x, t, i)) /\ Keeps(t, SendFirst(x, t, i).s, q)
    BY <2>5, <2>6, SendFirstKeeps
  <2>8. Keeps(s, SendFirst(x, t, i).s, q)
    BY <1>2, <2>5, <2>7, KeepsTrans DEF Keeps
  <2> QED
    BY <1>1, <2>3, <2>7, <2>8
<1> QED
  BY <1>3, <1>4, <1>5, <1>6, <1>7

LEMMA SlowStartKeeps ==
  ASSUME NEW s, NEW q, Handling(s, q)
  PROVE  Keeps(s, SlowStart(s), q)
<1>1. PICK t : t = SlowStart(s)
  OBVIOUS
<1>2. IsTcp(s) /\ SndInv(s) /\ s.mss \in Nat /\ s.mss > 0
  BY Numbers DEF Handling
<1>3. IsTcp(t)
  BY <1>1, <1>2 DEF SlowStart, IsTcp, Fields
<1>4. /\ SameSnd(s, t) /\ SameRcv(s, t) /\ t.cwnd = s.mss /\ t.ssthresh = s.ssthresh
      /\ t.state = s.state /\ t.room = s.room /\ t.out = s.out
  BY <1>1, <1>2 DEF SlowStart, IsTcp, Fields, SameSnd, SameRcv
<1>5. t.cwnd > 0 /\ t.ssthresh > 0
  BY <1>2, <1>4 DEF SndInv
<1>6. Handling(t, q) /\ Later(s, t)
  BY <1>3, <1>4, <1>5, Aside
<1> QED
  BY <1>1, <1>6, Zenon DEF Keeps

Turn(x) == SendTurn(x, Sendable(x.s))

\* f[k] is the state of the loop in attemptSend() after k of n turns from c.
Turns(n, c, f) == f = [k \in 0..n |-> IF k = 0 THEN c ELSE Turn(f[k - 1])]

LEMMA TurnsExist ==
  ASSUME NEW n \in Nat, NEW c
  PROVE  \E f : Turns(n, c, f)
<1> DEFINE bad == {m \in Nat : ~\E f : Turns(m, c, f)}
<1>1. SUFFICES ASSUME bad # {} PROVE FALSE
  OBVIOUS
<1>2. PICK m \in bad : \A k \in bad : m <= k
  <2>1. bad \subseteq Nat
    OBVIOUS
  <2> HIDE DEF bad
  <2> QED
    BY <1>1, <2>1, LeastNat
<1>3. \E f : Turns(0, c, f)
  <2> DEFINE f == [k \in 0..0 |-> c]
  <2>1. f = [k \in 0..0 |-> IF k = 0 THEN c ELSE Turn(f[k - 1])]
    OBVIOUS
  <2> QED
    BY <2>1 DEF Turns
<1>4. m \in Nat /\ m # 0 /\ m - 1 \in Nat /\ m - 1 \notin bad
  BY <1>2, <1>3
<1>5. PICK f : Turns(m - 1, c, f)
  BY <1>4
<1>6. \E g : Turns(m, c, g)
  <2> DEFINE g == [k \in 0..m |-> IF k < m THEN f[k] ELSE Turn(f[m - 1])]
  <2>1. \A k \in 0..m : g[k] = IF k = 0 THEN c ELSE Turn(g[k - 1])
    <3> TAKE k \in 0..m
    <3>1. CASE k = m
      BY <1>4, <3>1
    <3>2. CASE k < m
      <4>1. k \in 0..(m - 1)
        BY <1>4, <3>2
      <4>2. f[k] = IF k = 0 THEN c ELSE Turn(f[k - 1])
        BY <1>5, <4>1, Zenon DEF Turns
      <4>3. g[k] = f[k] /\ (k # 0 => g[k - 1] = f[k - 1])
        BY <1>4, <3>2
      <4> HIDE DEF g
      <4> QED
        BY <4>2, <4>3
    <3> QED
      BY <1>4, <3>1, <3>2
  <2>2. g = [k \in 0..m |-> g[k]]
    OBVIOUS
  <2>3. Turns(m, c, g)
    <3> HIDE DEF g
    <3> QED
      BY <2>1, <2>2, Zenon DEF Turns
  <2> QED
    BY <2>3
<1> QED
  BY <1>2, <1>6

LEMMA AttemptSendKeeps ==
  ASSUME NEW s, NEW q, Handling(s, q), IsTcp(q), NEW flags, NEW late \in BOOLEAN
  PROVE  Keeps(s, AttemptSend(s, flags, late), q)
<1>1. PICK c : c = [s |-> IF late THEN SlowStart(s) ELSE s, flags |-> flags, run |-> TRUE]
  OBVIOUS
<1>2. PICK n : n = Len(s.sbuf) + 1
  OBVIOUS
<1>3. n \in Nat
  BY <1>2, Numbers DEF Handling
<1>4. PICK f : f = CHOOSE g : Turns(n, c, g)
  OBVIOUS
<1>5. Turns(n, c, f)
  <2>1. \E g : Turns(n, c, g)
    BY <1>3, TurnsExist
  <2> QED
    BY <1>4, <2>1, Zenon
<1>6. AttemptSend(s, flags, late) = f[n].s
  BY <1>1, <1>2, <1>4, Zenon DEF AttemptSend, Turns, Turn
<1>7. IsTurn(c) /\ Keeps(s, c.s, q)
  <2>1. IsTurn(c) /\ c.s = IF late THEN SlowStart(s) ELSE s
    BY <1>1 DEF IsTurn
  <2> QED
    BY <2>1, KeepsSelf, SlowStartKeeps
<1>8. \A k \in 0..n : IsTurn(f[k]) /\ Keeps(s, f[k].s, q)
  <2> DEFINE bad == {k \in 0..n : ~(IsTurn(f[k]) /\ Keeps(s, f[k].s, q))}
  <2>1. SUFFICES ASSUME bad # {} PROVE FALSE
    OBVIOUS
  <2>2. PICK k \in bad : \A j \in bad : k <= j
    <3>1. bad \subseteq Nat
      BY <1>3
    <3> HIDE DEF bad
    <3> QED
      BY <2>1, <3>1, LeastNat
  <2>3. k \in 0..n /\ ~(IsTurn(f[k]) /\ Keeps(s, f[k].s, q))
    BY <2>2
  <2>4. f[k] = IF k = 0 THEN c ELSE Turn(f[k - 1])
    BY <1>5, <2>3, Zenon DEF Turns
  <2>5. k # 0
    BY <1>7, <2>3, <2>4
  <2>6. k - 1 \in 0..n /\ k - 1 \notin bad
    BY <1>3, <2>2, <2>3, <2>5
  <2>7. PICK x : x = f[k - 1]
    OBVIOUS
  <2>8. IsTurn(x) /\ Keeps(s, x.s, q) /\ f[k] = Turn(x)
    BY <2>4, <2>5, <2>6, <2>7
  <2>9. IsTurn(Turn(x)) /\ Keeps(x.s, Turn(x).s, q)
    BY <2>8, SendTurnKeeps, Zenon DEF Turn, Keeps
  <2>10. Keeps(s, Turn(x).s, q)
    BY <2>8, <2>9, KeepsTrans
  <2> QED
    BY <2>3, <2>8, <2>9, <2>10
<1> QED
  BY <1>3, <1>6, <1>8

----------------------------------------------------------------------------
(* The small changes: fields that neither half is about                    *)

AsideOf(s, t) ==
  /\ IsTcp(t) /\ SameSnd(s, t) /\ SameRcv(s, t)
  /\ t.cwnd > 0 /\ t.ssthresh > 0
  /\ t.state = "LISTEN" => s.state = "LISTEN"
  /\ t.room = s.room /\ t.out = s.out

LEMMA AsideKeeps ==
  ASSUME NEW s, NEW t, NEW q, Handling(s, q), AsideOf(s, t)
  PROVE  Keeps(s, t, q)
  BY Aside DEF AsideOf, Keeps

\* What these lemmas assume of an endpoint.
Sound(s) == IsTcp(s) /\ SndInv(s)

LEMMA Windows ==
  ASSUME NEW s, Sound(s)
  PROVE  /\ s.cwnd \in Nat /\ s.cwnd > 0 /\ s.ssthresh \in Nat /\ s.ssthresh > 0
         /\ s.mss \in Nat /\ s.mss > 0 /\ s.advise \in Nat /\ s.advise > 0
         /\ InFlight(s) \in Nat /\ s.dup_acks \in 0..DupCap /\ s.probes \in Nat
<1>1. s.snd_una \in Nat /\ s.snd_nxt \in Nat /\ s.mss \in Nat /\ s.mss > 0 /\ s.advise \in Nat
      /\ s.advise > 0
  BY Numbers DEF Sound
<1>2. s.snd_una <= s.snd_nxt /\ s.cwnd > 0 /\ s.ssthresh > 0
  BY DEF Sound, SndInv
<1>3. s.cwnd \in Nat /\ s.ssthresh \in Nat /\ s.dup_acks \in 0..DupCap /\ s.probes \in Nat
  BY DEF Sound, IsTcp
<1> QED
  BY <1>1, <1>2, <1>3 DEF InFlight

LEMMA Shape ==
  ASSUME NEW s, Sound(s)
  PROVE  DOMAIN s = Fields /\ s.cwnd > 0 /\ s.ssthresh > 0
  BY DEF Sound, IsTcp, SndInv

LEMMA StateAside ==
  ASSUME NEW s, Sound(s), NEW v \in {"SYN_SENT", "SYN_RECEIVED", "ESTABLISHED", "CLOSED"},
         NEW t, t = [s EXCEPT !.state = v]
  PROVE  AsideOf(s, t)
<1>1. IsTcp(t)
  BY DEF Sound, IsTcp, Fields
<1> QED
  BY <1>1, Shape DEF AsideOf, Fields, SameSnd, SameRcv

LEMMA CwndAside ==
  ASSUME NEW s, Sound(s), NEW c \in Nat, c > 0, NEW d \in 0..DupCap,
         NEW t, t = [s EXCEPT !.cwnd = c, !.dup_acks = d]
  PROVE  AsideOf(s, t)
<1>1. IsTcp(t)
  BY DEF Sound, IsTcp, Fields
<1> QED
  BY <1>1, Shape DEF AsideOf, Fields, SameSnd, SameRcv

LEMMA MssAside ==
  ASSUME NEW s, Sound(s), NEW m \in MssLevels, NEW h \in Nat, h > 0, NEW c \in Nat, c > 0,
         NEW t, t = [s EXCEPT !.mss = m, !.ssthresh = h, !.cwnd = c]
  PROVE  AsideOf(s, t)
<1>1. IsTcp(t)
  BY DEF Sound, IsTcp, Fields
<1> QED
  BY <1>1 DEF AsideOf, Sound, IsTcp, Fields, SameSnd, SameRcv

LEMMA HalvedAside ==
  ASSUME NEW s, Sound(s)
  PROVE  AsideOf(s, Halved(s))
<1>1. PICK h : h = Max({InFlight(s) \div 2, 2 * s.mss})
  OBVIOUS
<1>2. h \in Nat /\ h > 0
  <2>1. PICK m \in Nat, k \in Nat : m = s.mss /\ k = InFlight(s) /\ m > 0
    BY Windows
  <2>2. k \div 2 \in Int /\ 2 * m \in Int
    OBVIOUS
  <2>3. h = IF k \div 2 <= 2 * m THEN 2 * m ELSE k \div 2
    BY <1>1, <2>1, <2>2, OfTwo
  <2> QED
    BY <2>1, <2>3
<1>3. PICK t : t = [s EXCEPT !.ssthresh = h]
  OBVIOUS
<1>4. IsTcp(t)
  BY <1>2, <1>3 DEF Sound, IsTcp, Fields
<1>5. AsideOf(s, t)
  BY <1>2, <1>3, <1>4, Shape DEF AsideOf, Fields, SameSnd, SameRcv
<1> QED
  BY <1>1, <1>3, <1>5, Zenon DEF Halved

LEMMA AdjustMTUAside ==
  ASSUME NEW s, Sound(s)
  PROVE  AsideOf(s, AdjustMTU(s))
<1>1. PICK m \in Nat, h0 \in Nat, c0 \in Nat :
        m = s.advise /\ h0 = s.ssthresh /\ c0 = s.cwnd /\ m > 0 /\ h0 > 0 /\ c0 > 0
  BY Windows
<1>2. PICK h, c : h = Max({h0, 2 * m}) /\ c = Max({c0, m})
  OBVIOUS
<1>3. h \in Nat /\ h > 0 /\ c \in Nat /\ c > 0
  <2>1. h0 \in Int /\ 2 * m \in Int /\ c0 \in Int /\ m \in Int
    OBVIOUS
  <2>2. h = IF h0 <= 2 * m THEN 2 * m ELSE h0
    BY <1>2, <2>1, OfTwo
  <2>3. c = IF c0 <= m THEN m ELSE c0
    BY <1>2, <2>1, OfTwo
  <2> QED
    BY <1>1, <2>2, <2>3
<1>4. AdjustMTU(s) = [s EXCEPT !.mss = m, !.ssthresh = h, !.cwnd = c]
  <2>1. AdjustMTU(s) = [s EXCEPT !.mss = s.advise, !.ssthresh = Max({s.ssthresh, 2 * s.advise}),
                                 !.cwnd = Max({s.cwnd, s.advise})]
    BY DEF AdjustMTU, Sound, IsTcp, Fields
  <2> QED
    BY <1>1, <1>2, <2>1, Zenon
<1>5. m \in MssLevels
  BY <1>1 DEF Sound, IsTcp
<1> QED
  BY <1>3, <1>4, <1>5, MssAside

LEMMA CapIs ==
  ASSUME NEW n \in Nat, n > 0
  PROVE  CapCwnd(n) \in Nat /\ CapCwnd(n) > 0
<1>1. CwndCap \in Nat /\ CwndCap > 0
  BY Constants DEF CwndCap
<1> QED
  BY <1>1, OfTwo DEF CapCwnd

LEMMA EndRecoveryAside ==
  ASSUME NEW s, Sound(s)
  PROVE  AsideOf(s, EndRecovery(s))
<1>1. PICK c : c = Min({s.ssthresh, InFlight(s) + s.mss})
  OBVIOUS
<1>2. c \in Nat /\ c > 0
  BY <1>1, Windows, OfTwo
<1>3. EndRecovery(s) = [s EXCEPT !.cwnd = c, !.dup_acks = 0]
  BY <1>1 DEF EndRecovery
<1>4. 0 \in 0..DupCap
  BY DEF DupCap
<1> QED
  BY <1>2, <1>3, <1>4, CwndAside

LEMMA RecoveringAside ==
  ASSUME NEW s, Sound(s), NEW n \in Nat
  PROVE  AsideOf(s, Recovering(s, n))
<1>1. PICK c : c = s.cwnd + s.mss - Min({n, s.cwnd})
  OBVIOUS
<1>2. c \in Nat /\ c > 0
  BY <1>1, Windows, OfTwo
<1>3. PICK t : t = [s EXCEPT !.cwnd = c]
  OBVIOUS
<1>4. IsTcp(t)
  BY <1>2, <1>3 DEF Sound, IsTcp, Fields
<1>5. AsideOf(s, t)
  BY <1>2, <1>3, <1>4, Shape DEF AsideOf, Fields, SameSnd, SameRcv
<1>6. Recovering(s, n) = t
  BY <1>1, <1>3 DEF Recovering
<1> QED
  BY <1>5, <1>6

LEMMA GrowingAside ==
  ASSUME NEW s, Sound(s)
  PROVE  AsideOf(s, Growing(s))
<1>1. PICK grow : grow = IF s.cwnd < s.ssthresh THEN s.mss
                         ELSE Max({1, (s.mss * s.mss) \div s.cwnd})
  OBVIOUS
<1>2. grow \in Nat /\ grow > 0
  <2>1. PICK m \in Nat, c \in Nat : m = s.mss /\ c = s.cwnd /\ m > 0 /\ c > 0
    BY Windows
  <2>2. PICK k : k = (m * m) \div c
    OBVIOUS
  <2>3. k \in Int
    BY <2>1, <2>2
  <2>4. Max({1, k}) \in Nat /\ Max({1, k}) > 0
    <3>1. Max({1, k}) = IF 1 <= k THEN k ELSE 1
      BY <2>3, OfTwo
    <3> QED
      BY <2>3, <3>1
  <2> QED
    BY <1>1, <2>1, <2>2, <2>4
<1>3. PICK c : c = CapCwnd(s.cwnd + grow)
  OBVIOUS
<1>4. c \in Nat /\ c > 0
  <2>1. s.cwnd + grow \in Nat /\ s.cwnd + grow > 0
    BY <1>2, Windows
  <2> QED
    BY <1>3, <2>1, CapIs
<1>5. PICK t : t = [s EXCEPT !.dup_acks = 0, !.cwnd = c]
  OBVIOUS
<1>6. IsTcp(t)
  BY <1>4, <1>5 DEF Sound, IsTcp, Fields, DupCap
<1>7. AsideOf(s, t)
  BY <1>4, <1>5, <1>6, Shape DEF AsideOf, Fields, SameSnd, SameRcv
<1>8. Growing(s) = t
  BY <1>1, <1>3, <1>5 DEF Growing, Sound, IsTcp, Fields
<1> QED
  BY <1>7, <1>8

----------------------------------------------------------------------------
(* Acknowledgments                                                         *)

\* A change to the sender's half.
LEMMA SndChanged ==
  ASSUME NEW s, NEW t, NEW q, Handling(s, q), IsTcp(q), IsTcp(t), SameRcv(s, t), SndInv(t),
         t.room = s.room, t.out = s.out, s.snd_nxt <= t.snd_nxt, t.snd_una <= q.rcv_nxt,
         t.snd_una + t.snd_wnd <= Edge(q), t.snd_nxt <= Edge(q),
         \A n \in Nat : Bound(s, n) => Bound(t, n)
  PROVE  Keeps(s, t, q)
<1>1. /\ IsTcp(s) /\ RcvInv(s) /\ Pair(s, q) /\ Pair(q, s)
      /\ \A p \in s.out : Good(s, p, q)
  BY DEF Handling
<1>2. RcvInv(t) /\ Pair(q, t) /\ Edge(t) = Edge(s)
  BY <1>1, RcvSame
<1>3. Later(s, t)
  <2>1. s.rcv_nxt <= t.rcv_nxt /\ Edge(s) <= Edge(t)
    BY <1>1, <1>2, Numbers DEF SameRcv
  <2> QED
    BY <2>1 DEF Later
<1>4. Pair(t, q)
  <2>1. q.rcv_nxt <= t.snd_nxt /\ Bound(t, q.rcv_nxt)
    <3>1. q.rcv_nxt \in Nat /\ q.rcv_nxt <= s.snd_nxt /\ Bound(s, q.rcv_nxt)
      BY <1>1, Numbers DEF Pair
    <3> QED
      BY <1>1, <3>1, Numbers
  <2>2. \A g \in q.rlist : SegEnd(g) <= t.snd_nxt /\ Bound(t, SegEnd(g))
    <3> TAKE g \in q.rlist
    <3>1. SegEnd(g) \in Nat /\ SegEnd(g) <= s.snd_nxt /\ Bound(s, SegEnd(g))
      BY <1>1, Numbers DEF Pair
    <3> QED
      BY <1>1, <3>1, Numbers
  <2> QED
    BY <2>1, <2>2 DEF Pair
<1>5. \A p \in t.out : Good(t, p, q)
  <2> TAKE p \in t.out
  <2>1. p \in Segment /\ p \in s.out
    BY DEF IsTcp
  <2> QED
    BY <1>1, <1>3, <2>1, GoodLater
<1> QED
  BY <1>2, <1>3, <1>4, <1>5 DEF Handling, Keeps

LEMMA StartRecoveryKeeps ==
  ASSUME NEW s, NEW q, Handling(s, q), IsTcp(q)
  PROVE  Keeps(s, StartRecovery(s), q)
<1>1. Sound(s) /\ IsTcp(s) /\ SndInv(s) /\ Pair(s, q)
  BY DEF Handling, Sound
<1>2. PICK c : c = CapCwnd(s.ssthresh + 3 * s.mss)
  OBVIOUS
<1>3. c \in Nat /\ c > 0
  <2>1. s.ssthresh + 3 * s.mss \in Nat /\ s.ssthresh + 3 * s.mss > 0
    BY <1>1, Windows
  <2> QED
    BY <1>2, <2>1, CapIs
<1>4. PICK t : t = [s EXCEPT !.recover = s.snd_nxt, !.cwnd = c]
  OBVIOUS
<1>5. IsTcp(t)
  BY <1>1, <1>3, <1>4 DEF IsTcp, Fields
<1>6. /\ SameRcv(s, t) /\ t.snd_una = s.snd_una /\ t.snd_nxt = s.snd_nxt /\ t.snd_wnd = s.snd_wnd
      /\ t.slist = s.slist /\ t.sbuf = s.sbuf /\ t.recover = s.snd_nxt /\ t.rto = s.rto
      /\ t.state = s.state /\ t.cwnd = c /\ t.ssthresh = s.ssthresh /\ t.room = s.room
      /\ t.out = s.out
  BY <1>1, <1>4 DEF IsTcp, Fields, SameRcv
<1>7. s.snd_nxt <= s.snd_nxt
  BY <1>1, Numbers
<1>8. SndInv(t)
  BY <1>1, <1>3, <1>6, <1>7 DEF SndInv
<1>9. \A n \in Nat : Bound(s, n) => Bound(t, n)
  BY <1>6 DEF Bound
<1>10. Keeps(s, t, q)
  BY <1>1, <1>5, <1>6, <1>7, <1>8, <1>9, SndChanged DEF Pair
<1> QED
  BY <1>2, <1>4, <1>10, Zenon DEF StartRecovery

\* The window a packet announces, in bytes.
LEMMA WindowIs ==
  ASSUME NEW s, IsTcp(s), NEW q, IsTcp(q), NEW p \in Segment, Good(q, p, s),
         NEW w, w = p.wnd * s.unit
  PROVE  /\ w \in 0..RcvBufLen /\ w \in Nat /\ p.ack \in Nat
         /\ p.ack + w <= Edge(q) /\ (p.ack = 0 => w > 0)
<1>1. p.wnd \in Nat /\ p.ack \in Nat
  BY DEF Segment
<1>2. s.unit \in {1, WndUnit}
  BY DEF IsTcp
<1>3. PICK k : k = p.wnd * WndUnit
  OBVIOUS
<1>4. w \in Nat /\ w <= k /\ (p.wnd > 0 => w > 0) /\ k \in Nat
  BY <1>1, <1>2, <1>3, Product, Constants
<1>5. k <= RcvBufLen /\ p.ack + k <= Edge(q) /\ (p.ack = 0 => p.wnd > 0)
  BY <1>3 DEF Good
<1>6. Edge(q) \in Nat
  BY Numbers
<1> QED
  BY <1>1, <1>4, <1>5, <1>6, Constants

LEMMA SetWindowKeeps ==
  ASSUME NEW s, NEW q, Handling(s, q), IsTcp(q), NEW p \in Segment, Good(q, p, s),
         p.ack = s.snd_una
  PROVE  Keeps(s, [s EXCEPT !.snd_wnd = p.wnd * s.unit], q)
<1>1. IsTcp(s) /\ SndInv(s) /\ Pair(s, q)
  BY DEF Handling
<1>2. PICK w : w = p.wnd * s.unit
  OBVIOUS
<1>3. /\ w \in 0..RcvBufLen /\ w \in Nat /\ p.ack \in Nat
      /\ p.ack + w <= Edge(q) /\ (p.ack = 0 => w > 0)
  BY <1>1, <1>2, WindowIs
<1>4. PICK t : t = [s EXCEPT !.snd_wnd = w]
  OBVIOUS
<1>5. IsTcp(t)
  BY <1>1, <1>3, <1>4 DEF IsTcp, Fields
<1>6. /\ SameRcv(s, t) /\ t.snd_una = s.snd_una /\ t.snd_nxt = s.snd_nxt /\ t.snd_wnd = w
      /\ t.slist = s.slist /\ t.sbuf = s.sbuf /\ t.recover = s.recover /\ t.rto = s.rto
      /\ t.state = s.state /\ t.cwnd = s.cwnd /\ t.ssthresh = s.ssthresh /\ t.room = s.room
      /\ t.out = s.out
  BY <1>1, <1>4 DEF IsTcp, Fields, SameRcv
<1>7. s.snd_nxt <= s.snd_nxt
  BY <1>1, Numbers
<1>8. t.snd_nxt = 0 => t.snd_wnd > 0
  <2>1. s.snd_una <= s.snd_nxt /\ s.snd_una \in Nat
    BY <1>1, Numbers DEF SndInv
  <2> QED
    BY <1>3, <1>6, <2>1
<1>9. SndInv(t)
  BY <1>1, <1>6, <1>8 DEF SndInv
<1>10. \A n \in Nat : Bound(s, n) => Bound(t, n)
  BY <1>6 DEF Bound
<1>11. t.snd_una + t.snd_wnd <= Edge(q)
  BY <1>3, <1>6
<1>12. Keeps(s, t, q)
  BY <1>1, <1>5, <1>6, <1>7, <1>9, <1>10, <1>11, SndChanged DEF Pair
<1> QED
  BY <1>2, <1>4, <1>12, Zenon

\* The rest of the send buffer.
LEMMA Remainder ==
  ASSUME NEW b \in Seq(Nat), NEW n \in Nat, n <= Len(b)
  PROVE  SubSeq(b, n + 1, Len(b)) \in Seq(Nat) /\ Len(SubSeq(b, n + 1, Len(b))) = Len(b) - n
<1>1. PICK k \in Nat : k = Len(b) - n
  OBVIOUS
<1>2. n + k = Len(b)
  BY <1>1
<1>3. SubSeq(b, n + 1, n + k) \in Seq(Nat) /\ Len(SubSeq(b, n + 1, n + k)) = k
  BY <1>2, Piece
<1> QED
  BY <1>1, <1>2, <1>3

LEMMA FreeAckedKeeps ==
  ASSUME NEW s, NEW q, Handling(s, q), IsTcp(q), NEW p \in Segment, Good(q, p, s),
         s.snd_una < p.ack, p.ack <= s.snd_nxt
  PROVE  /\ Keeps(s, FreeAcked(s, p), q)
         /\ FreeAcked(s, p).snd_una = p.ack /\ FreeAcked(s, p).snd_nxt = s.snd_nxt
         /\ FreeAcked(s, p).recover = s.recover /\ FreeAcked(s, p).dup_acks = s.dup_acks
<1>1. IsTcp(s) /\ SndInv(s) /\ Pair(s, q)
  BY DEF Handling
<1>2. PICK w : w = p.wnd * s.unit
  OBVIOUS
<1>3. /\ w \in 0..RcvBufLen /\ w \in Nat /\ p.ack \in Nat
      /\ p.ack + w <= Edge(q)
  BY <1>1, <1>2, WindowIs
<1>4. PICK L, a, b, nxt, m, len :
        /\ L = s.slist /\ a = s.snd_una /\ b = s.snd_una + Len(s.sbuf) /\ nxt = s.snd_nxt
        /\ m = p.ack /\ len = Len(s.sbuf)
  OBVIOUS
<1>5. /\ L \in Seq(SSegment) /\ a \in Nat /\ b \in Nat /\ nxt \in Nat /\ m \in Nat /\ len \in Nat
      /\ a < m /\ m <= nxt /\ nxt <= b /\ b = a + len /\ Listed(L, a, b, nxt)
  <2>1. /\ s.snd_una \in Nat /\ s.snd_nxt \in Nat /\ s.snd_una + Len(s.sbuf) \in Nat
        /\ Len(s.sbuf) \in Nat
    BY <1>1, Numbers
  <2> QED
    BY <1>1, <1>3, <1>4, <2>1 DEF SndInv, IsTcp
<1>6. EndsAt(L, m)
  <2>1. m <= a \/ EndsAt(L, m)
    BY <1>4 DEF Good, Bound
  <2> QED
    BY <1>5, <2>1
<1>7. PICK M, c : M = Unacked(L, m - a) /\ c = SubSeq(s.sbuf, (m - a) + 1, len)
  OBVIOUS
<1>8. /\ M \in Seq(SSegment) /\ Listed(M, m, b, nxt)
      /\ \A k \in Nat : EndsAt(L, k) => k <= m \/ EndsAt(M, k)
  BY <1>5, <1>6, <1>7, UnackedKeeps
<1>9. c \in Seq(Nat) /\ Len(c) \in Nat /\ m + Len(c) = b /\ Len(c) <= len
  <2>1. m - a \in Nat /\ m - a <= len
    BY <1>5
  <2>2. s.sbuf \in Seq(Nat)
    BY <1>1, Numbers
  <2>3. c \in Seq(Nat) /\ Len(c) = len - (m - a)
    BY <1>4, <1>7, <2>1, <2>2, Remainder
  <2> QED
    BY <1>5, <2>1, <2>3
<1>10. PICK r \in BOOLEAN : r = (m # nxt)
  OBVIOUS
<1>11. PICK t : t = [s EXCEPT !.snd_wnd = w, !.snd_una = m, !.rto = r, !.sbuf = c, !.slist = M]
  OBVIOUS
<1>12. FreeAcked(s, p) = t
  <2>1. FreeAcked(s, p) = [s EXCEPT !.snd_wnd = p.wnd * s.unit, !.snd_una = p.ack,
               !.rto = (p.ack # s.snd_nxt),
               !.sbuf = SubSeq(s.sbuf, (p.ack - s.snd_una) + 1, Len(s.sbuf)),
               !.slist = Unacked(s.slist, p.ack - s.snd_una)]
    BY <1>1 DEF FreeAcked, IsTcp, Fields
  <2> QED
    BY <1>2, <1>4, <1>7, <1>10, <1>11, <2>1
<1>13. IsTcp(t)
  BY <1>1, <1>3, <1>5, <1>8, <1>9, <1>11 DEF IsTcp, Fields
<1>14. /\ SameRcv(s, t) /\ t.snd_una = m /\ t.snd_nxt = s.snd_nxt /\ t.snd_wnd = w
       /\ t.slist = M /\ t.sbuf = c /\ t.recover = s.recover /\ t.rto = r
       /\ t.state = s.state /\ t.cwnd = s.cwnd /\ t.ssthresh = s.ssthresh /\ t.room = s.room
       /\ t.out = s.out /\ t.dup_acks = s.dup_acks
  BY <1>1, <1>11 DEF IsTcp, Fields, SameRcv
<1>15. SndInv(t)
  <2>1. t.snd_una <= t.snd_nxt /\ t.snd_nxt <= t.snd_una + Len(t.sbuf)
    BY <1>4, <1>5, <1>9, <1>14
  <2>2. Listed(t.slist, t.snd_una, t.snd_una + Len(t.sbuf), t.snd_nxt)
    BY <1>4, <1>8, <1>9, <1>14
  <2>3. Len(t.sbuf) <= SndBufLen
    <3>1. len <= SndBufLen
      BY <1>1, <1>4 DEF SndInv
    <3> QED
      BY <1>5, <1>9, <1>14, <3>1, Constants
  <2>4. t.rto = (t.snd_una < t.snd_nxt)
    <3>1. r = (m < nxt)
      BY <1>5, <1>10
    <3> QED
      BY <1>4, <1>14, <3>1
  <2>5. t.snd_nxt > 0 /\ t.state # "LISTEN"
    <3>1. nxt > 0
      BY <1>5
    <3> QED
      BY <1>1, <1>4, <1>14, <3>1 DEF SndInv
  <2>6. t.recover <= t.snd_nxt /\ t.cwnd > 0 /\ t.ssthresh > 0
    BY <1>1, <1>14 DEF SndInv
  <2>7. ~(t.snd_nxt = 0)
    BY <2>5
  <2> QED
    BY <2>1, <2>2, <2>3, <2>4, <2>5, <2>6, <2>7, Zenon DEF SndInv
<1>16. \A n \in Nat : Bound(s, n) => Bound(t, n)
  <2> SUFFICES ASSUME NEW n \in Nat, Bound(s, n) PROVE Bound(t, n)
    OBVIOUS
  <2>1. n <= a \/ EndsAt(L, n)
    BY <1>4 DEF Bound
  <2>2. n <= m \/ EndsAt(M, n)
    BY <1>5, <1>8, <2>1
  <2> QED
    BY <1>14, <2>2 DEF Bound
<1>17. /\ t.snd_una <= q.rcv_nxt /\ t.snd_una + t.snd_wnd <= Edge(q) /\ t.snd_nxt <= Edge(q)
  BY <1>1, <1>3, <1>4, <1>14 DEF Good, Pair
<1>18. s.snd_nxt <= t.snd_nxt
  BY <1>4, <1>5, <1>14
<1>19. Keeps(s, t, q)
  BY <1>13, <1>14, <1>15, <1>16, <1>17, <1>18, SndChanged
<1> QED
  BY <1>4, <1>12, <1>14, <1>19

LEMMA ThenAside ==
  ASSUME NEW s, NEW t, NEW u, NEW q, Handling(s, q), Keeps(s, t, q), AsideOf(t, u)
  PROVE  Keeps(s, u, q)
  BY AsideKeeps, KeepsTrans DEF Keeps

LEMMA KeepsSound ==
  ASSUME NEW s, NEW t, NEW q, Keeps(s, t, q)
  PROVE  Handling(t, q) /\ Sound(t)
  BY DEF Keeps, Handling, Sound

LEMMA ClosedownAside ==
  ASSUME NEW s, Sound(s)
  PROVE  AsideOf(s, Closedown(s))
<1>1. Closedown(s) = [s EXCEPT !.state = "CLOSED"]
  BY DEF Closedown
<1> QED
  BY <1>1, StateAside

\* The first segment is sent again.
LEMMA TransmitFirst ==
  ASSUME NEW s, NEW q, Handling(s, q), IsTcp(q), s.snd_una < s.snd_nxt, MayTransmit(s, 1)
  PROVE  Keeps(s, Transmit(s, 1), q)
<1>1. IsTcp(s) /\ SndInv(s)
  BY DEF Handling
<1>2. PICK L, a, b, nxt :
        /\ L = s.slist /\ a = s.snd_una /\ b = s.snd_una + Len(s.sbuf) /\ nxt = s.snd_nxt
  OBVIOUS
<1>3. /\ L \in Seq(SSegment) /\ a \in Nat /\ b \in Nat /\ nxt \in Nat
      /\ a < nxt /\ nxt <= b /\ Listed(L, a, b, nxt)
  <2>1. s.snd_una \in Nat /\ s.snd_nxt \in Nat /\ s.snd_una + Len(s.sbuf) \in Nat
    BY <1>1, Numbers
  <2> QED
    BY <1>1, <1>2, <2>1 DEF SndInv, IsTcp
<1>4. 1 \in 1..Len(L) /\ L[1].xmit > 0
  BY <1>3, FirstSent
<1>5. s.room > 0
  BY DEF MayTransmit
<1> QED
  BY <1>2, <1>4, <1>5, TransmitKeeps DEF Keeps

LEMMA ProcessNewAckKeeps ==
  ASSUME NEW s, NEW q, Handling(s, q), IsTcp(q), NEW p \in Segment, NEW n \in Nat,
         p.ack = s.snd_una
  PROVE  Keeps(s, ProcessNewAck(s, p, n), q)
<1>1. Sound(s) /\ IsTcp(s) /\ SndInv(s)
  BY DEF Handling, Sound
<1>2. Keeps(s, s, q)
  BY KeepsSelf
<1>3. s.dup_acks \in Nat /\ p.ack \in Nat /\ s.recover \in Nat /\ s.recover <= s.snd_nxt
      /\ s.snd_nxt \in Nat
  <2>1. s.dup_acks \in 0..DupCap /\ DupCap \in Nat
    BY <1>1 DEF IsTcp, DupCap
  <2>2. s.dup_acks \in Nat
    BY <2>1
  <2>3. p.ack \in Nat /\ s.recover \in Nat /\ s.snd_nxt \in Nat
    BY <1>1 DEF IsTcp, Segment
  <2> QED
    BY <1>1, <2>2, <2>3 DEF SndInv
<1>4. CASE s.dup_acks >= 3 /\ p.ack >= s.recover
  <2>1. ~(p.ack < s.recover)
    BY <1>3, <1>4
  <2>2. ProcessNewAck(s, p, n) = EndRecovery(s)
    BY <1>4, <2>1, Zenon DEF ProcessNewAck
  <2> QED
    BY <1>1, <1>2, <2>2, EndRecoveryAside, ThenAside
<1>5. CASE s.dup_acks >= 3 /\ p.ack < s.recover
  <2>1. ~(s.dup_acks >= 3 /\ p.ack >= s.recover)
    BY <1>3, <1>5
  <2>2. ProcessNewAck(s, p, n)
          = IF MayTransmit(s, 1) THEN Recovering(Transmit(s, 1), n) ELSE Closedown(s)
    BY <1>5, <2>1, Zenon DEF ProcessNewAck
  <2>3. s.snd_una < s.snd_nxt
    BY <1>3, <1>5
  <2>4. CASE MayTransmit(s, 1)
    <3>1. Keeps(s, Transmit(s, 1), q)
      BY <2>3, <2>4, TransmitFirst
    <3>2. Sound(Transmit(s, 1))
      BY <3>1, KeepsSound
    <3>3. AsideOf(Transmit(s, 1), Recovering(Transmit(s, 1), n))
      BY <3>2, RecoveringAside
    <3> QED
      BY <2>2, <2>4, <3>1, <3>3, ThenAside
  <2>5. CASE ~MayTransmit(s, 1)
    BY <1>1, <1>2, <2>2, <2>5, ClosedownAside, ThenAside
  <2> QED
    BY <2>4, <2>5
<1>6. CASE ~(s.dup_acks >= 3)
  <2>1. ProcessNewAck(s, p, n) = Growing(s)
    BY <1>6 DEF ProcessNewAck
  <2> QED
    BY <1>1, <1>2, <2>1, GrowingAside, ThenAside
<1> QED
  BY <1>3, <1>4, <1>5, <1>6

LEMMA DupAckKeeps ==
  ASSUME NEW s, NEW q, Handling(s, q), IsTcp(q), s.snd_una < s.snd_nxt
  PROVE  Keeps(s, DupAck(s), q)
<1>1. Sound(s) /\ IsTcp(s)
  BY DEF Handling, Sound
<1>2. Keeps(s, s, q)
  BY KeepsSelf
<1>3. s.dup_acks \in Nat
  <2>1. s.dup_acks \in 0..DupCap /\ DupCap \in Nat
    BY <1>1 DEF IsTcp, DupCap
  <2> QED
    BY <2>1
<1>4. CASE s.dup_acks = 3 /\ MayTransmit(s, 1)
  <2>1. DupAck(s) = StartRecovery(Halved(Transmit(s, 1)))
    BY <1>4 DEF DupAck
  <2>2. Keeps(s, Transmit(s, 1), q)
    BY <1>4, TransmitFirst
  <2>3. AsideOf(Transmit(s, 1), Halved(Transmit(s, 1)))
    BY <2>2, KeepsSound, HalvedAside
  <2>4. Keeps(s, Halved(Transmit(s, 1)), q)
    BY <2>2, <2>3, ThenAside
  <2>5. Keeps(Halved(Transmit(s, 1)), StartRecovery(Halved(Transmit(s, 1))), q)
    BY <2>4, StartRecoveryKeeps DEF Keeps
  <2> QED
    BY <2>1, <2>4, <2>5, KeepsTrans
<1>5. CASE s.dup_acks = 3 /\ ~MayTransmit(s, 1)
  <2>1. DupAck(s) = Closedown(s)
    BY <1>5 DEF DupAck
  <2> QED
    BY <1>1, <1>2, <2>1, ClosedownAside, ThenAside
<1>6. CASE s.dup_acks > 3
  <2>1. PICK c : c = CapCwnd(s.cwnd + s.mss)
    OBVIOUS
  <2>2. c \in Nat /\ c > 0
    <3>1. s.cwnd + s.mss \in Nat /\ s.cwnd + s.mss > 0
      BY <1>1, Windows
    <3> QED
      BY <2>1, <3>1, CapIs
  <2>3. PICK t : t = [s EXCEPT !.cwnd = c]
    OBVIOUS
  <2>4. IsTcp(t)
    BY <1>1, <2>2, <2>3 DEF IsTcp, Fields
  <2>5. AsideOf(s, t)
    <3>1. DOMAIN s = Fields
      BY <1>1 DEF Sound, IsTcp
    <3>2. /\ SameSnd(s, t) /\ SameRcv(s, t) /\ t.cwnd = c /\ t.ssthresh = s.ssthresh
          /\ t.state = s.state /\ t.room = s.room /\ t.out = s.out
      BY <2>3, <3>1 DEF Fields, SameSnd, SameRcv
    <3>3. s.ssthresh > 0
      BY <1>1, Windows
    <3> QED
      BY <2>2, <2>4, <3>2, <3>3 DEF AsideOf
  <2>6. s.dup_acks # 3
    BY <1>3, <1>6
  <2>7. DupAck(s) = t
    BY <1>6, <2>1, <2>3, <2>6 DEF DupAck
  <2> QED
    BY <1>2, <2>5, <2>7, ThenAside
<1>7. CASE ~(s.dup_acks = 3) /\ ~(s.dup_acks > 3)
  <2>1. DupAck(s) = s
    BY <1>7 DEF DupAck
  <2> QED
    BY <1>2, <2>1
<1> QED
  BY <1>4, <1>5, <1>6, <1>7

LEMMA DupAcksAside ==
  ASSUME NEW s, Sound(s), NEW d \in 0..DupCap
  PROVE  AsideOf(s, [s EXCEPT !.dup_acks = d])
<1>1. PICK t : t = [s EXCEPT !.dup_acks = d]
  OBVIOUS
<1>2. IsTcp(t)
  BY <1>1 DEF Sound, IsTcp, Fields
<1>3. AsideOf(s, t)
  BY <1>1, <1>2, Shape DEF AsideOf, Fields, SameSnd, SameRcv
<1> QED
  BY <1>1, <1>3, Zenon

LEMMA ProcessSameAckKeeps ==
  ASSUME NEW s, NEW q, Handling(s, q), IsTcp(q), NEW p
  PROVE  Keeps(s, ProcessSameAck(s, p), q)
<1>1. Sound(s) /\ IsTcp(s) /\ SndInv(s)
  BY DEF Handling, Sound
<1>2. Keeps(s, s, q)
  BY KeepsSelf
<1>3. CASE p.data # <<>>
  <2>1. ProcessSameAck(s, p) = s
    BY <1>3 DEF ProcessSameAck
  <2> QED
    BY <1>2, <2>1
<1>4. CASE p.data = <<>> /\ s.snd_una = s.snd_nxt
  <2>1. ProcessSameAck(s, p) = [s EXCEPT !.dup_acks = 0]
    BY <1>4 DEF ProcessSameAck
  <2>2. 0 \in 0..DupCap
    BY DEF DupCap
  <2>3. AsideOf(s, [s EXCEPT !.dup_acks = 0])
    BY <1>1, <2>2, DupAcksAside, Zenon
  <2> QED
    BY <1>2, <2>1, <2>3, ThenAside, Zenon
<1>5. CASE p.data = <<>> /\ ~(s.snd_una = s.snd_nxt)
  <2>1. PICK d : d = Min({s.dup_acks + 1, DupCap})
    OBVIOUS
  <2>2. d \in 0..DupCap
    <3>1. s.dup_acks \in 0..DupCap /\ DupCap \in Nat /\ DupCap > 0
      BY <1>1 DEF IsTcp, DupCap
    <3>2. s.dup_acks + 1 \in Int /\ DupCap \in Int
      BY <3>1
    <3>3. d = IF s.dup_acks + 1 <= DupCap THEN s.dup_acks + 1 ELSE DupCap
      BY <2>1, <3>2, OfTwo
    <3> QED
      BY <3>1, <3>3
  <2>3. PICK t : t = [s EXCEPT !.dup_acks = d]
    OBVIOUS
  <2>4. AsideOf(s, t)
    BY <1>1, <2>2, <2>3, DupAcksAside, Zenon
  <2>5. Keeps(s, t, q)
    BY <1>2, <2>4, ThenAside
  <2>6. t.snd_una < t.snd_nxt
    <3>1. s.snd_una < s.snd_nxt
      BY <1>1, <1>5, Numbers DEF SndInv
    <3> QED
      BY <2>4, <3>1 DEF AsideOf, SameSnd
  <2>7. Keeps(t, DupAck(t), q)
    BY <2>5, <2>6, DupAckKeeps DEF Keeps
  <2>8. ProcessSameAck(s, p) = DupAck(t)
    BY <1>5, <2>1, <2>3, Zenon DEF ProcessSameAck
  <2> QED
    BY <2>5, <2>7, <2>8, KeepsTrans
<1> QED
  BY <1>3, <1>4, <1>5

LEMMA ProcessAckKeeps ==
  ASSUME NEW s, NEW q, Handling(s, q), IsTcp(q), NEW p \in Segment, Good(q, p, s)
  PROVE  Keeps(s, ProcessAck(s, p), q)
<1>1. IsTcp(s) /\ SndInv(s) /\ s.snd_una \in Nat /\ s.snd_nxt \in Nat /\ p.ack \in Nat
  BY Numbers DEF Handling, Segment
<1>2. CASE s.snd_una < p.ack /\ p.ack <= s.snd_nxt
  <2>1. PICK t : t = FreeAcked(s, p)
    OBVIOUS
  <2>2. ProcessAck(s, p) = ProcessNewAck(t, p, p.ack - s.snd_una)
    <3>1. ~(p.ack = s.snd_una)
      BY <1>1, <1>2
    <3> QED
      BY <1>2, <2>1, <3>1, Zenon DEF ProcessAck
  <2>3. Keeps(s, t, q) /\ t.snd_una = p.ack
    BY <1>2, <2>1, FreeAckedKeeps
  <2>4. p.ack - s.snd_una \in Nat
    BY <1>1, <1>2
  <2>5. Keeps(t, ProcessNewAck(t, p, p.ack - s.snd_una), q)
    BY <2>3, <2>4, ProcessNewAckKeeps DEF Keeps
  <2> QED
    BY <2>2, <2>3, <2>5, KeepsTrans
<1>3. CASE p.ack = s.snd_una
  <2>1. ~(s.snd_una < p.ack)
    BY <1>1, <1>3
  <2>2. PICK t : t = [s EXCEPT !.snd_wnd = p.wnd * s.unit]
    OBVIOUS
  <2>3. ProcessAck(s, p) = ProcessSameAck(t, p)
    BY <1>3, <2>1, <2>2, Zenon DEF ProcessAck
  <2>4. Keeps(s, t, q)
    BY <1>3, <2>2, SetWindowKeeps, Zenon
  <2>5. Keeps(t, ProcessSameAck(t, p), q)
    BY <2>4, ProcessSameAckKeeps DEF Keeps
  <2> QED
    BY <2>3, <2>4, <2>5, KeepsTrans
<1>4. CASE ~(s.snd_una < p.ack /\ p.ack <= s.snd_nxt) /\ ~(p.ack = s.snd_una)
  <2>1. ProcessAck(s, p) = s
    BY <1>4 DEF ProcessAck
  <2> QED
    BY <2>1, KeepsSelf
<1> QED
  BY <1>2, <1>3, <1>4

----------------------------------------------------------------------------
(* The send queue and the connect messages                                 *)

\* The list of segments after queue().
Queued(s, n, ctl) ==
  LET k == Len(s.slist)
  IN IF k > 0 /\ s.slist[k].ctl = ctl /\ s.slist[k].xmit = 0
     THEN Joined(s.slist, n)
     ELSE Append(s.slist, [seq |-> s.snd_una + Len(s.sbuf), len |-> n, xmit |-> 0, ctl |-> ctl])

LEMMA QueueIs ==
  ASSUME NEW s, IsTcp(s), NEW data, NEW ctl
  PROVE  Queue(s, data, ctl)
           = [s EXCEPT !.slist = Queued(s, Len(data), ctl), !.sbuf = s.sbuf \o data]
  BY DEF Queue, Queued, Joined, IsTcp, Fields

LEMMA QueueKeeps ==
  ASSUME NEW s, NEW q, Handling(s, q), IsTcp(q), s.state # "LISTEN", NEW ctl \in BOOLEAN,
         NEW data \in Seq(Nat), Len(data) > 0, Len(s.sbuf) + Len(data) <= SndBufLen
  PROVE  Keeps(s, Queue(s, data, ctl), q)
<1>1. IsTcp(s) /\ SndInv(s) /\ Pair(s, q)
  BY DEF Handling
<1>2. PICK L, a, b, nxt, n :
        /\ L = s.slist /\ a = s.snd_una /\ b = s.snd_una + Len(s.sbuf) /\ nxt = s.snd_nxt
        /\ n = Len(data)
  OBVIOUS
<1>3. /\ L \in Seq(SSegment) /\ a \in Nat /\ b \in Nat /\ nxt \in Nat /\ n \in Nat /\ n > 0
      /\ a <= nxt /\ nxt <= b /\ Listed(L, a, b, nxt)
  <2>1. s.snd_una \in Nat /\ s.snd_nxt \in Nat /\ s.snd_una + Len(s.sbuf) \in Nat
    BY <1>1, Numbers
  <2>2. Len(data) \in Nat
    OBVIOUS
  <2> QED
    BY <1>1, <1>2, <2>1, <2>2 DEF SndInv, IsTcp
<1>4. PICK M : M = Queued(s, n, ctl)
  OBVIOUS
<1>5. M \in Seq(SSegment) /\ Listed(M, a, b + n, nxt) /\ \A m : EndsAt(L, m) => EndsAt(M, m)
  <2>1. CASE Len(L) > 0 /\ L[Len(L)].ctl = ctl /\ L[Len(L)].xmit = 0
    <3>1. M = Joined(L, n)
      BY <1>2, <1>4, <2>1, Zenon DEF Queued
    <3> QED
      BY <1>3, <2>1, <3>1, JoinKeeps
  <2>2. CASE ~(Len(L) > 0 /\ L[Len(L)].ctl = ctl /\ L[Len(L)].xmit = 0)
    <3>1. PICK g : g = [seq |-> b, len |-> n, xmit |-> 0, ctl |-> ctl]
      OBVIOUS
    <3>2. M = Append(L, g)
      BY <1>2, <1>4, <2>2, <3>1, Zenon DEF Queued
    <3>3. g \in SSegment /\ g.seq = b /\ g.len = n /\ g.xmit = 0
      BY <1>3, <3>1 DEF SSegment
    <3> QED
      BY <1>3, <3>2, <3>3, AppendKeeps
  <2> QED
    BY <2>1, <2>2
<1>6. PICK c : c = s.sbuf \o data
  OBVIOUS
<1>7. c \in Seq(Nat) /\ Len(c) \in Nat /\ a + Len(c) = b + n /\ Len(c) <= SndBufLen
  <2>1. s.sbuf \in Seq(Nat) /\ Len(s.sbuf) \in Nat
    BY <1>1, Numbers
  <2>2. c \in Seq(Nat) /\ Len(c) = Len(s.sbuf) + Len(data)
    BY <1>6, <2>1, ConcatProperties, Zenon
  <2>3. PICK k \in Nat : k = Len(s.sbuf)
    BY <2>1
  <2>4. b = a + k /\ Len(c) = k + n /\ k + n <= SndBufLen
    BY <1>2, <2>2, <2>3
  <2>5. c \in Seq(Nat)
    BY <2>2
  <2> QED
    BY <1>3, <2>4, <2>5
<1>8. PICK t : t = [s EXCEPT !.slist = M, !.sbuf = c]
  OBVIOUS
<1>9. Queue(s, data, ctl) = t
  BY <1>1, <1>2, <1>4, <1>6, <1>8, QueueIs, Zenon
<1>10. IsTcp(t)
  BY <1>1, <1>5, <1>7, <1>8 DEF IsTcp, Fields
<1>11. /\ SameRcv(s, t) /\ t.snd_una = s.snd_una /\ t.snd_nxt = s.snd_nxt /\ t.snd_wnd = s.snd_wnd
       /\ t.slist = M /\ t.sbuf = c /\ t.recover = s.recover /\ t.rto = s.rto
       /\ t.state = s.state /\ t.cwnd = s.cwnd /\ t.ssthresh = s.ssthresh /\ t.room = s.room
       /\ t.out = s.out
  BY <1>1, <1>8 DEF IsTcp, Fields, SameRcv
<1>12. SndInv(t)
  <2>1. t.snd_una <= t.snd_nxt /\ t.snd_nxt <= t.snd_una + Len(t.sbuf)
    BY <1>2, <1>3, <1>7, <1>11
  <2>2. Listed(t.slist, t.snd_una, t.snd_una + Len(t.sbuf), t.snd_nxt)
    BY <1>2, <1>5, <1>7, <1>11
  <2>3. Len(t.sbuf) <= SndBufLen
    BY <1>7, <1>11
  <2>4. /\ t.recover <= t.snd_nxt /\ t.rto = (t.snd_una < t.snd_nxt)
        /\ t.snd_nxt = 0 => t.snd_wnd > 0
        /\ t.cwnd > 0 /\ t.ssthresh > 0 /\ t.state # "LISTEN"
    BY <1>1, <1>11 DEF SndInv
  <2> QED
    BY <2>1, <2>2, <2>3, <2>4, Zenon DEF SndInv
<1>13. \A m \in Nat : Bound(s, m) => Bound(t, m)
  BY <1>2, <1>5, <1>11 DEF Bound
<1>14. s.snd_nxt <= t.snd_nxt
  BY <1>2, <1>3, <1>11
<1>15. Keeps(s, t, q)
  BY <1>1, <1>10, <1>11, <1>12, <1>13, <1>14, SndChanged DEF Pair
<1> QED
  BY <1>9, <1>15

LEMMA QueueConnectKeeps ==
  ASSUME NEW s, NEW q, Handling(s, q), IsTcp(q), RcvInv(q), s.state # "LISTEN",
         s.snd_nxt = 0, s.sbuf = <<>>
  PROVE  Keeps(s, QueueConnect(s), q)
<1>1. IsTcp(s) /\ SndInv(s) /\ Pair(s, q)
  BY DEF Handling
<1>2. CtrlLen = 1 /\ 1 \in 0..RcvBufLen
  BY Constants DEF CtrlLen
<1>3. PICK t : t = [s EXCEPT !.snd_wnd = 1]
  OBVIOUS
<1>4. IsTcp(t)
  BY <1>1, <1>2, <1>3 DEF IsTcp, Fields
<1>5. /\ SameRcv(s, t) /\ t.snd_una = s.snd_una /\ t.snd_nxt = s.snd_nxt /\ t.snd_wnd = 1
      /\ t.slist = s.slist /\ t.sbuf = s.sbuf /\ t.recover = s.recover /\ t.rto = s.rto
      /\ t.state = s.state /\ t.cwnd = s.cwnd /\ t.ssthresh = s.ssthresh /\ t.room = s.room
      /\ t.out = s.out
  BY <1>1, <1>3 DEF IsTcp, Fields, SameRcv
<1>6. SndInv(t)
  <2>1. t.snd_wnd > 0
    BY <1>5
  <2> QED
    BY <1>1, <1>5, <2>1 DEF SndInv
<1>7. \A n \in Nat : Bound(s, n) => Bound(t, n)
  BY <1>5 DEF Bound
<1>8. t.snd_una + t.snd_wnd <= Edge(q) /\ s.snd_nxt <= t.snd_nxt
  <2>1. s.snd_una = 0
    BY <1>1, Numbers DEF SndInv
  <2>2. RcvBufLen <= Edge(q) /\ Edge(q) \in Nat
    BY Numbers DEF RcvInv
  <2> QED
    BY <1>2, <1>5, <2>1, <2>2, Constants
<1>9. Keeps(s, t, q)
  BY <1>1, <1>4, <1>5, <1>6, <1>7, <1>8, SndChanged DEF Pair
<1>10. PICK data : data = [i \in 1..1 |-> 0]
  OBVIOUS
<1>11. data \in Seq(Nat) /\ Len(data) = 1
  BY <1>10
<1>12. QueueConnect(s) = Queue(t, data, TRUE)
  BY <1>2, <1>3, <1>10 DEF QueueConnect
<1>13. Keeps(t, Queue(t, data, TRUE), q)
  <2>1. Len(t.sbuf) + Len(data) <= SndBufLen /\ Len(data) > 0
    BY <1>2, <1>5, <1>11, Constants
  <2>2. t.state # "LISTEN"
    BY <1>5
  <2> QED
    BY <1>9, <1>11, <2>1, <2>2, QueueKeeps DEF Keeps
<1> QED
  BY <1>9, <1>12, <1>13, KeepsTrans

LEMMA UnitAside ==
  ASSUME NEW s, Sound(s)
  PROVE  AsideOf(s, [s EXCEPT !.unit = WndUnit])
<1>1. PICK t : t = [s EXCEPT !.unit = WndUnit]
  OBVIOUS
<1>2. IsTcp(t)
  BY <1>1 DEF Sound, IsTcp, Fields
<1>3. AsideOf(s, t)
  BY <1>1, <1>2, Shape DEF AsideOf, Fields, SameSnd, SameRcv
<1> QED
  BY <1>1, <1>3, Zenon

LEMMA OpenKeeps ==
  ASSUME NEW s, NEW q, Handling(s, q)
  PROVE  Keeps(s, Open(s), q)
<1>1. Keeps(s, s, q) /\ Sound(s)
  BY KeepsSelf, KeepsSound
<1>2. PICK t : t = [s EXCEPT !.state = "ESTABLISHED"]
  OBVIOUS
<1>3. AsideOf(s, t)
  BY <1>1, <1>2, StateAside
<1>4. Keeps(s, t, q) /\ Sound(t)
  BY <1>1, <1>3, ThenAside, KeepsSound
<1>5. Open(s) = AdjustMTU(t)
  BY <1>2 DEF Open
<1> QED
  BY <1>4, <1>5, AdjustMTUAside, ThenAside

LEMMA ProcessControlKeeps ==
  ASSUME NEW s, NEW q, Handling(s, q), IsTcp(q), RcvInv(q), NEW p \in Segment
  PROVE  Keeps(s, ProcessControl(s, p), q)
<1>1. Keeps(s, s, q) /\ Sound(s) /\ IsTcp(s) /\ SndInv(s)
  BY KeepsSelf, KeepsSound DEF Sound
<1>2. PICK t : t = [s EXCEPT !.unit = WndUnit]
  OBVIOUS
<1>3. AsideOf(s, t)
  BY <1>1, <1>2, UnitAside, Zenon
<1>4. Keeps(s, t, q) /\ Sound(t) /\ Handling(t, q)
  BY <1>1, <1>3, ThenAside, KeepsSound
<1>5. p.ctl \in BOOLEAN
  BY DEF Segment
<1>6. CASE ~p.ctl
  <2>1. ProcessControl(s, p) = s
    BY <1>6 DEF ProcessControl
  <2> QED
    BY <1>1, <2>1
<1>7. CASE p.ctl /\ s.state = "LISTEN"
  <2>1. PICK u : u = [t EXCEPT !.state = "SYN_RECEIVED"]
    OBVIOUS
  <2>2. ProcessControl(s, p) = QueueConnect(u)
    BY <1>2, <1>7, <2>1 DEF ProcessControl
  <2>3. AsideOf(t, u)
    BY <1>4, <2>1, StateAside
  <2>4. Keeps(s, u, q) /\ Handling(u, q)
    BY <1>4, <2>3, ThenAside, KeepsSound
  <2>5. u.state # "LISTEN"
    BY <1>4, <2>1 DEF Sound, IsTcp, Fields
  <2>6. u.snd_nxt = 0 /\ u.sbuf = <<>>
    <3>1. s.snd_nxt = 0 /\ s.sbuf = <<>>
      BY <1>1, <1>7 DEF SndInv
    <3> QED
      BY <1>3, <2>3, <3>1 DEF AsideOf, SameSnd
  <2>7. Keeps(u, QueueConnect(u), q)
    BY <2>4, <2>5, <2>6, QueueConnectKeeps
  <2> QED
    BY <2>2, <2>4, <2>7, KeepsTrans
<1>8. CASE p.ctl /\ s.state = "SYN_SENT"
  <2>1. ProcessControl(s, p) = Open(t)
    BY <1>2, <1>8 DEF ProcessControl
  <2>2. Keeps(t, Open(t), q)
    BY <1>4, OpenKeeps
  <2> QED
    BY <1>4, <2>1, <2>2, KeepsTrans
<1>9. CASE p.ctl /\ s.state \notin {"LISTEN", "SYN_SENT"}
  <2>1. ProcessControl(s, p) = t
    BY <1>2, <1>9 DEF ProcessControl
  <2> QED
    BY <1>4, <2>1
<1> QED
  BY <1>5, <1>6, <1>7, <1>8, <1>9

LEMMA WriteableAside ==
  ASSUME NEW s, Sound(s)
  PROVE  AsideOf(s, Writeable(s))
<1>1. PICK v \in BOOLEAN : v = (s.writeEnable /\ Len(s.sbuf) >= (SndBufLen + RcvBufLen) \div 2)
  BY DEF Sound, IsTcp
<1>2. PICK t : t = [s EXCEPT !.writeEnable = v]
  OBVIOUS
<1>3. IsTcp(t)
  BY <1>2 DEF Sound, IsTcp, Fields
<1>4. AsideOf(s, t)
  BY <1>2, <1>3, Shape DEF AsideOf, Fields, SameSnd, SameRcv
<1>5. Writeable(s) = t
  BY <1>1, <1>2, Zenon DEF Writeable
<1> QED
  BY <1>4, <1>5

----------------------------------------------------------------------------
(* Data                                                                    *)

\* A change to the receiver's half.
LEMMA RcvChanged ==
  ASSUME NEW s, NEW t, NEW q, Handling(s, q), IsTcp(q), IsTcp(t), SameSnd(s, t), RcvInv(t),
         t.cwnd = s.cwnd, t.ssthresh = s.ssthresh, t.state = s.state, t.room = s.room,
         t.out = s.out, s.rcv_nxt <= t.rcv_nxt, Edge(s) <= Edge(t),
         t.rcv_nxt <= q.snd_nxt, Bound(q, t.rcv_nxt),
         \A g \in t.rlist : SegEnd(g) <= q.snd_nxt /\ Bound(q, SegEnd(g))
  PROVE  Keeps(s, t, q)
<1>1. /\ IsTcp(s) /\ SndInv(s) /\ Pair(s, q) /\ Pair(q, s)
      /\ \A p \in s.out : Good(s, p, q)
  BY DEF Handling
<1>2. SndInv(t) /\ Pair(t, q) /\ \A n : Bound(s, n) => Bound(t, n)
  <2>1. t.cwnd > 0 /\ t.ssthresh > 0
    BY <1>1 DEF SndInv
  <2> QED
    BY <1>1, <2>1, SndSame
<1>3. Later(s, t)
  <2>1. s.snd_nxt <= t.snd_nxt
    BY <1>1, Numbers DEF SameSnd
  <2> QED
    BY <1>2, <2>1 DEF Later
<1>4. Pair(q, t)
  <2>1. /\ q.snd_una \in Nat /\ q.snd_wnd \in Nat /\ q.snd_nxt \in Nat /\ s.rcv_nxt \in Nat
        /\ t.rcv_nxt \in Nat /\ Edge(s) \in Nat /\ Edge(t) \in Nat
    BY <1>1, Numbers
  <2>2. q.snd_una <= s.rcv_nxt /\ q.snd_una + q.snd_wnd <= Edge(s) /\ q.snd_nxt <= Edge(s)
    BY <1>1 DEF Pair
  <2>3. q.snd_una <= t.rcv_nxt /\ q.snd_una + q.snd_wnd <= Edge(t) /\ q.snd_nxt <= Edge(t)
    BY <2>1, <2>2
  <2> QED
    BY <2>3 DEF Pair
<1>5. \A p \in t.out : Good(t, p, q)
  <2> TAKE p \in t.out
  <2>1. p \in Segment /\ p \in s.out
    BY DEF IsTcp
  <2> QED
    BY <1>1, <1>3, <2>1, GoodLater
<1> QED
  BY <1>2, <1>3, <1>4, <1>5 DEF Handling, Keeps

LEMMA WriteOffsetAside ==
  ASSUME NEW s, Sound(s), NEW data \in Seq(Nat), NEW offset \in Int
  PROVE  AsideOf(s, WriteOffset(s, data, offset)) /\ WriteOffset(s, data, offset).shutdown = s.shutdown
<1>1. PICK a : a = [i \in DOMAIN s.ahead |->
                      IF i - offset \in DOMAIN data THEN data[i - offset] ELSE s.ahead[i]]
  OBVIOUS
<1>2. s.ahead \in [1..RcvBufLen -> Nat]
  BY DEF Sound, IsTcp
<1>3. a \in [1..RcvBufLen -> Nat]
  <2>1. \A j \in DOMAIN data : data[j] \in Nat
    OBVIOUS
  <2>2. \A i \in 1..RcvBufLen :
          (IF i - offset \in DOMAIN data THEN data[i - offset] ELSE s.ahead[i]) \in Nat
    BY <1>2, <2>1
  <2>3. DOMAIN s.ahead = 1..RcvBufLen
    BY <1>2
  <2> QED
    BY <1>1, <2>2, <2>3
<1>4. PICK t : t = [s EXCEPT !.ahead = a]
  OBVIOUS
<1>5. IsTcp(t)
  BY <1>3, <1>4 DEF Sound, IsTcp, Fields
<1>6. AsideOf(s, t) /\ t.shutdown = s.shutdown
  BY <1>4, <1>5, Shape DEF AsideOf, Fields, SameSnd, SameRcv
<1>7. WriteOffset(s, data, offset) = t
  BY <1>1, <1>4, Zenon DEF WriteOffset
<1> QED
  BY <1>6, <1>7

\* The readable bytes after ConsumeWriteBuffer.
LEMMA Consumed ==
  ASSUME NEW b \in Seq(Nat), NEW a \in [1..RcvBufLen -> Nat], NEW k \in Nat, k <= RcvBufLen
  PROVE  /\ b \o SubSeq(a, 1, k) \in Seq(Nat) /\ Len(b \o SubSeq(a, 1, k)) = Len(b) + k
         /\ [i \in DOMAIN a |-> IF i + k \in DOMAIN a THEN a[i + k] ELSE 0]
              \in [1..RcvBufLen -> Nat]
<1>1. a \in Seq(Nat) /\ Len(a) = RcvBufLen
  BY Constants
<1>2. SubSeq(a, 1, k) \in Seq(Nat) /\ Len(SubSeq(a, 1, k)) = k
  <2>1. 0 + k <= Len(a) /\ 0 + 1 = 1 /\ 0 + k = k
    BY <1>1, Constants
  <2>2. SubSeq(a, 0 + 1, 0 + k) \in Seq(Nat) /\ Len(SubSeq(a, 0 + 1, 0 + k)) = k
    BY <1>1, <2>1, Piece
  <2> QED
    BY <2>1, <2>2
<1>3. b \o SubSeq(a, 1, k) \in Seq(Nat) /\ Len(b \o SubSeq(a, 1, k)) = Len(b) + Len(SubSeq(a, 1, k))
  BY <1>2, ConcatProperties, Zenon
<1>4. [i \in DOMAIN a |-> IF i + k \in DOMAIN a THEN a[i + k] ELSE 0] \in [1..RcvBufLen -> Nat]
  OBVIOUS
<1> QED
  BY <1>2, <1>3, <1>4

LEMMA RecoveredKeeps ==
  ASSUME NEW s, NEW q, Handling(s, q), IsTcp(q), NEW nxt \in Nat, s.rcv_nxt <= nxt,
         nxt <= Edge(s), nxt <= q.snd_nxt, Bound(q, nxt)
  PROVE  Keeps(s, Recovered(s, nxt), q)
<1>1. IsTcp(s) /\ RcvInv(s) /\ Pair(q, s)
  BY DEF Handling
<1>2. PICK k, w : k = nxt - s.rcv_nxt /\ w = s.rcv_wnd - k
  OBVIOUS
<1>3. /\ s.rcv_nxt \in Nat /\ s.rcv_wnd \in Nat /\ s.rcv_wnd <= RcvBufLen /\ k \in Nat
      /\ k <= s.rcv_wnd /\ k <= RcvBufLen /\ w \in Nat /\ w <= RcvBufLen /\ w + k = s.rcv_wnd
      /\ nxt + w = s.rcv_nxt + s.rcv_wnd
  <2>1. s.rcv_nxt \in Nat /\ s.rcv_wnd \in Nat /\ s.rcv_wnd <= RcvBufLen
    BY <1>1, Numbers
  <2>2. nxt <= s.rcv_nxt + s.rcv_wnd
    BY DEF Edge
  <2> QED
    BY <1>2, <2>1, <2>2, Constants
<1>4. PICK b, a, l :
        /\ b = s.rbuf \o SubSeq(s.ahead, 1, k)
        /\ a = [i \in DOMAIN s.ahead |-> IF i + k \in DOMAIN s.ahead THEN s.ahead[i + k] ELSE 0]
        /\ l = {r \in s.rlist : r.seq > nxt}
  OBVIOUS
<1>5. b \in Seq(Nat) /\ Len(b) = Len(s.rbuf) + k /\ a \in [1..RcvBufLen -> Nat]
  <2>1. s.rbuf \in Seq(Nat) /\ s.ahead \in [1..RcvBufLen -> Nat]
    BY <1>1 DEF IsTcp
  <2> QED
    BY <1>3, <1>4, <2>1, Consumed
<1>6. l \subseteq s.rlist /\ l \in SUBSET [seq : Nat, len : Nat]
  BY <1>1, <1>4 DEF IsTcp
<1>7. PICK t : t = [s EXCEPT !.rbuf = b, !.ahead = a, !.rcv_nxt = nxt, !.rcv_wnd = w, !.rlist = l]
  OBVIOUS
<1>8. Recovered(s, nxt) = t
  <2>1. ConsumeWrite(s, k) = [s EXCEPT !.rbuf = b, !.ahead = a]
    BY <1>1, <1>4 DEF ConsumeWrite, IsTcp, Fields
  <2>2. PICK u : u = [s EXCEPT !.rbuf = b, !.ahead = a]
    OBVIOUS
  <2>3. u.rcv_wnd = s.rcv_wnd /\ u.rlist = s.rlist
    BY <1>1, <2>2 DEF IsTcp, Fields
  <2>4. Recovered(s, nxt) = [u EXCEPT !.rcv_nxt = nxt, !.rcv_wnd = u.rcv_wnd - k,
                                      !.rlist = {r \in u.rlist : r.seq > nxt}]
    <3>1. u = ConsumeWrite(s, nxt - s.rcv_nxt)
      BY <1>2, <2>1, <2>2
    <3>2. DOMAIN u = Fields
      BY <1>1, <2>2 DEF IsTcp, Fields
    <3> QED
      BY <1>2, <3>1, <3>2 DEF Recovered, Fields
  <2>5. Recovered(s, nxt) = [u EXCEPT !.rcv_nxt = nxt, !.rcv_wnd = w, !.rlist = l]
    BY <1>2, <1>4, <2>3, <2>4, Zenon
  <2> QED
    BY <1>7, <2>2, <2>5, Zenon
<1>9. IsTcp(t)
  <2>1. w \in 0..RcvBufLen
    BY <1>3, Constants
  <2> QED
    BY <1>1, <1>5, <1>6, <1>7, <2>1 DEF IsTcp, Fields
<1>10. /\ SameSnd(s, t) /\ t.cwnd = s.cwnd /\ t.ssthresh = s.ssthresh /\ t.state = s.state
       /\ t.room = s.room /\ t.out = s.out
       /\ t.rbuf = b /\ t.rcv_nxt = nxt /\ t.rcv_wnd = w /\ t.rlist = l
  BY <1>1, <1>7 DEF IsTcp, Fields, SameSnd
<1>11. Edge(t) = Edge(s)
  BY <1>3, <1>10 DEF Edge
<1>12. RcvInv(t)
  <2>1. t.rcv_wnd + Len(t.rbuf) <= RcvBufLen
    <3>1. s.rcv_wnd + Len(s.rbuf) <= RcvBufLen /\ Len(s.rbuf) \in Nat
      BY <1>1, Numbers DEF RcvInv
    <3>2. t.rcv_wnd + Len(t.rbuf) = w + (Len(s.rbuf) + k)
      BY <1>5, <1>10
    <3> QED
      BY <1>3, <3>1, <3>2
  <2> QED
    BY <1>1, <1>6, <1>10, <1>11, <2>1 DEF RcvInv
<1>13. \A g \in t.rlist : SegEnd(g) <= q.snd_nxt /\ Bound(q, SegEnd(g))
  BY <1>1, <1>6, <1>10 DEF Pair
<1>14. Edge(s) <= Edge(t)
  BY <1>1, <1>11, Numbers
<1>15. Keeps(s, t, q)
  BY <1>9, <1>10, <1>12, <1>13, <1>14, RcvChanged
<1> QED
  BY <1>8, <1>15

\* The saved segments reach to the end of the new data or to the end of one of them.
LEMMA ReachedIs ==
  ASSUME NEW R, \A r \in R : r.seq \in Nat /\ r.len \in Nat /\ SegEnd(r) \in Nat,
         NEW n \in Nat, NEW top \in Nat, n <= top, \A r \in R : SegEnd(r) <= top
  PROVE  /\ Reached(R, n) \in Nat /\ n <= Reached(R, n) /\ Reached(R, n) <= top
         /\ Reached(R, n) = n \/ \E r \in R : Reached(R, n) = SegEnd(r)
<1> DEFINE ends == {n} \cup {SegEnd(r) : r \in R}
           last(r) == r.seq + r.len - 1
           free(m) == \A r \in R : m \notin r.seq..last(r)
           T == {m \in n..Max(ends) : free(m)}
<1>1. Reached(R, n) = Min(T)
  BY DEF Reached, SegEnd
<1>0. \A r \in R : last(r) = SegEnd(r) - 1
  BY DEF SegEnd
<1> HIDE DEF last
<1>2. ends \subseteq Nat /\ ends # {} /\ n \in ends /\ \A k \in ends : k <= top
  OBVIOUS
<1>3. Max(ends) \in ends /\ \A k \in ends : k <= Max(ends)
  <2> HIDE DEF ends
  <2> QED
    BY <1>2, MaxOf
<1>4. PICK big \in Nat : big = Max(ends) /\ n <= big /\ big <= top
  <2> HIDE DEF ends
  <2> QED
    BY <1>2, <1>3
<1>5. big \in T
  <2>1. \A r \in R : SegEnd(r) <= big
    <3> TAKE r \in R
    <3>1. SegEnd(r) \in ends
      OBVIOUS
    <3> QED
      BY <1>3, <1>4, <3>1
  <2>2. free(big)
    BY <1>0, <2>1
  <2> HIDE DEF ends, free
  <2> QED
    BY <1>4, <2>2
<1>6. T \subseteq Nat /\ T # {} /\ \A m \in T : n <= m /\ m <= big /\ free(m)
  <2> HIDE DEF ends, free
  <2> QED
    BY <1>4, <1>5
<1>7. PICK m : m = Min(T)
  OBVIOUS
<1>8. m \in T /\ \A k \in T : m <= k
  <2> HIDE DEF T
  <2> QED
    BY <1>6, <1>7, MinOf
<1>9. m \in Nat /\ n <= m /\ m <= big /\ free(m)
  <2> HIDE DEF T, free
  <2> QED
    BY <1>6, <1>8
<1>10. ASSUME m # n PROVE \E r \in R : m = SegEnd(r)
  <2>1. m - 1 \in n..big /\ m - 1 \notin T
    <3>1. m - 1 \in n..big /\ ~(m <= m - 1)
      BY <1>9, <1>10
    <3> HIDE DEF T
    <3> QED
      BY <1>8, <3>1
  <2>2. ~free(m - 1)
    <3> HIDE DEF ends, free
    <3> QED
      BY <1>4, <2>1
  <2>3. PICK r \in R : m - 1 \in r.seq..(SegEnd(r) - 1)
    BY <1>0, <2>2
  <2>4. m \notin r.seq..(SegEnd(r) - 1)
    BY <1>0, <1>9
  <2>5. r.seq \in Nat /\ SegEnd(r) \in Nat
    OBVIOUS
  <2>6. m = SegEnd(r)
    BY <1>9, <2>3, <2>4, <2>5
  <2> QED
    BY <2>6
<1> HIDE DEF T, ends, free
<1>11. Reached(R, n) = m
  BY <1>1, <1>7
<1>12. m \in Nat /\ n <= m /\ m <= top
  BY <1>4, <1>9
<1>13. m = n \/ \E r \in R : m = SegEnd(r)
  BY <1>10
<1> QED
  BY <1>11, <1>12, <1>13, Zenon

\* Control data, and data after Close, is acknowledged and dropped.
LEMMA DropKeeps ==
  ASSUME NEW s, NEW q, Handling(s, q), IsTcp(q), NEW n \in Nat, s.rcv_nxt <= n,
         n <= q.snd_nxt, Bound(q, n)
  PROVE  Keeps(s, [s EXCEPT !.rcv_nxt = n], q)
<1>1. IsTcp(s) /\ RcvInv(s) /\ Pair(q, s)
  BY DEF Handling
<1>2. PICK t : t = [s EXCEPT !.rcv_nxt = n]
  OBVIOUS
<1>3. IsTcp(t)
  BY <1>1, <1>2 DEF IsTcp, Fields
<1>4. /\ SameSnd(s, t) /\ t.cwnd = s.cwnd /\ t.ssthresh = s.ssthresh /\ t.state = s.state
      /\ t.room = s.room /\ t.out = s.out
      /\ t.rbuf = s.rbuf /\ t.rcv_nxt = n /\ t.rcv_wnd = s.rcv_wnd /\ t.rlist = s.rlist
  BY <1>1, <1>2 DEF IsTcp, Fields, SameSnd
<1>5. Edge(s) <= Edge(t) /\ Edge(s) \in Nat /\ Edge(t) \in Nat
  <2>1. s.rcv_nxt \in Nat /\ s.rcv_wnd \in Nat
    BY <1>1, Numbers
  <2> QED
    BY <1>4, <2>1 DEF Edge
<1>6. RcvInv(t)
  <2>1. RcvBufLen <= Edge(t)
    BY <1>1, <1>5, Constants DEF RcvInv
  <2>2. \A r \in t.rlist : SegEnd(r) <= Edge(t) /\ r.len > 0
    <3> TAKE r \in t.rlist
    <3>1. SegEnd(r) \in Nat /\ SegEnd(r) <= Edge(s) /\ r.len > 0
      BY <1>1, <1>4, Numbers DEF RcvInv
    <3> QED
      BY <1>5, <3>1
  <2> QED
    BY <1>1, <1>4, <2>1, <2>2 DEF RcvInv
<1>7. \A g \in t.rlist : SegEnd(g) <= q.snd_nxt /\ Bound(q, SegEnd(g))
  BY <1>1, <1>4 DEF Pair
<1>8. Keeps(s, t, q)
  BY <1>3, <1>4, <1>5, <1>6, <1>7, RcvChanged
<1> QED
  BY <1>2, <1>8, Zenon

\* Data behind a gap is saved.
LEMMA SaveKeeps ==
  ASSUME NEW s, NEW q, Handling(s, q), IsTcp(q), NEW seq \in Nat, NEW len \in Nat, len > 0,
         seq + len <= q.snd_nxt, Bound(q, seq + len)
  PROVE  Keeps(s, [s EXCEPT !.rlist = @ \cup {[seq |-> seq, len |-> len]}], q)
<1>1. IsTcp(s) /\ RcvInv(s) /\ Pair(q, s)
  BY DEF Handling
<1>2. PICK r : r = [seq |-> seq, len |-> len]
  OBVIOUS
<1>3. r \in [seq : Nat, len : Nat] /\ SegEnd(r) = seq + len /\ r.len > 0
  BY <1>2 DEF SegEnd
<1>4. PICK l : l = s.rlist \cup {r}
  OBVIOUS
<1>5. l \in SUBSET [seq : Nat, len : Nat]
  BY <1>1, <1>3, <1>4 DEF IsTcp
<1>6. PICK t : t = [s EXCEPT !.rlist = l]
  OBVIOUS
<1>7. IsTcp(t)
  BY <1>1, <1>5, <1>6 DEF IsTcp, Fields
<1>8. /\ SameSnd(s, t) /\ t.cwnd = s.cwnd /\ t.ssthresh = s.ssthresh /\ t.state = s.state
      /\ t.room = s.room /\ t.out = s.out
      /\ t.rbuf = s.rbuf /\ t.rcv_nxt = s.rcv_nxt /\ t.rcv_wnd = s.rcv_wnd /\ t.rlist = l
  BY <1>1, <1>6 DEF IsTcp, Fields, SameSnd
<1>9. Edge(t) = Edge(s) /\ s.rcv_nxt <= t.rcv_nxt /\ Edge(s) <= Edge(t)
  BY <1>1, <1>8, Numbers DEF Edge
<1>10. RcvInv(t)
  <2>1. SegEnd(r) <= Edge(t)
    <3>1. q.snd_nxt <= Edge(s) /\ q.snd_nxt \in Nat /\ Edge(s) \in Nat
      BY <1>1, Numbers DEF Pair
    <3> QED
      BY <1>3, <1>9, <3>1
  <2> QED
    BY <1>1, <1>3, <1>4, <1>8, <1>9, <2>1 DEF RcvInv
<1>11. \A g \in t.rlist : SegEnd(g) <= q.snd_nxt /\ Bound(q, SegEnd(g))
  BY <1>1, <1>3, <1>4, <1>8 DEF Pair
<1>12. t.rcv_nxt <= q.snd_nxt /\ Bound(q, t.rcv_nxt)
  BY <1>1, <1>8 DEF Pair
<1>13. Keeps(s, t, q)
  BY <1>7, <1>8, <1>9, <1>10, <1>11, <1>12, RcvChanged
<1> QED
  BY <1>2, <1>4, <1>6, <1>13, Zenon

LEMMA SaveDataKeeps ==
  ASSUME NEW s, NEW q, Handling(s, q), IsTcp(q), NEW p \in Segment, NEW seq \in Nat,
         NEW data \in Seq(Nat),
         data # <<>> => /\ s.rcv_nxt <= seq /\ seq + Len(data) <= q.snd_nxt
                        /\ Bound(q, seq + Len(data))
  PROVE  Keeps(s, SaveData(s, p, seq, data), q)
<1>1. IsTcp(s) /\ RcvInv(s) /\ Pair(q, s) /\ Sound(s) /\ Keeps(s, s, q)
  BY KeepsSelf, KeepsSound DEF Handling
<1>2. p.ctl \in BOOLEAN
  BY DEF Segment
<1>3. CASE data = <<>>
  <2>1. SaveData(s, p, seq, data) = s
    BY <1>3 DEF SaveData
  <2> QED
    BY <1>1, <2>1
<1>4. ASSUME data # <<>> PROVE Keeps(s, SaveData(s, p, seq, data), q)
  <2>1. PICK len \in Nat : len = Len(data) /\ len > 0
    BY <1>4
  <2>2. s.rcv_nxt <= seq /\ seq + len <= q.snd_nxt /\ Bound(q, seq + len) /\ seq + len \in Nat
    BY <1>4, <2>1
  <2>3. s.rcv_nxt \in Nat /\ q.snd_nxt \in Nat /\ Edge(s) \in Nat /\ q.snd_nxt <= Edge(s)
    BY <1>1, Numbers DEF Pair
  <2>4. CASE p.ctl \/ s.shutdown # "NONE"
    <3>1. PICK n : n = IF seq = s.rcv_nxt THEN s.rcv_nxt + len ELSE s.rcv_nxt
      OBVIOUS
    <3>2. SaveData(s, p, seq, data) = [s EXCEPT !.rcv_nxt = n]
      BY <1>4, <2>1, <2>4, <3>1 DEF SaveData
    <3>3. n \in Nat /\ s.rcv_nxt <= n /\ n <= q.snd_nxt /\ Bound(q, n)
      <4>1. CASE seq = s.rcv_nxt
        <5>1. n = seq + len
          BY <3>1, <4>1
        <5> QED
          BY <2>1, <2>2, <2>3, <5>1
      <4>2. CASE seq # s.rcv_nxt
        <5>1. n = s.rcv_nxt
          BY <3>1, <4>2
        <5>2. s.rcv_nxt <= s.rcv_nxt
          BY <2>3
        <5> QED
          BY <1>1, <2>3, <5>1, <5>2, Zenon DEF Pair
      <4> QED
        BY <4>1, <4>2
    <3> QED
      BY <3>2, <3>3, DropKeeps, ZenonT(30)
  <2>5. CASE ~p.ctl /\ s.shutdown = "NONE" /\ seq = s.rcv_nxt
    <3>1. PICK u : u = WriteOffset(s, data, 0)
      OBVIOUS
    <3>2. PICK nxt : nxt = Reached(s.rlist, s.rcv_nxt + len)
      OBVIOUS
    <3>3. SaveData(s, p, seq, data) = Recovered(u, nxt)
      BY <1>4, <2>1, <2>5, <3>1, <3>2, Zenon DEF SaveData
    <3>4. AsideOf(s, u)
      <4>1. 0 \in Int
        OBVIOUS
      <4> QED
        BY <1>1, <3>1, <4>1, WriteOffsetAside
    <3>5. Keeps(s, u, q) /\ Handling(u, q)
      BY <1>1, <3>4, ThenAside, KeepsSound
    <3>6. nxt \in Nat /\ s.rcv_nxt <= nxt /\ nxt <= q.snd_nxt /\ Bound(q, nxt)
      <4>1. \A r \in s.rlist : r.seq \in Nat /\ r.len \in Nat /\ SegEnd(r) \in Nat
        BY <1>1, Numbers
      <4>2. \A r \in s.rlist : SegEnd(r) <= q.snd_nxt /\ Bound(q, SegEnd(r))
        BY <1>1 DEF Pair
      <4>3. PICK n \in Nat : n = s.rcv_nxt + len /\ n <= q.snd_nxt /\ Bound(q, n) /\ s.rcv_nxt <= n
        BY <2>2, <2>3, <2>5
      <4>4. /\ nxt \in Nat /\ n <= nxt /\ nxt <= q.snd_nxt
            /\ nxt = n \/ \E r \in s.rlist : nxt = SegEnd(r)
        BY <2>3, <3>2, <4>1, <4>2, <4>3, ReachedIs
      <4>5. Bound(q, nxt)
        BY <4>2, <4>3, <4>4
      <4>6. s.rcv_nxt <= nxt
        BY <2>3, <4>3, <4>4
      <4> QED
        BY <4>4, <4>5, <4>6
    <3>7. u.rcv_nxt <= nxt /\ nxt <= Edge(u)
      <4>1. u.rcv_nxt = s.rcv_nxt /\ Edge(u) = Edge(s)
        BY <3>4 DEF AsideOf, SameRcv, Edge
      <4> QED
        BY <2>3, <3>6, <4>1
    <3>8. Keeps(u, Recovered(u, nxt), q)
      BY <3>5, <3>6, <3>7, RecoveredKeeps
    <3> QED
      BY <3>3, <3>5, <3>8, KeepsTrans
  <2>6. CASE ~p.ctl /\ s.shutdown = "NONE" /\ seq # s.rcv_nxt
    <3>1. PICK u : u = WriteOffset(s, data, seq - s.rcv_nxt)
      OBVIOUS
    <3>2. SaveData(s, p, seq, data) = [u EXCEPT !.rlist = @ \cup {[seq |-> seq, len |-> len]}]
      BY <1>4, <2>1, <2>6, <3>1, Zenon DEF SaveData
    <3>3. AsideOf(s, u)
      <4>1. seq - s.rcv_nxt \in Int
        BY <2>3
      <4> QED
        BY <1>1, <3>1, <4>1, WriteOffsetAside
    <3>4. Keeps(s, u, q) /\ Handling(u, q)
      BY <1>1, <3>3, ThenAside, KeepsSound
    <3>5. Keeps(u, [u EXCEPT !.rlist = @ \cup {[seq |-> seq, len |-> len]}], q)
      BY <2>1, <2>2, <3>4, SaveKeeps, Zenon
    <3>6. Keeps(u, SaveData(s, p, seq, data), q)
      BY <3>2, <3>5, Zenon
    <3> QED
      BY <3>4, <3>6, KeepsTrans
  <2> QED
    BY <1>2, <2>4, <2>5, <2>6
<1> QED
  BY <1>3, <1>4

\* Nothing that the peer sent has to be cut off to fit the buffer.
LEMMA ProcessDataKeeps ==
  ASSUME NEW s, NEW q, Handling(s, q), IsTcp(q), NEW p \in Segment, Good(q, p, s)
  PROVE  Keeps(s, ProcessData(s, p), q)
<1>1. IsTcp(s) /\ RcvInv(s) /\ Pair(q, s)
  BY DEF Handling
<1>2. p.seq \in Nat /\ p.data \in Seq(Nat)
  BY DEF Segment
<1>3. PICK n \in Nat, seq \in Nat, len \in Nat, space \in Nat, w \in Nat :
        /\ n = s.rcv_nxt /\ seq = p.seq /\ len = Len(p.data) /\ space = RcvSpace(s)
        /\ w = s.rcv_wnd /\ w <= space
  <2>1. /\ s.rcv_nxt \in Nat /\ s.rcv_wnd \in Nat /\ Len(s.rbuf) \in Nat
        /\ s.rcv_wnd + Len(s.rbuf) <= RcvBufLen
    BY <1>1, Numbers DEF RcvInv
  <2>2. RcvSpace(s) \in Nat /\ s.rcv_wnd <= RcvSpace(s)
    BY <2>1, Constants DEF RcvSpace
  <2>3. Len(p.data) \in Nat
    BY <1>2
  <2> QED
    BY <1>2, <2>1, <2>2, <2>3
<1>4. len > 0 => seq + len <= q.snd_nxt /\ Bound(q, seq + len) /\ seq + len <= n + w
  <2> SUFFICES ASSUME len > 0
               PROVE  seq + len <= q.snd_nxt /\ Bound(q, seq + len) /\ seq + len <= n + w
    OBVIOUS
  <2>1. p.data # <<>>
    BY <1>3
  <2>2. seq + len <= q.snd_nxt /\ Bound(q, seq + len)
    BY <1>3, <2>1 DEF Good
  <2>3. q.snd_nxt \in Nat /\ q.snd_nxt <= n + w
    BY <1>1, <1>3, Numbers DEF Pair, Edge
  <2> QED
    BY <2>2, <2>3
<1>5. PICK d : d = Max({n - seq, 0})
  OBVIOUS
<1>6. d \in Nat /\ n - seq <= d
  <2>1. n - seq \in Int /\ 0 \in Int
    OBVIOUS
  <2>2. d = IF n - seq <= 0 THEN 0 ELSE n - seq
    BY <1>5, <2>1, OfTwo
  <2> QED
    BY <2>1, <2>2
<1>7. PICK old : old = Min({d, len})
  OBVIOUS
<1>8. old \in Nat /\ old <= len /\ (old < len => n <= seq + old)
  <2>1. old = IF d <= len THEN d ELSE len
    BY <1>6, <1>7, OfTwo
  <2> QED
    BY <1>6, <2>1
<1>9. PICK fits : fits = Max({n + space - seq, 0})
  OBVIOUS
<1>10. fits \in Nat /\ len <= fits
  <2>1. n + space - seq \in Int /\ 0 \in Int
    OBVIOUS
  <2>2. fits = IF n + space - seq <= 0 THEN 0 ELSE n + space - seq
    BY <1>9, <2>1, OfTwo
  <2>3. CASE len = 0
    BY <2>1, <2>2, <2>3
  <2>4. CASE len > 0
    <3>1. seq + len <= n + w /\ w <= space
      BY <1>3, <1>4, <2>4, Zenon
    <3>2. len <= n + space - seq
      BY <3>1
    <3> QED
      BY <2>2, <2>4, <3>2
  <2> QED
    BY <2>3, <2>4
<1>11. Min({len, fits}) = len
  BY <1>10, OfTwo
<1>12. PICK data : data = SubSeq(p.data, old + 1, len)
  OBVIOUS
<1>13. data \in Seq(Nat) /\ Len(data) = len - old
  BY <1>2, <1>3, <1>8, <1>12, Remainder
<1>14. ProcessData(s, p) = SaveData(s, p, seq + old, data)
  <2>1. ProcessData(s, p)
          = SaveData(s, p, p.seq + old, SubSeq(p.data, old + 1, Min({Len(p.data), fits})))
    BY <1>3, <1>5, <1>7, <1>9, Zenon DEF ProcessData
  <2> QED
    BY <1>3, <1>11, <1>12, <2>1, Zenon
<1>15. seq + old \in Nat
  BY <1>8
<1>16. ASSUME data # <<>>
       PROVE  /\ s.rcv_nxt <= seq + old /\ (seq + old) + Len(data) <= q.snd_nxt
              /\ Bound(q, (seq + old) + Len(data))
  <2>1. Len(data) > 0
    BY <1>13, <1>16
  <2>2. old < len /\ len > 0
    BY <1>8, <1>13, <2>1
  <2>3. (seq + old) + Len(data) = seq + len
    BY <1>8, <1>13
  <2> QED
    BY <1>3, <1>4, <1>8, <2>2, <2>3
<1> QED
  BY <1>13, <1>14, <1>15, <1>16, SaveDataKeeps

LEMMA ReadEnableAside ==
  ASSUME NEW s, Sound(s), NEW v \in BOOLEAN
  PROVE  AsideOf(s, [s EXCEPT !.readEnable = v])
<1>1. PICK t : t = [s EXCEPT !.readEnable = v]
  OBVIOUS
<1>2. IsTcp(t)
  BY <1>1 DEF Sound, IsTcp, Fields
<1>3. AsideOf(s, t)
  BY <1>1, <1>2, Shape DEF AsideOf, Fields, SameSnd, SameRcv
<1> QED
  BY <1>1, <1>3, Zenon

LEMMA TakeDataKeeps ==
  ASSUME NEW s, NEW q, Handling(s, q), IsTcp(q), NEW p \in Segment, Good(q, p, s),
         NEW late \in BOOLEAN
  PROVE  Keeps(s, TakeData(s, p, late), q)
<1>1. PICK t : t = ProcessData(s, p)
  OBVIOUS
<1>2. Keeps(s, t, q)
  BY <1>1, ProcessDataKeeps
<1>3. PICK u : u = AttemptSend(t, AckFlags(s, t, p), late)
  OBVIOUS
<1>4. Keeps(t, u, q)
  BY <1>2, <1>3, AttemptSendKeeps DEF Keeps
<1>5. Keeps(s, u, q)
  BY <1>2, <1>4, KeepsTrans
<1>6. PICK v \in BOOLEAN : v = (u.readEnable /\ Len(t.rbuf) = Len(s.rbuf))
  <2>1. u.readEnable \in BOOLEAN
    BY <1>5 DEF Keeps, Handling, IsTcp
  <2> QED
    BY <2>1
<1>7. TakeData(s, p, late) = [u EXCEPT !.readEnable = v]
  BY <1>1, <1>3, <1>6, Zenon DEF TakeData, Answer
<1>8. AsideOf(u, [u EXCEPT !.readEnable = v])
  BY <1>5, KeepsSound, ReadEnableAside, Zenon
<1>9. AsideOf(u, TakeData(s, p, late))
  BY <1>7, <1>8, Zenon
<1> QED
  BY <1>5, <1>9, ThenAside

LEMMA ProbesAside ==
  ASSUME NEW s, Sound(s), NEW v \in Nat
  PROVE  AsideOf(s, [s EXCEPT !.probes = v])
<1>1. PICK t : t = [s EXCEPT !.probes = v]
  OBVIOUS
<1>2. IsTcp(t)
  BY <1>1 DEF Sound, IsTcp, Fields
<1>3. AsideOf(s, t)
  BY <1>1, <1>2, Shape DEF AsideOf, Fields, SameSnd, SameRcv
<1> QED
  BY <1>1, <1>3, Zenon

LEMMA OpenedKeeps ==
  ASSUME NEW s, NEW q, Handling(s, q), NEW p
  PROVE  Keeps(s, Opened(s, p), q)
  BY OpenKeeps, KeepsSelf DEF Opened

LEMMA AcknowledgedKeeps ==
  ASSUME NEW s, NEW q, Handling(s, q), IsTcp(q), NEW p \in Segment, Good(q, p, s),
         NEW late \in BOOLEAN
  PROVE  Keeps(s, Acknowledged(s, p, late), q)
<1>1. CASE s.state = "CLOSED"
  BY <1>1, KeepsSelf DEF Acknowledged
<1>2. CASE s.state # "CLOSED"
  <2>1. PICK t : t = Opened(s, p)
    OBVIOUS
  <2>2. PICK u : u = Writeable(t)
    OBVIOUS
  <2>3. Keeps(s, t, q)
    BY <2>1, OpenedKeeps
  <2>4. AsideOf(t, u)
    BY <2>2, <2>3, KeepsSound, WriteableAside
  <2>5. Keeps(s, u, q) /\ Handling(u, q) /\ Later(s, u)
    BY <2>3, <2>4, ThenAside DEF Keeps
  <2>6. Good(q, p, u)
    BY <2>5, GoodPeerLater
  <2>7. Keeps(u, TakeData(u, p, late), q)
    BY <2>5, <2>6, TakeDataKeeps
  <2>8. Acknowledged(s, p, late) = TakeData(u, p, late)
    BY <1>2, <2>1, <2>2 DEF Acknowledged
  <2> QED
    BY <2>5, <2>7, <2>8, KeepsTrans
<1> QED
  BY <1>1, <1>2

\* The whole of process().
LEMMA ProcessKeeps ==
  ASSUME NEW s, NEW q, Handling(s, q), IsTcp(q), RcvInv(q), NEW p \in Segment, Good(q, p, s),
         NEW late \in BOOLEAN
  PROVE  Keeps(s, Process(s, p, late), q)
<1>1. Keeps(s, s, q) /\ Sound(s)
  BY KeepsSelf, KeepsSound
<1>2. PICK s0 : s0 = [s EXCEPT !.probes = 0]
  OBVIOUS
<1>3. AsideOf(s, s0)
  <2>1. 0 \in Nat
    OBVIOUS
  <2> QED
    BY <1>1, <1>2, <2>1, ProbesAside, Zenon
<1>4. Keeps(s, s0, q)
  BY <1>1, <1>3, ThenAside
<1>5. PICK s1 : s1 = ProcessControl(s0, p)
  OBVIOUS
<1>6. Keeps(s0, s1, q)
  BY <1>4, <1>5, ProcessControlKeeps DEF Keeps
<1>7. Keeps(s, s1, q)
  BY <1>4, <1>6, KeepsTrans
<1>8. Good(q, p, s1)
  BY <1>7, GoodPeerLater DEF Keeps
<1>9. PICK s2 : s2 = ProcessAck(s1, p)
  OBVIOUS
<1>10. Keeps(s1, s2, q)
  BY <1>7, <1>8, <1>9, ProcessAckKeeps DEF Keeps
<1>11. Keeps(s, s2, q)
  BY <1>7, <1>10, KeepsTrans
<1>12. Good(q, p, s2)
  BY <1>11, GoodPeerLater DEF Keeps
<1>13. Keeps(s2, Acknowledged(s2, p, late), q)
  BY <1>11, <1>12, AcknowledgedKeeps DEF Keeps
<1>14. Process(s, p, late) = Acknowledged(s2, p, late)
  BY <1>2, <1>5, <1>9 DEF Process
<1> QED
  BY <1>11, <1>13, <1>14, KeepsTrans

----------------------------------------------------------------------------
(* Timers and reads                                                        *)

LEMMA ClockRtoKeeps ==
  ASSUME NEW s, NEW q, Handling(s, q), IsTcp(q), NEW due, "rto" \in due => s.rto
  PROVE  Keeps(s, ClockRto(s, due), q)
<1>1. Keeps(s, s, q) /\ Sound(s) /\ IsTcp(s) /\ SndInv(s)
  BY KeepsSelf, KeepsSound DEF Sound
<1>2. CASE ~Ticking(s, "rto", due)
  BY <1>1, <1>2 DEF ClockRto
<1>3. CASE Ticking(s, "rto", due) /\ ~MayTransmit(s, 1)
  <2>1. ClockRto(s, due) = Closedown(s)
    BY <1>3 DEF ClockRto
  <2> QED
    BY <1>1, <2>1, ClosedownAside, ThenAside
<1>4. CASE Ticking(s, "rto", due) /\ MayTransmit(s, 1)
  <2>1. s.snd_una < s.snd_nxt
    BY <1>1, <1>4 DEF Ticking, SndInv
  <2>2. PICK t : t = Transmit(s, 1)
    OBVIOUS
  <2>3. Keeps(s, t, q)
    BY <1>4, <2>1, <2>2, TransmitFirst
  <2>4. PICK u : u = Halved(t)
    OBVIOUS
  <2>5. Keeps(s, u, q)
    BY <2>3, <2>4, KeepsSound, HalvedAside, ThenAside
  <2>6. Keeps(u, SlowStart(u), q)
    BY <2>5, KeepsSound, SlowStartKeeps
  <2>7. ClockRto(s, due) = SlowStart(u)
    BY <1>4, <2>2, <2>4, Zenon DEF ClockRto
  <2> QED
    BY <2>5, <2>6, <2>7, KeepsTrans
<1> QED
  BY <1>2, <1>3, <1>4

LEMMA ClockProbeKeeps ==
  ASSUME NEW s, NEW q, Handling(s, q), IsTcp(q), NEW due, NEW silent \in BOOLEAN,
         "probe" \in due => s.snd_nxt > 0
  PROVE  Keeps(s, ClockProbe(s, due, silent), q)
<1>1. Keeps(s, s, q) /\ Sound(s) /\ IsTcp(s)
  BY KeepsSelf, KeepsSound DEF Sound
<1>2. CASE ~Ticking(s, "probe", due)
  BY <1>1, <1>2 DEF ClockProbe
<1>3. CASE Ticking(s, "probe", due) /\ silent
  <2>1. ClockProbe(s, due, silent) = Closedown(s)
    BY <1>3 DEF ClockProbe
  <2> QED
    BY <1>1, <2>1, ClosedownAside, ThenAside
<1>4. CASE Ticking(s, "probe", due) /\ ~silent
  <2>1. s.snd_nxt - 1 \in Nat
    BY <1>1, <1>4, Numbers DEF Ticking
  <2>2. PICK t : t = Packet(s, s.snd_nxt - 1, FALSE, <<>>)
    OBVIOUS
  <2>3. Keeps(s, t, q)
    BY <2>1, <2>2, PacketKeeps DEF Keeps
  <2>4. PICK v : v = t.probes + 1
    OBVIOUS
  <2>5. Sound(t) /\ v \in Nat
    <3>1. Sound(t)
      BY <2>3, KeepsSound
    <3> QED
      BY <2>4, <3>1, Windows
  <2>6. ClockProbe(s, due, silent) = [t EXCEPT !.probes = v]
    BY <1>4, <2>2, <2>4, Zenon DEF ClockProbe
  <2>7. AsideOf(t, [t EXCEPT !.probes = v])
    BY <2>5, ProbesAside, Zenon
  <2>8. AsideOf(t, ClockProbe(s, due, silent))
    BY <2>6, <2>7, Zenon
  <2> QED
    BY <2>3, <2>8, ThenAside
<1> QED
  BY <1>2, <1>3, <1>4

LEMMA ClockAckKeeps ==
  ASSUME NEW s, NEW q, Handling(s, q), NEW due
  PROVE  Keeps(s, ClockAck(s, due), q)
<1>1. s.snd_nxt \in Nat
  BY Numbers DEF Handling
<1>2. CASE ClockAck(s, due) = Packet(s, s.snd_nxt, FALSE, <<>>)
  BY <1>1, <1>2, PacketKeeps DEF Keeps
<1>3. CASE ClockAck(s, due) = s
  BY <1>3, KeepsSelf
<1> QED
  BY <1>2, <1>3 DEF ClockAck

\* What a read leaves in the buffer, and the window after it.
LEMMA ReadRest ==
  ASSUME NEW b \in Seq(Nat), NEW n \in Nat
  PROVE  SubSeq(b, n + 1, Len(b)) \in Seq(Nat) /\ Len(SubSeq(b, n + 1, Len(b))) <= Len(b)
<1>1. CASE n <= Len(b)
  <2>1. SubSeq(b, n + 1, Len(b)) \in Seq(Nat) /\ Len(SubSeq(b, n + 1, Len(b))) = Len(b) - n
    BY <1>1, Remainder
  <2> QED
    BY <2>1
<1>2. CASE ~(n <= Len(b))
  <2>1. \A i \in (n + 1)..Len(b) : b[i] \in Nat
    BY <1>2
  <2>2. /\ SubSeq(b, n + 1, Len(b)) \in Seq(Nat)
        /\ Len(SubSeq(b, n + 1, Len(b))) = IF n + 1 <= Len(b) THEN Len(b) - (n + 1) + 1 ELSE 0
    <3>1. n + 1 \in Int /\ Len(b) \in Int
      OBVIOUS
    <3> QED
      BY <2>1, <3>1, SubSeqProperties
  <2> QED
    BY <1>2, <2>2
<1> QED
  BY <1>1, <1>2

AfterRead(s, n) == [s EXCEPT !.rbuf = SubSeq(@, n + 1, Len(@))]

Reopened(r) == [r EXCEPT !.rcv_wnd = WindowAfterRead(r)]

LEMMA AfterReadKeeps ==
  ASSUME NEW s, NEW q, Handling(s, q), IsTcp(q), NEW n \in Nat
  PROVE  Keeps(s, AfterRead(s, n), q)
<1>1. IsTcp(s) /\ RcvInv(s) /\ Pair(q, s)
  BY DEF Handling
<1>2. PICK b : b = SubSeq(s.rbuf, n + 1, Len(s.rbuf))
  OBVIOUS
<1>3. b \in Seq(Nat) /\ Len(b) <= Len(s.rbuf)
  <2>1. s.rbuf \in Seq(Nat)
    BY <1>1, Numbers
  <2> QED
    BY <1>2, <2>1, ReadRest
<1>4. PICK t : t = [s EXCEPT !.rbuf = b]
  OBVIOUS
<1>5. AfterRead(s, n) = t
  BY <1>2, <1>4, Zenon DEF AfterRead
<1>6. IsTcp(t)
  BY <1>1, <1>3, <1>4 DEF IsTcp, Fields
<1>7. /\ SameSnd(s, t) /\ t.cwnd = s.cwnd /\ t.ssthresh = s.ssthresh /\ t.state = s.state
      /\ t.room = s.room /\ t.out = s.out
      /\ t.rbuf = b /\ t.rcv_nxt = s.rcv_nxt /\ t.rcv_wnd = s.rcv_wnd /\ t.rlist = s.rlist
  BY <1>1, <1>4 DEF IsTcp, Fields, SameSnd
<1>8. Edge(t) = Edge(s) /\ s.rcv_nxt <= t.rcv_nxt /\ Edge(s) <= Edge(t)
  BY <1>1, <1>7, Numbers DEF Edge
<1>9. RcvInv(t)
  <2>1. t.rcv_wnd + Len(t.rbuf) <= RcvBufLen
    <3>1. /\ s.rcv_wnd + Len(s.rbuf) <= RcvBufLen /\ Len(s.rbuf) \in Nat /\ s.rcv_wnd \in Nat
          /\ Len(b) \in Nat
      BY <1>1, <1>3, Numbers DEF RcvInv
    <3> QED
      BY <1>3, <1>7, <3>1, Constants
  <2> QED
    BY <1>1, <1>7, <1>8, <2>1 DEF RcvInv
<1>10. /\ t.rcv_nxt <= q.snd_nxt /\ Bound(q, t.rcv_nxt)
       /\ \A g \in t.rlist : SegEnd(g) <= q.snd_nxt /\ Bound(q, SegEnd(g))
  BY <1>1, <1>7 DEF Pair
<1>11. Keeps(s, t, q)
  BY <1>6, <1>7, <1>8, <1>9, <1>10, RcvChanged
<1> QED
  BY <1>5, <1>11

LEMMA ReopenedKeeps ==
  ASSUME NEW s, NEW q, Handling(s, q), IsTcp(q)
  PROVE  Keeps(s, Reopened(s), q)
<1>1. IsTcp(s) /\ RcvInv(s) /\ Pair(q, s)
  BY DEF Handling
<1>2. PICK w : w = WindowAfterRead(s)
  OBVIOUS
<1>3. PICK w0 \in Nat, l \in Nat, n \in Nat :
        w0 = s.rcv_wnd /\ l = Len(s.rbuf) /\ n = s.rcv_nxt /\ w0 + l <= RcvBufLen
  BY <1>1, Numbers DEF RcvInv
<1>4. w \in Nat /\ w0 <= w /\ w + l <= RcvBufLen
  <2>1. w = w0 \/ w = RcvBufLen - l
    BY <1>2, <1>3 DEF WindowAfterRead, RcvSpace
  <2> QED
    BY <1>3, <2>1, Constants
<1>5. PICK t : t = [s EXCEPT !.rcv_wnd = w]
  OBVIOUS
<1>6. Reopened(s) = t
  BY <1>2, <1>5, Zenon DEF Reopened
<1>7. IsTcp(t)
  <2>1. w \in 0..RcvBufLen
    BY <1>4, Constants
  <2> QED
    BY <1>1, <1>5, <2>1 DEF IsTcp, Fields
<1>8. /\ SameSnd(s, t) /\ t.cwnd = s.cwnd /\ t.ssthresh = s.ssthresh /\ t.state = s.state
      /\ t.room = s.room /\ t.out = s.out
      /\ t.rbuf = s.rbuf /\ t.rcv_nxt = s.rcv_nxt /\ t.rcv_wnd = w /\ t.rlist = s.rlist
  BY <1>1, <1>5 DEF IsTcp, Fields, SameSnd
<1>9. /\ Edge(s) <= Edge(t) /\ s.rcv_nxt <= t.rcv_nxt /\ Edge(s) \in Nat /\ Edge(t) \in Nat
  <2>1. Edge(s) = n + w0 /\ Edge(t) = n + w /\ s.rcv_nxt = n /\ t.rcv_nxt = n
    BY <1>3, <1>8 DEF Edge
  <2> QED
    BY <1>4, <2>1
<1>10. RcvInv(t)
  <2>1. t.rcv_wnd + Len(t.rbuf) <= RcvBufLen
    BY <1>3, <1>4, <1>8
  <2>2. RcvBufLen <= Edge(t)
    BY <1>1, <1>9, Constants DEF RcvInv
  <2>3. \A r \in t.rlist : SegEnd(r) <= Edge(t) /\ r.len > 0
    <3> TAKE r \in t.rlist
    <3>1. SegEnd(r) \in Nat /\ SegEnd(r) <= Edge(s) /\ r.len > 0
      BY <1>1, <1>8, Numbers DEF RcvInv
    <3> QED
      BY <1>9, <3>1
  <2> QED
    BY <2>1, <2>2, <2>3 DEF RcvInv
<1>11. /\ t.rcv_nxt <= q.snd_nxt /\ Bound(q, t.rcv_nxt)
       /\ \A g \in t.rlist : SegEnd(g) <= q.snd_nxt /\ Bound(q, SegEnd(g))
  BY <1>1, <1>8 DEF Pair
<1>12. Keeps(s, t, q)
  BY <1>7, <1>8, <1>9, <1>10, <1>11, RcvChanged
<1> QED
  BY <1>6, <1>12

----------------------------------------------------------------------------
(* The two endpoints and the packets between them                          *)

\* The good packets of either side stay good when s becomes t.
Passes(s, t, q) ==
  \A p \in Segment : /\ Good(s, p, q) => Good(t, p, q)
                     /\ Good(q, p, s) => Good(q, p, t)

LEMMA PassesSame ==
  ASSUME NEW s, NEW t, NEW q, SameSnd(s, t), SameRcv(s, t)
  PROVE  Passes(s, t, q)
<1>1. \A n : Bound(s, n) => Bound(t, n)
  BY DEF Bound, SameSnd
<1>2. Edge(t) = Edge(s) /\ t.snd_nxt = s.snd_nxt /\ t.rcv_nxt = s.rcv_nxt
  BY DEF Edge, SameSnd, SameRcv
<1> QED
  BY <1>1, <1>2, Zenon DEF Passes, Good

LEMMA PassesLater ==
  ASSUME NEW s, NEW t, NEW q, IsTcp(s), IsTcp(t), Later(s, t)
  PROVE  Passes(s, t, q)
  BY GoodLater, GoodPeerLater, Zenon DEF Passes

LEMMA PassesTrans ==
  ASSUME NEW s, NEW t, NEW u, NEW q, Passes(s, t, q), Passes(t, u, q)
  PROVE  Passes(s, u, q)
  BY Zenon DEF Passes

\* An endpoint at the beginning of a handler, or after it.
Fresh(s, v) == [s EXCEPT !.out = {}, !.room = v]

LEMMA FreshIs ==
  ASSUME NEW s, IsTcp(s), NEW v \in MssLevels \cup {0}
  PROVE  /\ IsTcp(Fresh(s, v)) /\ SameSnd(s, Fresh(s, v)) /\ SameRcv(s, Fresh(s, v))
         /\ Fresh(s, v).cwnd = s.cwnd /\ Fresh(s, v).ssthresh = s.ssthresh
         /\ Fresh(s, v).state = s.state /\ Fresh(s, v).out = {} /\ Fresh(s, v).room = v
<1>1. PICK t : t = Fresh(s, v)
  OBVIOUS
<1>2. IsTcp(t)
  <2>1. {} \in SUBSET Segment
    OBVIOUS
  <2> QED
    BY <1>1, <2>1 DEF Fresh, IsTcp, Fields
<1>3. /\ SameSnd(s, t) /\ SameRcv(s, t) /\ t.cwnd = s.cwnd /\ t.ssthresh = s.ssthresh
      /\ t.state = s.state /\ t.out = {} /\ t.room = v
  BY <1>1 DEF Fresh, IsTcp, Fields, SameSnd, SameRcv
<1> QED
  BY <1>1, <1>2, <1>3

LEMMA FreshHandling ==
  ASSUME NEW s, NEW q, Handling(s, q), NEW v \in MssLevels \cup {0}
  PROVE  /\ Handling(Fresh(s, v), q) /\ Passes(s, Fresh(s, v), q)
         /\ Fresh(s, v).out = {} /\ Fresh(s, v).room = v
<1>1. PICK t : t = Fresh(s, v)
  OBVIOUS
<1>2. /\ IsTcp(s) /\ SndInv(s) /\ RcvInv(s) /\ Pair(s, q) /\ Pair(q, s)
  BY DEF Handling
<1>3. /\ IsTcp(t) /\ SameSnd(s, t) /\ SameRcv(s, t) /\ t.cwnd = s.cwnd
      /\ t.ssthresh = s.ssthresh /\ t.state = s.state /\ t.out = {} /\ t.room = v
  BY <1>1, <1>2, FreshIs
<1>4. RcvInv(t) /\ Pair(q, t)
  BY <1>2, <1>3, RcvSame
<1>5. SndInv(t) /\ Pair(t, q)
  <2>1. t.cwnd > 0 /\ t.ssthresh > 0
    BY <1>2, <1>3 DEF SndInv
  <2> QED
    BY <1>2, <1>3, <2>1, SndSame
<1>6. Handling(t, q)
  BY <1>3, <1>4, <1>5 DEF Handling
<1>7. Passes(s, t, q)
  BY <1>3, PassesSame
<1> QED
  BY <1>1, <1>3, <1>6, <1>7

\* After s has handled something, its peer q may.
LEMMA Swap ==
  ASSUME NEW s, NEW q, Handling(s, q), IsTcp(q), SndInv(q), RcvInv(q), q.out = {}
  PROVE  Handling(q, s)
  BY DEF Handling

LEMMA Peer ==
  \A e \in Peers : Other(e) \in Peers /\ Other(e) # e /\ Other(Other(e)) = e
                   /\ \A f \in Peers : f = e \/ f = Other(e)
  BY DEF Peers, Other

\* The endpoints between two handlers, and the packets in flight.
Link ==
  /\ DOMAIN tcp = Peers
  /\ net \subseteq [to : Peers, seg : Segment]
  /\ \A e \in Peers : Handling(tcp[e], tcp[Other(e)]) /\ tcp[e].out = {} /\ tcp[e].room = 0
  /\ \A p \in net : Good(tcp[Other(p.to)], p.seg, tcp[p.to])

LEMMA Replaced ==
  ASSUME Link, NEW e \in Peers, NEW t, NEW q, q = tcp[Other(e)], Handling(t, q),
         t.out = {}, t.room = 0, Passes(tcp[e], t, q), tcp' = [tcp EXCEPT ![e] = t],
         NEW G, G \subseteq Segment, \A g \in G : Good(t, g, q),
         net' \subseteq net \cup {[to |-> Other(e), seg |-> g] : g \in G}
  PROVE  Link'
<1>1. PICK f : f = Other(e)
  OBVIOUS
<1>2. f \in Peers /\ f # e /\ Other(f) = e /\ \A h \in Peers : h = e \/ h = f
  BY <1>1, Peer
<1>3. DOMAIN tcp' = Peers /\ tcp'[e] = t /\ tcp'[f] = q /\ q = tcp[f]
  BY <1>1, <1>2 DEF Link
<1>4. Handling(q, tcp[e]) /\ q.out = {} /\ q.room = 0
  BY <1>2, <1>3 DEF Link
<1>5. Handling(q, t)
  <2>1. IsTcp(q) /\ SndInv(q) /\ RcvInv(q)
    BY <1>4 DEF Handling
  <2> QED
    BY <1>4, <2>1, Swap
<1>6. \A h \in Peers : Handling(tcp'[h], tcp'[Other(h)]) /\ tcp'[h].out = {} /\ tcp'[h].room = 0
  <2>1. Handling(tcp'[e], tcp'[Other(e)]) /\ tcp'[e].out = {} /\ tcp'[e].room = 0
    BY <1>1, <1>3
  <2>2. Handling(tcp'[f], tcp'[Other(f)]) /\ tcp'[f].out = {} /\ tcp'[f].room = 0
    BY <1>2, <1>3, <1>4, <1>5
  <2> QED
    BY <1>2, <2>1, <2>2
<1>7. \A p \in net' : p \in [to : Peers, seg : Segment] /\ Good(tcp'[Other(p.to)], p.seg, tcp'[p.to])
  <2> TAKE p \in net'
  <2>1. CASE p \in net
    <3>1. p \in [to : Peers, seg : Segment] /\ Good(tcp[Other(p.to)], p.seg, tcp[p.to])
      BY <2>1 DEF Link
    <3>2. p.to \in Peers /\ p.seg \in Segment
      BY <3>1
    <3>3. CASE p.to = e
      <4>1. Good(q, p.seg, tcp[e])
        BY <1>1, <1>3, <3>1, <3>3
      <4>2. Good(q, p.seg, t)
        BY <3>2, <4>1 DEF Passes
      <4> QED
        BY <1>1, <1>3, <3>1, <3>3, <4>2
    <3>4. CASE p.to = f
      <4>1. Good(tcp[e], p.seg, q)
        BY <1>2, <1>3, <3>1, <3>4
      <4>2. Good(t, p.seg, q)
        BY <3>2, <4>1 DEF Passes
      <4> QED
        BY <1>2, <1>3, <3>1, <3>4, <4>2
    <3> QED
      BY <1>2, <3>2, <3>3, <3>4
  <2>2. CASE p \in {[to |-> f, seg |-> g] : g \in G}
    <3>1. PICK g \in G : p = [to |-> f, seg |-> g]
      BY <2>2
    <3>2. p.to = f /\ p.seg = g /\ p \in [to : Peers, seg : Segment]
      BY <1>2, <3>1
    <3> QED
      BY <1>2, <1>3, <3>2
  <2> QED
    BY <1>1, <2>1, <2>2
<1> QED
  BY <1>3, <1>6, <1>7 DEF Link

\* A call that leaves no packet.
LEMMA Quiet ==
  ASSUME Link, NEW e \in Peers, NEW t, AsideOf(tcp[e], t), tcp' = [tcp EXCEPT ![e] = t],
         UNCHANGED net
  PROVE  Link'
<1>1. PICK s, q : s = tcp[e] /\ q = tcp[Other(e)]
  OBVIOUS
<1>2. Handling(s, q) /\ s.out = {} /\ s.room = 0
  BY <1>1 DEF Link
<1>3. Keeps(s, t, q)
  BY <1>1, <1>2, AsideKeeps
<1>4. Handling(t, q) /\ t.out = {} /\ t.room = 0
  BY <1>1, <1>2, <1>3 DEF Keeps, AsideOf
<1>5. Passes(tcp[e], t, q)
  BY <1>1, <1>2, <1>3, PassesLater DEF Keeps, Handling
<1>6. PICK G : G = {}
  OBVIOUS
<1>7. /\ G \subseteq Segment /\ \A g \in G : Good(t, g, q)
      /\ net' \subseteq net \cup {[to |-> Other(e), seg |-> g] : g \in G}
  BY <1>6
<1> QED
  BY <1>1, <1>4, <1>5, <1>7, Replaced

LEMMA EnterIs ==
  ASSUME Link, NEW e \in Peers, NEW room \in MssLevels \cup {0}
  PROVE  /\ Handling(Enter(e, room), tcp[Other(e)])
         /\ Passes(tcp[e], Enter(e, room), tcp[Other(e)])
         /\ SameSnd(tcp[e], Enter(e, room)) /\ SameRcv(tcp[e], Enter(e, room))
         /\ Enter(e, room).state = tcp[e].state /\ Enter(e, room).room = room
<1>1. PICK s, q : s = tcp[e] /\ q = tcp[Other(e)]
  OBVIOUS
<1>2. Handling(s, q) /\ s.out = {} /\ IsTcp(s)
  BY <1>1 DEF Link, Handling
<1>3. Enter(e, room) = Fresh(s, room)
  <2>1. [s EXCEPT !.room = room] = [s EXCEPT !.out = {}, !.room = room]
    BY <1>2 DEF IsTcp, Fields
  <2> QED
    BY <1>1, <2>1 DEF Enter, Fresh
<1>4. Handling(Fresh(s, room), q) /\ Passes(s, Fresh(s, room), q)
  BY <1>2, FreshHandling
<1>5. /\ SameSnd(s, Fresh(s, room)) /\ SameRcv(s, Fresh(s, room))
      /\ Fresh(s, room).state = s.state /\ Fresh(s, room).room = room
  BY <1>2, FreshIs
<1> QED
  BY <1>1, <1>3, <1>4, <1>5

\* A handler that leaves endpoint t.
LEMMA LeaveKeeps ==
  ASSUME Link, NEW e \in Peers, NEW room \in MssLevels \cup {0}, NEW t,
         Keeps(Enter(e, room), t, tcp[Other(e)]), NEW rest \in SUBSET net, Leave(e, t, rest)
  PROVE  Link' /\ t.room = room
<1>1. PICK s, q, s1 : s = tcp[e] /\ q = tcp[Other(e)] /\ s1 = Enter(e, room)
  OBVIOUS
<1>2. Handling(s1, q) /\ Passes(s, s1, q) /\ s1.room = room
  BY <1>1, EnterIs
<1>3. Handling(t, q) /\ Later(s1, t) /\ t.room = room
  BY <1>1, <1>2 DEF Keeps, Later
<1>4. PICK t0 : t0 = Fresh(t, 0)
  OBVIOUS
<1>5. Handling(t0, q) /\ Passes(t, t0, q) /\ t0.out = {} /\ t0.room = 0
  BY <1>3, <1>4, FreshHandling
<1>6. Passes(s, t0, q)
  <2>1. Passes(s1, t, q)
    BY <1>2, <1>3, PassesLater DEF Handling
  <2> QED
    BY <1>2, <1>5, <2>1, PassesTrans
<1>7. tcp' = [tcp EXCEPT ![e] = t0]
  BY <1>4 DEF Leave, Fresh
<1>8. PICK kept \in SUBSET t.out : net' = rest \cup {[to |-> Other(e), seg |-> seg] : seg \in kept}
  <2>1. PICK kept \in SUBSET (IF t.room = 0 THEN {} ELSE t.out) :
          net' = rest \cup {[to |-> Other(e), seg |-> seg] : seg \in kept}
    BY Zenon DEF Leave
  <2>2. kept \in SUBSET t.out
    BY <2>1
  <2> QED
    BY <2>1, <2>2
<1>9. kept \subseteq Segment /\ \A g \in kept : Good(t0, g, q)
  BY <1>3, <1>5, <1>8 DEF Handling, IsTcp, Passes
<1>10. net' \subseteq net \cup {[to |-> Other(e), seg |-> g] : g \in kept}
  BY <1>8
<1>11. Link'
  BY <1>1, <1>5, <1>6, <1>7, <1>9, <1>10, Replaced
<1> QED
  BY <1>3, <1>11

----------------------------------------------------------------------------
(* The invariant                                                           *)

AppState == [sent : Nat, got : Seq(Nat), reading : BOOLEAN, writing : BOOLEAN]

Counters ==
  /\ plan \in Plans /\ app \in [Peers -> AppState]
  /\ path \in MssLevels /\ dups \in 0..plan.copies /\ fails \in 0..plan.failures

Inv == Link /\ Counters

LEMMA PlanIs ==
  ASSUME plan \in Plans
  PROVE  /\ plan.open \in BOOLEAN /\ plan.bytes \in [Peers -> Nat] /\ plan.copies \in Nat
         /\ plan.mtu \in MssLevels /\ plan.path \in MssLevels /\ plan.failures \in Nat
         /\ plan.close \in [Peers -> SUBSET Modes]
<1>1. plan \in Plan
  BY PseudoTcpAssumption
<1> QED
  BY <1>1 DEF Plan

LEMMA NewTcpIs ==
  ASSUME NEW m \in MssLevels, NEW s, s = NewTcp(m)
  PROVE  IsTcp(s) /\ SndInv(s) /\ RcvInv(s) /\ Handling(s, s) /\ s.out = {} /\ s.room = 0
         /\ s.state = "LISTEN"
<1>1. PICK k : k = SmallMss
  OBVIOUS
<1>2. k \in MssLevels /\ k \in Nat /\ k > 0
  <2>1. k \in MssLevels
    BY <1>1, Constants, MinOf DEF SmallMss
  <2> QED
    BY <2>1, Constants
<1>3. PICK a, c : a = [i \in 1..RcvBufLen |-> 0] /\ c = 2 * k
  OBVIOUS
<1>4. a \in [1..RcvBufLen -> Nat] /\ c \in Nat /\ c > 0
  BY <1>2, <1>3
<1>5. s = [state |-> "LISTEN", shutdown |-> "NONE",
           snd_una |-> 0, snd_nxt |-> 0, snd_wnd |-> 1, slist |-> <<>>, sbuf |-> <<>>,
           rcv_nxt |-> 0, rcv_wnd |-> RcvBufLen, rlist |-> {}, rbuf |-> <<>>, ahead |-> a,
           unit |-> 1, mss |-> k, advise |-> m, cwnd |-> c, ssthresh |-> RcvBufLen,
           dup_acks |-> 0, recover |-> 0, rto |-> FALSE, t_ack |-> FALSE, probes |-> 0,
           readEnable |-> TRUE, writeEnable |-> FALSE, out |-> {}, room |-> 0]
  BY <1>1, <1>3, Zenon DEF NewTcp
<1>6. /\ s.state = "LISTEN" /\ s.snd_una = 0 /\ s.snd_nxt = 0 /\ s.snd_wnd = 1 /\ s.slist = <<>>
      /\ s.sbuf = <<>> /\ s.rcv_nxt = 0 /\ s.rcv_wnd = RcvBufLen /\ s.rlist = {} /\ s.rbuf = <<>>
      /\ s.cwnd = c /\ s.ssthresh = RcvBufLen /\ s.recover = 0 /\ s.rto = FALSE
      /\ s.out = {} /\ s.room = 0
  BY <1>5
<1>7. IsTcp(s)
  <2>1. DOMAIN s = Fields
    BY <1>5 DEF Fields
  <2>2. /\ s.shutdown = "NONE" /\ s.ahead = a /\ s.unit = 1 /\ s.mss = k /\ s.advise = m
        /\ s.dup_acks = 0 /\ s.t_ack = FALSE /\ s.probes = 0 /\ s.readEnable = TRUE
        /\ s.writeEnable = FALSE
    BY <1>5
  <2>3. s.snd_wnd \in 0..RcvBufLen /\ s.rcv_wnd \in 0..RcvBufLen /\ s.ssthresh \in Nat
    BY <1>6, Constants
  <2>4. s.slist \in Seq(SSegment) /\ s.sbuf \in Seq(Nat) /\ s.rbuf \in Seq(Nat)
    BY <1>6
  <2>5. s.dup_acks \in 0..DupCap
    BY <2>2 DEF DupCap
  <2>6. /\ s.state \in {"LISTEN", "SYN_SENT", "SYN_RECEIVED", "ESTABLISHED", "CLOSED"}
        /\ s.shutdown \in {"NONE"} \cup Modes
        /\ s.rlist \in SUBSET [seq : Nat, len : Nat] /\ s.out \in SUBSET Segment
        /\ s.room \in MssLevels \cup {0} /\ s.unit \in {1, WndUnit}
    BY <1>6, <2>2
  <2>7. s.snd_una \in Nat /\ s.snd_nxt \in Nat /\ s.rcv_nxt \in Nat /\ s.recover \in Nat
        /\ s.probes \in Nat
    BY <1>6, <2>2
  <2>8. s.rto \in BOOLEAN /\ s.t_ack \in BOOLEAN /\ s.readEnable \in BOOLEAN
        /\ s.writeEnable \in BOOLEAN
    BY <1>6, <2>2
  <2>9. /\ s.ahead \in [1..RcvBufLen -> Nat] /\ s.mss \in MssLevels /\ s.advise \in MssLevels
        /\ s.cwnd \in Nat
    BY <1>2, <1>4, <1>6, <2>2, Zenon
  <2> QED
    BY <2>1, <2>3, <2>4, <2>5, <2>6, <2>7, <2>8, <2>9, Zenon DEF IsTcp
<1>8. Len(s.sbuf) = 0 /\ Len(s.rbuf) = 0 /\ Edge(s) = RcvBufLen /\ RcvBufLen \in Nat
      /\ RcvBufLen > 0 /\ SndBufLen \in Nat
  BY <1>6, Constants DEF Edge
<1>9. SndInv(s)
  <2>1. Listed(s.slist, s.snd_una, s.snd_una + Len(s.sbuf), s.snd_nxt)
    BY <1>6, <1>8 DEF Listed
  <2>2. s.rto = (s.snd_una < s.snd_nxt)
    <3>1. PICK r \in BOOLEAN, z \in Nat : r = FALSE /\ z = 0
      OBVIOUS
    <3>2. r = (z < z)
      BY <3>1
    <3>3. s.rto = r /\ s.snd_una = z /\ s.snd_nxt = z
      BY <1>6, <3>1, Zenon
    <3> QED
      BY <3>2, <3>3, Zenon
  <2>3. /\ s.snd_una <= s.snd_nxt /\ s.snd_nxt <= s.snd_una + Len(s.sbuf)
        /\ Len(s.sbuf) <= SndBufLen /\ s.recover <= s.snd_nxt
        /\ s.snd_wnd > 0 /\ s.cwnd > 0 /\ s.ssthresh > 0
    BY <1>4, <1>6, <1>8
  <2> QED
    BY <1>6, <2>1, <2>2, <2>3, Zenon DEF SndInv
<1>10. RcvInv(s)
  BY <1>6, <1>8 DEF RcvInv
<1>11. Pair(s, s)
  BY <1>6, <1>8 DEF Pair, Bound
<1>12. Handling(s, s)
  BY <1>6, <1>7, <1>9, <1>10, <1>11 DEF Handling
<1> QED
  BY <1>6, <1>7, <1>9, <1>10, <1>12

\* The packets of s, seen by q at the beginning of its handler.
LEMMA Turnover ==
  ASSUME NEW s, NEW q, Handling(s, q), IsTcp(q), SndInv(q), RcvInv(q),
         NEW v \in MssLevels \cup {0}
  PROVE  /\ Handling(Fresh(q, v), s)
         /\ \A p \in s.out : p \in Segment /\ Good(s, p, Fresh(q, v))
         /\ IsTcp(s) /\ SndInv(s) /\ RcvInv(s)
<1>1. PICK u : u = Fresh(q, v)
  OBVIOUS
<1>2. /\ IsTcp(s) /\ SndInv(s) /\ RcvInv(s) /\ Pair(s, q) /\ Pair(q, s)
      /\ \A p \in s.out : Good(s, p, q)
  BY DEF Handling
<1>3. /\ IsTcp(u) /\ SameSnd(q, u) /\ SameRcv(q, u) /\ u.cwnd = q.cwnd
      /\ u.ssthresh = q.ssthresh /\ u.state = q.state /\ u.out = {}
  BY <1>1, FreshIs
<1>4. RcvInv(u) /\ Pair(s, u)
  BY <1>2, <1>3, RcvSame
<1>5. SndInv(u) /\ Pair(u, s)
  <2>1. u.cwnd > 0 /\ u.ssthresh > 0
    BY <1>3 DEF SndInv
  <2> QED
    BY <1>2, <1>3, <2>1, SndSame
<1>6. Handling(u, s)
  BY <1>3, <1>4, <1>5 DEF Handling
<1>7. Passes(q, u, s)
  BY <1>3, PassesSame
<1>8. \A p \in s.out : p \in Segment /\ Good(s, p, u)
  BY <1>2, <1>7 DEF Passes, IsTcp
<1> QED
  BY <1>1, <1>2, <1>6, <1>8

\* The endpoints of a connection that is open from the start.
LEMMA HandshakeIs ==
  ASSUME NEW m \in MssLevels, Handshake(m)
  PROVE  \E s, t : /\ Handling(s, t) /\ Handling(t, s) /\ s.out = {} /\ t.out = {}
                   /\ s.room = 0 /\ t.room = 0 /\ tcp = [local |-> s, remote |-> t]
<1>1. PICK new, syn : new = NewTcp(m) /\ syn = [Fresh(new, m) EXCEPT !.state = "SYN_SENT"]
  OBVIOUS
<1>2. PICK x, p, y, q, x1, x2, r, y1 :
        /\ x = AttemptSend(QueueConnect(syn), "none", FALSE) /\ p \in x.out
        /\ y = Process(Fresh(new, m), p, FALSE) /\ q \in y.out
        /\ x1 = Process(Fresh(x, m), q, FALSE)
        /\ x2 = Packet(x1, x1.snd_nxt, FALSE, <<>>) /\ r \in x2.out
        /\ y1 = Process(Fresh(y, m), r, FALSE)
        /\ tcp = [local |-> Fresh(x2, 0), remote |-> Fresh(y1, 0)]
  BY <1>1, Zenon DEF Handshake, Fresh
<1>3. IsTcp(new) /\ SndInv(new) /\ RcvInv(new) /\ Handling(new, new) /\ new.state = "LISTEN"
  BY <1>1, NewTcpIs
<1>4. m \in MssLevels \cup {0} /\ 0 \in MssLevels \cup {0} /\ FALSE \in BOOLEAN
  OBVIOUS
<1>5. PICK b : b = Fresh(new, m)
  OBVIOUS
<1>6. Handling(b, new) /\ Sound(b) /\ SameSnd(new, b)
  BY <1>3, <1>4, <1>5, FreshHandling, FreshIs DEF Handling, Sound
<1>7. Handling(syn, new) /\ syn.state # "LISTEN" /\ syn.snd_nxt = 0 /\ syn.sbuf = <<>>
  <2>1. syn = [b EXCEPT !.state = "SYN_SENT"]
    BY <1>1, <1>5, Zenon
  <2>2. AsideOf(b, syn)
    BY <1>6, <2>1, StateAside
  <2>3. Handling(syn, new)
    BY <1>6, <2>2, AsideKeeps DEF Keeps
  <2>4. syn.state = "SYN_SENT"
    BY <1>6, <2>1 DEF Sound, IsTcp, Fields
  <2>5. new.snd_nxt = 0 /\ new.sbuf = <<>>
    BY <1>3 DEF SndInv
  <2> QED
    BY <1>6, <2>2, <2>3, <2>4, <2>5 DEF AsideOf, SameSnd
<1>8. Handling(x, new)
  <2>1. Keeps(syn, QueueConnect(syn), new)
    BY <1>3, <1>7, QueueConnectKeeps
  <2>2. Keeps(QueueConnect(syn), AttemptSend(QueueConnect(syn), "none", FALSE), new)
    BY <1>3, <1>4, <2>1, AttemptSendKeeps DEF Keeps
  <2> QED
    BY <1>2, <2>2 DEF Keeps
<1>9. /\ Handling(b, x) /\ p \in Segment /\ Good(x, p, b)
      /\ IsTcp(x) /\ SndInv(x) /\ RcvInv(x)
  BY <1>2, <1>3, <1>4, <1>5, <1>8, Turnover
<1>10. Handling(y, x)
  <2>1. Keeps(b, Process(b, p, FALSE), x)
    BY <1>4, <1>9, ProcessKeeps
  <2> QED
    BY <1>2, <1>5, <2>1 DEF Keeps
<1>11. /\ Handling(Fresh(x, m), y) /\ q \in Segment /\ Good(y, q, Fresh(x, m))
       /\ IsTcp(y) /\ SndInv(y) /\ RcvInv(y)
  BY <1>2, <1>4, <1>9, <1>10, Turnover
<1>12. Handling(x1, y)
  <2>1. Keeps(Fresh(x, m), Process(Fresh(x, m), q, FALSE), y)
    BY <1>4, <1>11, ProcessKeeps
  <2> QED
    BY <1>2, <2>1 DEF Keeps
<1>13. Handling(x2, y)
  <2>1. x1.snd_nxt \in Nat
    BY <1>12, Numbers DEF Handling
  <2> QED
    BY <1>2, <1>12, <2>1, PacketKeeps
<1>14. /\ Handling(Fresh(y, m), x2) /\ r \in Segment /\ Good(x2, r, Fresh(y, m))
       /\ IsTcp(x2) /\ SndInv(x2) /\ RcvInv(x2)
  BY <1>2, <1>4, <1>11, <1>13, Turnover
<1>15. Handling(y1, x2)
  <2>1. Keeps(Fresh(y, m), Process(Fresh(y, m), r, FALSE), x2)
    BY <1>4, <1>14, ProcessKeeps
  <2> QED
    BY <1>2, <2>1 DEF Keeps
<1>16. PICK s, t : s = Fresh(x2, 0) /\ t = Fresh(y1, 0)
  OBVIOUS
<1>17. Handling(s, y1) /\ IsTcp(y1) /\ SndInv(y1) /\ RcvInv(y1)
  BY <1>4, <1>14, <1>15, <1>16, Turnover
<1>18. Handling(t, s)
  BY <1>4, <1>16, <1>17, Turnover
<1>19. s.out = {} /\ s.room = 0 /\ t.out = {} /\ t.room = 0
  BY <1>4, <1>14, <1>16, <1>17, FreshIs
<1>20. Handling(s, t)
  BY <1>17, <1>18, <1>19, Swap DEF Handling
<1> QED
  BY <1>2, <1>16, <1>18, <1>19, <1>20

LEMMA InitInv == Init => Inv
<1> SUFFICES ASSUME Init PROVE Inv
  OBVIOUS
<1>1. plan \in Plans /\ net = {} /\ path = plan.mtu /\ dups = 0 /\ fails = 0
  BY DEF Init
<1>2. /\ plan.open \in BOOLEAN /\ plan.copies \in Nat
      /\ plan.mtu \in MssLevels /\ plan.failures \in Nat
  BY <1>1, PlanIs
<1>3. app \in [Peers -> AppState]
  <2>1. PICK w \in BOOLEAN : w = plan.open
    BY <1>2
  <2>2. PICK a : a = [NewApp EXCEPT !.writing = w]
    OBVIOUS
  <2>3. a \in AppState
    <3>1. a = [sent |-> 0, got |-> <<>>, reading |-> FALSE, writing |-> w]
      BY <2>2 DEF NewApp
    <3>2. <<>> \in Seq(Nat) /\ FALSE \in BOOLEAN
      OBVIOUS
    <3> QED
      BY <3>1, <3>2 DEF AppState
  <2>4. app = [e \in Peers |-> a]
    BY <2>1, <2>2, Zenon DEF Init
  <2> QED
    BY <2>3, <2>4
<1>4. Counters
  BY <1>1, <1>2, <1>3 DEF Counters
<1>5. DOMAIN tcp = Peers
      /\ \A e \in Peers : Handling(tcp[e], tcp[Other(e)]) /\ tcp[e].out = {} /\ tcp[e].room = 0
  <2>1. CASE plan.open
    <3>1. Handshake(plan.mtu)
      BY <2>1 DEF Init
    <3>2. PICK s, t : /\ Handling(s, t) /\ Handling(t, s) /\ s.out = {} /\ t.out = {}
                      /\ s.room = 0 /\ t.room = 0 /\ tcp = [local |-> s, remote |-> t]
      BY <1>2, <3>1, HandshakeIs
    <3>3. DOMAIN tcp = Peers /\ tcp["local"] = s /\ tcp["remote"] = t
      BY <3>2 DEF Peers
    <3> QED
      BY <3>2, <3>3 DEF Peers, Other
  <2>2. CASE ~plan.open
    <3>1. PICK s : s = NewTcp(plan.mtu)
      OBVIOUS
    <3>2. tcp = [e \in Peers |-> s]
      BY <2>2, <3>1 DEF Init
    <3>3. Handling(s, s) /\ s.out = {} /\ s.room = 0
      BY <1>2, <3>1, NewTcpIs
    <3> QED
      BY <3>2, <3>3, Peer
  <2> QED
    BY <1>2, <2>1, <2>2
<1>6. Link
  BY <1>1, <1>5 DEF Link
<1> QED
  BY <1>4, <1>6 DEF Inv

----------------------------------------------------------------------------
(* The steps                                                               *)

LEMMA RoomIs ==
  ASSUME Counters, NEW room \in Rooms
  PROVE  room \in MssLevels \cup {0} /\ (room = 0 => fails < plan.failures)
  BY Constants DEF Counters, Rooms

\* A handler that leaves endpoint t keeps the part of Inv that Leave changes.
LEMMA LeaveInv ==
  ASSUME Inv, NEW e \in Peers, NEW room \in Rooms, NEW t,
         Keeps(Enter(e, room), t, tcp[Other(e)]), NEW rest \in SUBSET net, Leave(e, t, rest)
  PROVE  Link' /\ path' = path /\ fails' \in 0..plan.failures
<1>1. room \in MssLevels \cup {0} /\ (room = 0 => fails < plan.failures)
  BY RoomIs DEF Inv
<1>2. Link' /\ t.room = room
  BY <1>1, LeaveKeeps DEF Inv
<1>3. fails \in 0..plan.failures /\ plan.failures \in Nat
  BY PlanIs DEF Inv, Counters
<1>4. PICK d : d = IF t.room = 0 THEN 1 ELSE 0
  OBVIOUS
<1>5. fails' = fails + d /\ path' = path
  BY <1>4 DEF Leave
<1>6. fails' \in 0..plan.failures
  <2>1. CASE t.room = 0
    BY <1>1, <1>2, <1>3, <1>4, <1>5, <2>1
  <2>2. CASE t.room # 0
    BY <1>3, <1>4, <1>5, <2>2
  <2> QED
    BY <2>1, <2>2
<1> QED
  BY <1>2, <1>5, <1>6

\* What a handler of e begins with.
LEMMA EnterInv ==
  ASSUME Inv, NEW e \in Peers, NEW room \in Rooms
  PROVE  /\ Handling(Enter(e, room), tcp[Other(e)])
         /\ Passes(tcp[e], Enter(e, room), tcp[Other(e)])
         /\ SameSnd(tcp[e], Enter(e, room)) /\ SameRcv(tcp[e], Enter(e, room))
         /\ Enter(e, room).state = tcp[e].state
         /\ IsTcp(tcp[Other(e)]) /\ RcvInv(tcp[Other(e)])
         /\ IsTcp(tcp[e]) /\ SndInv(tcp[e])
<1>1. room \in MssLevels \cup {0} /\ Link
  BY RoomIs DEF Inv
<1>2. Other(e) \in Peers
  BY Peer
<1>3. IsTcp(tcp[Other(e)]) /\ RcvInv(tcp[Other(e)]) /\ IsTcp(tcp[e]) /\ SndInv(tcp[e])
  BY <1>1, <1>2 DEF Link, Handling
<1> QED
  BY <1>1, <1>3, EnterIs

LEMMA CountersSame ==
  ASSUME Counters, plan' = plan, path' = path, dups' = dups, fails' \in 0..plan.failures,
         app' \in [Peers -> AppState]
  PROVE  Counters'
  BY DEF Counters

LEMMA ConnectInv ==
  ASSUME Inv, NEW e \in Peers, Connect(e)
  PROVE  Inv'
<1>1. PICK room \in Rooms, late \in BOOLEAN :
        LET s == QueueConnect([Enter(e, room) EXCEPT !.state = "SYN_SENT"])
        IN Leave(e, AttemptSend(s, "none", late), net)
  BY Zenon DEF Connect
<1>2. PICK q, b, c, u, t : /\ q = tcp[Other(e)] /\ b = Enter(e, room)
                           /\ c = [b EXCEPT !.state = "SYN_SENT"] /\ u = QueueConnect(c)
                           /\ t = AttemptSend(u, "none", late)
  OBVIOUS
<1>3. Leave(e, t, net)
  BY <1>1, <1>2, Zenon
<1>4. /\ Handling(b, q) /\ SameSnd(tcp[e], b) /\ IsTcp(q) /\ RcvInv(q) /\ SndInv(tcp[e])
  BY <1>2, EnterInv
<1>5. AsideOf(b, c) /\ c.state # "LISTEN"
  <2>1. Sound(b)
    BY <1>4 DEF Handling, Sound
  <2>2. AsideOf(b, c)
    BY <1>2, <2>1, StateAside
  <2> QED
    BY <1>2, <2>1, <2>2 DEF Sound, IsTcp, Fields
<1>6. Keeps(b, c, q)
  BY <1>4, <1>5, AsideKeeps
<1>7. c.snd_nxt = 0 /\ c.sbuf = <<>>
  <2>1. tcp[e].snd_nxt = 0 /\ tcp[e].sbuf = <<>>
    BY <1>4 DEF Connect, SndInv
  <2> QED
    BY <1>4, <1>5, <2>1 DEF AsideOf, SameSnd
<1>8. Keeps(c, u, q)
  BY <1>2, <1>4, <1>5, <1>6, <1>7, QueueConnectKeeps DEF Keeps
<1>9. Keeps(u, t, q)
  BY <1>2, <1>4, <1>8, AttemptSendKeeps DEF Keeps
<1>10. Keeps(b, t, q)
  <2>1. Handling(c, q)
    BY <1>6 DEF Keeps
  <2>2. Keeps(c, t, q)
    BY <1>8, <1>9, <2>1, KeepsTrans
  <2> QED
    BY <1>4, <1>6, <2>2, KeepsTrans
<1>11. Link' /\ path' = path /\ fails' \in 0..plan.failures
  BY <1>2, <1>3, <1>10, LeaveInv
<1>12. Counters'
  <2>1. plan' = plan /\ dups' = dups /\ app' = app
    BY DEF Connect
  <2> QED
    BY <1>11, <2>1, CountersSame DEF Inv, Counters
<1> QED
  BY <1>11, <1>12 DEF Inv

\* An application that has bytes to send writes as many as fit.
LEMMA WriteSizeIs ==
  ASSUME Inv, NEW e \in Peers, Write(e)
  PROVE  /\ WriteSize(e) \in Nat /\ Len(tcp[e].sbuf) + WriteSize(e) <= SndBufLen
         /\ (SndSpace(tcp[e]) > 0 => WriteSize(e) > 0)
         /\ tcp[e].state = "ESTABLISHED"
         /\ app' \in [Peers -> AppState] /\ app[e].sent \in Nat
<1>1. IsTcp(tcp[e]) /\ SndInv(tcp[e])
  BY DEF Inv, Link, Handling
<1>2. Len(tcp[e].sbuf) \in Nat /\ Len(tcp[e].sbuf) <= SndBufLen /\ SndBufLen \in Nat
  BY <1>1, Numbers, Constants DEF SndInv
<1>3. plan.bytes[e] \in Nat
  BY PlanIs DEF Inv, Counters
<1>4. app \in [Peers -> AppState] /\ app[e] \in AppState
  BY DEF Inv, Counters
<1>5. app[e].sent \in Nat /\ app[e].sent < plan.bytes[e]
  BY <1>4 DEF AppState, Write
<1>6. PICK a, b : a = SndSpace(tcp[e]) /\ b = plan.bytes[e] - app[e].sent
  OBVIOUS
<1>7. a \in Nat /\ b \in Nat /\ b > 0 /\ Len(tcp[e].sbuf) + a = SndBufLen
  BY <1>2, <1>3, <1>5, <1>6 DEF SndSpace
<1>8. WriteSize(e) = IF a <= b THEN a ELSE b
  <2>1. WriteSize(e) = Min({a, b})
    BY <1>6 DEF WriteSize
  <2> QED
    BY <1>7, <2>1, OfTwo
<1>9. PICK n : n = WriteSize(e)
  OBVIOUS
<1>10. n \in Nat /\ n <= a /\ (a > 0 => n > 0)
  BY <1>7, <1>8, <1>9
<1>11. app' \in [Peers -> AppState]
  <2>1. PICK w : w = (n > 0)
    OBVIOUS
  <2>2. w \in BOOLEAN
    BY <1>10, <2>1
  <2>3. PICK m \in Nat : m = app[e].sent + n
    BY <1>5, <1>10
  <2>4. app' = [app EXCEPT ![e].sent = m, ![e].writing = w]
    BY <1>4, <1>9, <2>1, <2>3 DEF Write
  <2> QED
    BY <1>4, <2>2, <2>4 DEF AppState
<1>12. Len(tcp[e].sbuf) + n <= SndBufLen
  BY <1>2, <1>7, <1>10
<1>13. tcp[e].state = "ESTABLISHED"
  BY DEF Write
<1> QED
  BY <1>5, <1>6, <1>9, <1>10, <1>11, <1>12, <1>13

LEMMA SendInv ==
  ASSUME Inv, NEW e \in Peers, Send(e)
  PROVE  Inv'
<1>1. Write(e) /\ plan' = plan /\ dups' = dups
  BY DEF Send
<1>2. /\ WriteSize(e) \in Nat /\ Len(tcp[e].sbuf) + WriteSize(e) <= SndBufLen
      /\ (SndSpace(tcp[e]) > 0 => WriteSize(e) > 0)
      /\ tcp[e].state = "ESTABLISHED"
      /\ app' \in [Peers -> AppState] /\ app[e].sent \in Nat
  BY <1>1, WriteSizeIs
<1>3. Link' /\ path' = path /\ fails' \in 0..plan.failures
  <2>1. CASE /\ tcp' = [tcp EXCEPT ![e].writeEnable = TRUE] /\ UNCHANGED <<net, path, fails>>
    <3>1. PICK s, t : s = tcp[e] /\ t = [s EXCEPT !.writeEnable = TRUE]
      OBVIOUS
    <3>2. Sound(s)
      BY <3>1 DEF Inv, Link, Handling, Sound
    <3>3. IsTcp(t)
      BY <3>1, <3>2 DEF Sound, IsTcp, Fields
    <3>4. AsideOf(s, t)
      BY <3>1, <3>2, <3>3, Shape DEF AsideOf, Fields, SameSnd, SameRcv
    <3>5. tcp' = [tcp EXCEPT ![e] = t]
      BY <2>1, <3>1
    <3>6. Link'
      BY <2>1, <3>1, <3>4, <3>5, Quiet DEF Inv
    <3> QED
      BY <2>1, <3>6 DEF Inv, Counters
  <2>2. CASE /\ SndSpace(tcp[e]) > 0
             /\ \E room \in Rooms, late \in BOOLEAN :
                  LET data == [i \in 1..WriteSize(e) |-> app[e].sent + i]
                  IN Leave(e, AttemptSend(Queue(Enter(e, room), data, FALSE), "none", late), net)
    <3>1. PICK data : data = [i \in 1..WriteSize(e) |-> app[e].sent + i]
      OBVIOUS
    <3>2. PICK room \in Rooms, late \in BOOLEAN :
            Leave(e, AttemptSend(Queue(Enter(e, room), data, FALSE), "none", late), net)
      BY <2>2, <3>1, Zenon
    <3>3. PICK q, b, u, t : /\ q = tcp[Other(e)] /\ b = Enter(e, room)
                            /\ u = Queue(b, data, FALSE) /\ t = AttemptSend(u, "none", late)
      OBVIOUS
    <3>4. Leave(e, t, net)
      BY <3>2, <3>3, Zenon
    <3>5. /\ Handling(b, q) /\ SameSnd(tcp[e], b) /\ IsTcp(q) /\ b.state = tcp[e].state
      BY <3>3, EnterInv
    <3>6. data \in Seq(Nat) /\ Len(data) = WriteSize(e)
      <4>1. PICK n \in Nat, m \in Nat : n = WriteSize(e) /\ m = app[e].sent
        BY <1>2
      <4>2. data = [i \in 1..n |-> m + i]
        BY <3>1, <4>1
      <4> QED
        BY <4>1, <4>2
    <3>7. Len(data) > 0 /\ Len(b.sbuf) + Len(data) <= SndBufLen
      BY <1>2, <2>2, <3>5, <3>6 DEF SameSnd
    <3>8. b.state # "LISTEN"
      BY <1>2, <3>5
    <3>9. Keeps(b, u, q)
      BY <3>3, <3>5, <3>6, <3>7, <3>8, QueueKeeps
    <3>10. Keeps(u, t, q)
      BY <3>3, <3>5, <3>9, AttemptSendKeeps DEF Keeps
    <3>11. Keeps(b, t, q)
      BY <3>5, <3>9, <3>10, KeepsTrans
    <3> QED
      BY <3>3, <3>4, <3>11, LeaveInv
  <2> QED
    BY <2>1, <2>2, Zenon DEF Send
<1>4. Counters'
  BY <1>1, <1>2, <1>3, CountersSame DEF Inv
<1> QED
  BY <1>3, <1>4 DEF Inv

LEMMA ReadIs ==
  ASSUME Inv, NEW e \in Peers, NEW n \in Nat, Read(e, n)
  PROVE  app' \in [Peers -> AppState]
<1>1. app \in [Peers -> AppState] /\ app[e] \in AppState /\ IsTcp(tcp[e])
  BY DEF Inv, Link, Handling, Counters
<1>2. PICK b, l, g : b = tcp[e].rbuf /\ l = Len(b) /\ g = app[e].got
  OBVIOUS
<1>3. b \in Seq(Nat) /\ l \in Nat /\ g \in Seq(Nat)
  BY <1>1, <1>2, Numbers DEF AppState
<1>4. PICK k : k = Min({n, l})
  OBVIOUS
<1>5. k \in Nat /\ k <= l
  BY <1>3, <1>4, OfTwo
<1>6. SubSeq(b, 1, k) \in Seq(Nat)
  <2>1. \A i \in 1..k : b[i] \in Nat
    BY <1>2, <1>3, <1>5
  <2>2. 1 \in Int /\ k \in Int
    BY <1>5
  <2> QED
    BY <2>1, <2>2, SubSeqProperties
<1>7. PICK h : h = g \o SubSeq(b, 1, k)
  OBVIOUS
<1>8. h \in Seq(Nat)
  BY <1>3, <1>6, <1>7, ConcatProperties, Zenon
<1>9. PICK w \in BOOLEAN : w = (b # <<>>)
  OBVIOUS
<1>10. app' = [app EXCEPT ![e].got = h, ![e].reading = w]
  BY <1>1, <1>2, <1>4, <1>7, <1>9 DEF Read
<1> QED
  BY <1>1, <1>8, <1>10 DEF AppState

LEMMA RecvInv ==
  ASSUME Inv, NEW e \in Peers, NEW n \in Nat, Recv(e, n)
  PROVE  Inv'
<1>1. Read(e, n) /\ plan' = plan /\ dups' = dups
  BY DEF Recv
<1>2. app' \in [Peers -> AppState]
  BY <1>1, ReadIs
<1>3. Link' /\ path' = path /\ fails' \in 0..plan.failures
  <2>1. CASE /\ tcp' = [tcp EXCEPT ![e].readEnable = TRUE] /\ UNCHANGED <<net, path, fails>>
    <3>1. PICK s, t : s = tcp[e] /\ t = [s EXCEPT !.readEnable = TRUE]
      OBVIOUS
    <3>2. Sound(s)
      BY <3>1 DEF Inv, Link, Handling, Sound
    <3>3. AsideOf(s, t)
      BY <3>1, <3>2, ReadEnableAside
    <3>4. tcp' = [tcp EXCEPT ![e] = t]
      BY <2>1, <3>1
    <3>5. Link'
      BY <2>1, <3>1, <3>3, <3>4, Quiet DEF Inv
    <3> QED
      BY <2>1, <3>5 DEF Inv, Counters
  <2>2. CASE \E room \in Rooms, late \in BOOLEAN :
             \E r \in {[Enter(e, room) EXCEPT !.rbuf = SubSeq(@, n + 1, Len(@))]} :
             \E t \in {[r EXCEPT !.rcv_wnd = WindowAfterRead(r)]} :
               Leave(e, IF r.rcv_wnd = 0 /\ t.rcv_wnd > 0
                        THEN AttemptSend(t, "immediate", late) ELSE t, net)
    <3>1. PICK room, late, r, t :
            /\ room \in Rooms /\ late \in BOOLEAN
            /\ r = AfterRead(Enter(e, room), n) /\ t = Reopened(r)
            /\ Leave(e, IF r.rcv_wnd = 0 /\ t.rcv_wnd > 0
                        THEN AttemptSend(t, "immediate", late) ELSE t, net)
      BY <2>2, Zenon DEF AfterRead, Reopened
    <3>2. PICK q, b, u : /\ q = tcp[Other(e)] /\ b = Enter(e, room)
                         /\ u = IF r.rcv_wnd = 0 /\ t.rcv_wnd > 0
                                THEN AttemptSend(t, "immediate", late) ELSE t
      OBVIOUS
    <3>3. Leave(e, u, net)
      BY <3>1, <3>2, Zenon
    <3>4. Handling(b, q) /\ IsTcp(q)
      BY <3>1, <3>2, EnterInv
    <3>5. Keeps(b, r, q)
      BY <3>1, <3>2, <3>4, AfterReadKeeps
    <3>6. Keeps(r, t, q)
      BY <3>1, <3>4, <3>5, ReopenedKeeps DEF Keeps
    <3>7. Keeps(b, t, q) /\ Handling(t, q)
      BY <3>4, <3>5, <3>6, KeepsTrans DEF Keeps
    <3>8. Keeps(t, u, q)
      BY <3>1, <3>2, <3>4, <3>7, AttemptSendKeeps, KeepsSelf
    <3>9. Keeps(b, u, q)
      BY <3>4, <3>7, <3>8, KeepsTrans
    <3> QED
      BY <3>1, <3>2, <3>3, <3>9, LeaveInv
  <2> QED
    BY <2>1, <2>2, Zenon DEF Recv
<1>4. Counters'
  BY <1>1, <1>2, <1>3, CountersSame DEF Inv
<1> QED
  BY <1>3, <1>4 DEF Inv

\* A change aside from what either half is about, with no packet.
LEMMA QuietInv ==
  ASSUME Inv, NEW e \in Peers, NEW t, AsideOf(tcp[e], t), tcp' = [tcp EXCEPT ![e] = t],
         UNCHANGED <<plan, app, net, path, dups, fails>>
  PROVE  Inv'
<1>1. Link'
  BY Quiet DEF Inv
<1>2. Counters'
  BY CountersSame DEF Inv, Counters
<1> QED
  BY <1>1, <1>2 DEF Inv

LEMMA CloseInv ==
  ASSUME Inv, NEW e \in Peers, NEW mode \in Modes, Close(e, mode)
  PROVE  Inv'
<1>1. PICK s, t : s = tcp[e] /\ t = [s EXCEPT !.shutdown = mode]
  OBVIOUS
<1>2. Sound(s)
  BY <1>1 DEF Inv, Link, Handling, Sound
<1>3. IsTcp(t)
  BY <1>1, <1>2 DEF Sound, IsTcp, Fields
<1>4. AsideOf(s, t)
  BY <1>1, <1>2, <1>3, Shape DEF AsideOf, Fields, SameSnd, SameRcv
<1>5. tcp' = [tcp EXCEPT ![e] = t]
  BY <1>1 DEF Close
<1> QED
  BY <1>1, <1>4, <1>5, QuietInv DEF Close

\* What OnTcpOpen, OnTcpReadable and OnTcpWriteable tell the application.
LEMMA CalledIs ==
  ASSUME Counters, NEW e \in Peers, NEW t, Called(e, t)
  PROVE  app' \in [Peers -> AppState]
<1>1. app \in [Peers -> AppState] /\ app[e] \in AppState
  BY DEF Counters
<1>2. PICK w \in BOOLEAN, r \in BOOLEAN :
        /\ w = (\/ app[e].writing
                \/ tcp[e].state # "ESTABLISHED" /\ t.state = "ESTABLISHED"
                \/ tcp[e].writeEnable /\ ~t.writeEnable)
        /\ r = (app[e].reading \/ (tcp[e].readEnable /\ ~t.readEnable))
  OBVIOUS
<1>3. app' = [app EXCEPT ![e].writing = w, ![e].reading = r]
  BY <1>1, <1>2 DEF Called
<1> QED
  BY <1>1, <1>3 DEF AppState

LEMMA NotifyPacketInv ==
  ASSUME Inv, NEW p \in net, NotifyPacket(p)
  PROVE  Inv'
<1>1. PICK e : e = p.to
  OBVIOUS
<1>2. e \in Peers /\ p.seg \in Segment /\ Good(tcp[Other(e)], p.seg, tcp[e])
  BY <1>1 DEF Inv, Link
<1>3. PICK copy, room, late, t :
        /\ copy \in BOOLEAN /\ room \in Rooms /\ late \in BOOLEAN
        /\ copy => dups < plan.copies
        /\ dups' = dups + (IF copy THEN 1 ELSE 0)
        /\ t = Process(Enter(e, room), p.seg, late)
        /\ Leave(e, t, IF copy THEN net ELSE net \ {p})
        /\ Called(e, t)
  BY <1>1, Zenon DEF NotifyPacket
<1>4. PICK q, b, rest : /\ q = tcp[Other(e)] /\ b = Enter(e, room)
                        /\ rest = IF copy THEN net ELSE net \ {p}
  OBVIOUS
<1>5. Handling(b, q) /\ Passes(tcp[e], b, q) /\ IsTcp(q) /\ RcvInv(q)
  BY <1>2, <1>3, <1>4, EnterInv
<1>6. Good(q, p.seg, b)
  BY <1>2, <1>4, <1>5 DEF Passes
<1>7. Keeps(b, t, q)
  BY <1>2, <1>3, <1>4, <1>5, <1>6, ProcessKeeps
<1>8. rest \in SUBSET net /\ Leave(e, t, rest)
  <2>1. rest \in SUBSET net
    BY <1>4
  <2>2. Leave(e, t, rest)
    BY <1>3, <1>4, Zenon
  <2> QED
    BY <2>1, <2>2
<1>9. Link' /\ path' = path /\ fails' \in 0..plan.failures
  BY <1>2, <1>3, <1>4, <1>7, <1>8, LeaveInv
<1>10. app' \in [Peers -> AppState]
  BY <1>2, <1>3, CalledIs DEF Inv
<1>11. plan' = plan /\ dups' \in 0..plan.copies
  <2>1. plan' = plan
    BY DEF NotifyPacket
  <2>2. dups \in 0..plan.copies /\ plan.copies \in Nat
    BY PlanIs DEF Inv, Counters
  <2>3. CASE copy
    BY <1>3, <2>1, <2>2, <2>3
  <2>4. CASE ~copy
    BY <1>3, <2>1, <2>2, <2>4
  <2> QED
    BY <2>1, <2>3, <2>4
<1> QED
  BY <1>9, <1>10, <1>11 DEF Inv, Counters

LEMMA NotifyClockInv ==
  ASSUME Inv, NEW e \in Peers, NEW due \in SUBSET Armed(tcp[e]), NotifyClock(e, due)
  PROVE  Inv'
<1>1. PICK room, silent, t :
        /\ room \in Rooms /\ silent \in BOOLEAN
        /\ t = ClockAck(ClockProbe(ClockRto(Enter(e, room), due), due, silent), due)
        /\ Leave(e, t, net)
  <2>1. \A x \in (IF "probe" \in due THEN BOOLEAN ELSE {FALSE}) : x \in BOOLEAN
    OBVIOUS
  <2> QED
    BY <2>1, Zenon DEF NotifyClock
<1>2. PICK q, b, c, u : /\ q = tcp[Other(e)] /\ b = Enter(e, room) /\ c = ClockRto(b, due)
                        /\ u = ClockProbe(c, due, silent)
  OBVIOUS
<1>3. t = ClockAck(u, due)
  BY <1>1, <1>2, Zenon
<1>4. /\ Handling(b, q) /\ SameSnd(tcp[e], b) /\ IsTcp(q) /\ SndInv(tcp[e]) /\ IsTcp(tcp[e])
  BY <1>1, <1>2, EnterInv
<1>5. Keeps(b, c, q)
  <2>1. "rto" \in due => tcp[e].rto
    BY DEF Armed, Timers
  <2>2. "rto" \in due => b.rto
    BY <1>4, <2>1 DEF SameSnd
  <2> QED
    BY <1>2, <1>4, <2>2, ClockRtoKeeps
<1>6. "probe" \in due => c.snd_nxt > 0
  <2>1. "probe" \in due => tcp[e].snd_wnd = 0
    BY DEF Armed, Timers
  <2>2. tcp[e].snd_nxt \in Nat /\ c.snd_nxt \in Nat
    BY <1>4, <1>5, Numbers DEF Keeps, Handling
  <2>3. tcp[e].snd_wnd = 0 => tcp[e].snd_nxt > 0
    BY <1>4, <2>2 DEF SndInv
  <2>4. tcp[e].snd_nxt <= c.snd_nxt
    BY <1>4, <1>5 DEF Keeps, Later, SameSnd
  <2> QED
    BY <2>1, <2>2, <2>3, <2>4
<1>7. Keeps(c, u, q)
  BY <1>1, <1>2, <1>4, <1>5, <1>6, ClockProbeKeeps DEF Keeps
<1>8. Keeps(u, t, q)
  BY <1>3, <1>7, ClockAckKeeps DEF Keeps
<1>9. Keeps(b, t, q)
  <2>1. Keeps(b, u, q)
    BY <1>4, <1>5, <1>7, KeepsTrans
  <2> QED
    BY <1>4, <1>8, <2>1, KeepsTrans
<1>10. Link' /\ path' = path /\ fails' \in 0..plan.failures
  BY <1>1, <1>2, <1>9, LeaveInv
<1>11. Counters'
  <2>1. plan' = plan /\ dups' = dups /\ app' = app
    BY DEF NotifyClock
  <2> QED
    BY <1>10, <2>1, CountersSame DEF Inv, Counters
<1> QED
  BY <1>10, <1>11 DEF Inv

LEMMA ShrinkPathInv ==
  ASSUME Inv, ShrinkPath
  PROVE  Inv'
<1>1. path \in MssLevels /\ plan.path \in MssLevels /\ path > plan.path
  BY PlanIs DEF Inv, Counters, ShrinkPath
<1>2. PICK T : T = {m \in MssLevels : m < path}
  OBVIOUS
<1>3. T \subseteq Nat /\ T # {} /\ path \in Nat /\ \A k \in T : k <= path
  <2>1. T \subseteq Nat /\ path \in Nat /\ \A k \in T : k <= path
    <3>1. path \in Nat /\ \A m \in MssLevels : m \in Nat
      BY <1>1, Constants
    <3>2. \A k \in T : k \in Nat /\ k < path
      BY <1>2, <3>1, Zenon
    <3>3. \A k \in T : k <= path
      BY <3>1, <3>2
    <3> QED
      BY <3>1, <3>2, <3>3, Zenon
  <2>2. plan.path \in T
    BY <1>1, <1>2, Constants
  <2> QED
    BY <2>1, <2>2
<1>4. Max(T) \in T
  BY <1>3, MaxOf
<1>5. path' \in MssLevels
  BY <1>2, <1>4 DEF ShrinkPath
<1>6. UNCHANGED <<plan, tcp, app, net, dups, fails>>
  BY DEF ShrinkPath
<1>7. Link'
  BY <1>6 DEF Inv, Link
<1>8. Counters'
  BY <1>5, <1>6 DEF Inv, Counters
<1> QED
  BY <1>7, <1>8 DEF Inv

LEMMA NotifyMTUInv ==
  ASSUME Inv, NEW e \in Peers, NotifyMTU(e)
  PROVE  Inv'
<1>1. PICK s, c, t : /\ s = tcp[e] /\ c = [s EXCEPT !.advise = path]
                     /\ t = IF c.state = "ESTABLISHED" THEN AdjustMTU(c) ELSE c
  OBVIOUS
<1>2. Sound(s) /\ path \in MssLevels
  BY <1>1 DEF Inv, Link, Handling, Sound, Counters
<1>3. AsideOf(s, c)
  <2>1. IsTcp(c)
    BY <1>1, <1>2 DEF Sound, IsTcp, Fields
  <2> QED
    BY <1>1, <1>2, <2>1, Shape DEF AsideOf, Fields, SameSnd, SameRcv
<1>4. Sound(c)
  <2>1. Handling(s, tcp[Other(e)])
    BY <1>1 DEF Inv, Link
  <2>2. Keeps(s, c, tcp[Other(e)])
    BY <1>3, <2>1, AsideKeeps
  <2> QED
    BY <2>2 DEF Keeps, Handling, Sound
<1>5. AsideOf(c, AdjustMTU(c))
  BY <1>4, AdjustMTUAside
<1>6. AsideOf(s, t)
  <2>1. CASE t = c
    BY <1>3, <2>1
  <2>2. CASE t = AdjustMTU(c)
    BY <1>3, <1>5, <2>2 DEF AsideOf, SameSnd, SameRcv
  <2> QED
    BY <1>1, <2>1, <2>2
<1>7. tcp' = [tcp EXCEPT ![e] = t]
  BY <1>1 DEF NotifyMTU
<1> QED
  BY <1>1, <1>6, <1>7, QuietInv DEF NotifyMTU

----------------------------------------------------------------------------
(* The theorems                                                            *)

LEMMA InvStep == Inv /\ [Next]_vars => Inv'
<1> SUFFICES ASSUME Inv, [Next]_vars PROVE Inv'
  OBVIOUS
<1>1. CASE Next
  <2>1. ASSUME NEW e \in Peers, Connect(e) PROVE Inv'
    BY <2>1, ConnectInv
  <2>2. ASSUME NEW e \in Peers, Send(e) PROVE Inv'
    BY <2>2, SendInv
  <2>3. ASSUME NEW e \in Peers, NotifyMTU(e) PROVE Inv'
    BY <2>3, NotifyMTUInv
  <2>4. ASSUME NEW e \in Peers, NEW n \in {1, RcvBufLen}, Recv(e, n) PROVE Inv'
    <3>1. n \in Nat
      BY <2>4, Constants
    <3> QED
      BY <2>4, <3>1, RecvInv
  <2>5. ASSUME NEW e \in Peers, NEW mode \in Modes, Close(e, mode) PROVE Inv'
    BY <2>5, CloseInv
  <2>6. ASSUME NEW p \in net, NotifyPacket(p) PROVE Inv'
    BY <2>6, NotifyPacketInv
  <2>7. ASSUME NEW e \in Peers, NEW due \in SUBSET Armed(tcp[e]), NotifyClock(e, due) PROVE Inv'
    BY <2>7, NotifyClockInv
  <2>8. CASE ShrinkPath
    BY <2>8, ShrinkPathInv
  <2> QED
    BY <1>1, <2>1, <2>2, <2>3, <2>4, <2>5, <2>6, <2>7, <2>8, Zenon DEF Next
<1>2. CASE UNCHANGED vars
  <2>1. UNCHANGED <<plan, tcp, app, net, path, dups, fails>>
    BY <1>2 DEF vars
  <2>2. Link'
    BY <2>1 DEF Inv, Link
  <2>3. Counters'
    BY <2>1 DEF Inv, Counters
  <2> QED
    BY <2>2, <2>3 DEF Inv
<1> QED
  BY <1>1, <1>2

\* The invariant on which the four theorems below rest: each endpoint's two
\* halves are sound, each sender agrees with the peer's receiver, and every
\* packet in flight, however old or often copied, is one the two can take.
THEOREM Invariant == Spec => []Inv
  BY InitInv, InvStep, PTL DEF Spec

LEMMA InvTypes == Inv => TypeOK
<1> SUFFICES ASSUME Inv PROVE TypeOK
  OBVIOUS
<1>1. \A e \in Peers :
       LET s == tcp[e] IN
       /\ s.state \in {"LISTEN", "SYN_SENT", "SYN_RECEIVED", "ESTABLISHED", "CLOSED"}
       /\ s.shutdown \in {"NONE"} \cup Modes
       /\ {s.snd_una, s.snd_nxt, s.rcv_nxt, s.recover, s.probes} \subseteq Nat
       /\ s.slist \in Seq(SSegment) /\ s.sbuf \in Seq(Nat) /\ Len(s.sbuf) <= SndBufLen
       /\ s.rlist \subseteq [seq : Nat, len : Nat]
       /\ s.rbuf \in Seq(Nat) /\ Len(s.rbuf) <= RcvBufLen
       /\ s.ahead \in [1..RcvBufLen -> Nat]
       /\ s.snd_wnd \in 0..RcvBufLen /\ s.rcv_wnd \in 0..RcvBufLen
       /\ {s.mss, s.advise} \subseteq MssLevels /\ s.unit \in {1, WndUnit}
       /\ {s.cwnd, s.ssthresh} \subseteq Nat /\ s.dup_acks \in 0..DupCap
       /\ {s.rto, s.t_ack, s.readEnable, s.writeEnable} \subseteq BOOLEAN
       /\ s.out = {} /\ s.room = 0
  <2> TAKE e \in Peers
  <2>1. PICK s : s = tcp[e]
    OBVIOUS
  <2>2. IsTcp(s) /\ SndInv(s) /\ RcvInv(s) /\ s.out = {} /\ s.room = 0
    BY <2>1 DEF Inv, Link, Handling
  <2>3. Len(s.sbuf) <= SndBufLen /\ Len(s.rbuf) <= RcvBufLen
    <3>1. s.rcv_wnd \in Nat /\ Len(s.rbuf) \in Nat /\ RcvBufLen \in Nat
      BY <2>2, Numbers, Constants
    <3> QED
      BY <2>2, <3>1 DEF SndInv, RcvInv
  <2>4. /\ {s.snd_una, s.snd_nxt, s.rcv_nxt, s.recover, s.probes} \subseteq Nat
        /\ {s.mss, s.advise} \subseteq MssLevels /\ {s.cwnd, s.ssthresh} \subseteq Nat
        /\ {s.rto, s.t_ack, s.readEnable, s.writeEnable} \subseteq BOOLEAN
        /\ s.rlist \subseteq [seq : Nat, len : Nat]
    BY <2>2, Zenon DEF IsTcp
  <2> QED
    BY <2>1, <2>2, <2>3, <2>4, Zenon DEF IsTcp
<1>2. /\ plan \in Plans /\ net \subseteq [to : Peers, seg : Segment]
      /\ app \in [Peers -> [sent : Nat, got : Seq(Nat), reading : BOOLEAN, writing : BOOLEAN]]
      /\ path \in MssLevels /\ dups \in 0..plan.copies /\ fails \in 0..plan.failures
  BY DEF Inv, Link, Counters, AppState
<1> QED
  BY <1>1, <1>2, Zenon DEF TypeOK

\* Type correctness of both endpoints and of every packet: whatever arrives and
\* in whatever order, m_sbuf and m_rbuf never hold more than their capacity,
\* no window goes below zero or beyond the buffer, and m_mss stays a size of
\* the table.
THEOREM TypeCorrect == Spec => []TypeOK
  BY Invariant, InvTypes, PTL

LEMMA InvSegments == Inv => SegmentsMatch
<1> SUFFICES ASSUME Inv, NEW e \in Peers
             PROVE  LET s == tcp[e]
                        end(i) == IF i = 0 THEN s.snd_una ELSE s.slist[i].seq + s.slist[i].len
                        k == Len(s.slist)
                    IN /\ end(k) = s.snd_una + Len(s.sbuf)
                       /\ \A i \in 1..k :
                            /\ s.slist[i].len > 0 /\ s.slist[i].seq = end(i - 1)
                            /\ s.slist[i].xmit > 0 <=> end(i) <= s.snd_nxt
  BY DEF SegmentsMatch
<1>1. PICK s, L, a, b, n : /\ s = tcp[e] /\ L = s.slist /\ a = s.snd_una
                           /\ b = s.snd_una + Len(s.sbuf) /\ n = s.snd_nxt
  OBVIOUS
<1>2. IsTcp(s) /\ SndInv(s)
  BY <1>1 DEF Inv, Link, Handling
<1>3. L \in Seq(SSegment) /\ a \in Nat /\ b \in Nat /\ n \in Nat /\ Listed(L, a, b, n)
  <2>1. s.snd_una \in Nat /\ Len(s.sbuf) \in Nat /\ s.snd_nxt \in Nat /\ s.slist \in Seq(SSegment)
    BY <1>2, Numbers
  <2> QED
    BY <1>1, <1>2, <2>1 DEF SndInv
<1>4. /\ Len(L) \in Nat
      /\ \A i \in 1..Len(L) : L[i].seq \in Nat /\ L[i].len \in Nat /\ L[i].xmit \in Nat
  BY <1>3, SegmentTypes
<1>5. (IF Len(L) = 0 THEN a ELSE L[Len(L)].seq + L[Len(L)].len) = b
  <2>1. CASE L = <<>>
    BY <1>3, <2>1 DEF Listed
  <2>2. CASE L # <<>>
    BY <1>3, <1>4, <2>2 DEF Listed, SegEnd
  <2> QED
    BY <2>1, <2>2
<1>6. ASSUME NEW i \in 1..Len(L)
      PROVE  /\ L[i].len > 0
             /\ L[i].seq = IF i - 1 = 0 THEN a ELSE L[i - 1].seq + L[i - 1].len
             /\ L[i].xmit > 0 <=> L[i].seq + L[i].len <= n
  <2>1. L[i].len > 0 /\ L[i].seq \in Nat /\ L[i].len \in Nat /\ L[i].xmit \in Nat
    BY <1>3, <1>4 DEF Listed
  <2>2. IF L[i].xmit > 0 THEN L[i].seq + L[i].len <= n ELSE n <= L[i].seq
    BY <1>3 DEF Listed, SegEnd
  <2>3. L[i].xmit > 0 <=> L[i].seq + L[i].len <= n
    BY <1>3, <2>1, <2>2
  <2>4. L[i].seq = IF i - 1 = 0 THEN a ELSE L[i - 1].seq + L[i - 1].len
    <3>1. CASE i = 1
      BY <1>3, <1>4, <3>1 DEF Listed
    <3>2. CASE i # 1
      <4>1. PICK j \in Int : j = i - 1
        OBVIOUS
      <4>2. j \in 1..(Len(L) - 1) /\ i = j + 1 /\ j # 0
        BY <1>4, <3>2, <4>1
      <4>3. L[j + 1].seq = L[j].seq + L[j].len
        BY <1>3, <4>2 DEF Listed, SegEnd
      <4> QED
        BY <4>1, <4>2, <4>3, Zenon
    <3> QED
      BY <3>1, <3>2
  <2> QED
    BY <2>1, <2>3, <2>4
<1>7. \A i \in 1..Len(L) : i # 0
  OBVIOUS
<1> QED
  BY <1>1, <1>5, <1>6, <1>7

\* The segment list and the send buffer stay in step: no run of Send, transmit,
\* acknowledgment and path change, for any buffer and segment sizes, frees a
\* segment in part or leaves a gap, so that transmit() reads bytes the buffer
\* still holds.
THEOREM SegmentsMatchHolds == Spec => []SegmentsMatch
  BY Invariant, InvSegments, PTL

LEMMA InvWindows == Inv => WindowsAgree
<1> SUFFICES ASSUME Inv, NEW e \in Peers
             PROVE  LET s == tcp[e]
                        r == tcp[Other(e)]
                    IN /\ r.rcv_wnd <= RcvSpace(r)
                       /\ r.rcv_nxt <= s.snd_nxt
                       /\ s.snd_una + s.snd_wnd <= r.rcv_nxt + r.rcv_wnd
  BY DEF WindowsAgree
<1>1. PICK s, r : s = tcp[e] /\ r = tcp[Other(e)]
  OBVIOUS
<1>2. Handling(s, r) /\ IsTcp(r) /\ RcvInv(r)
  BY <1>1, Peer DEF Inv, Link, Handling
<1>3. r.rcv_wnd <= RcvSpace(r)
  <2>1. r.rcv_wnd \in Nat /\ Len(r.rbuf) \in Nat /\ RcvBufLen \in Nat
    BY <1>2, Numbers, Constants
  <2> QED
    BY <1>2, <2>1 DEF RcvInv, RcvSpace
<1>4. r.rcv_nxt <= s.snd_nxt /\ s.snd_una + s.snd_wnd <= r.rcv_nxt + r.rcv_wnd
  BY <1>2 DEF Handling, Pair, Edge
<1> QED
  BY <1>1, <1>3, <1>4

\* A sender never believes in more room than its peer has, however late, copied
\* or reordered the acknowledgments are, and a peer never acknowledges what
\* was not sent.
THEOREM WindowsAgreeHolds == Spec => []WindowsAgree
  BY Invariant, InvWindows, PTL

LEMMA InvTimer == Inv => TimerRuns
<1> SUFFICES ASSUME Inv, NEW e \in Peers PROVE tcp[e].rto <=> InFlight(tcp[e]) > 0
  BY DEF TimerRuns
<1>1. IsTcp(tcp[e]) /\ SndInv(tcp[e])
  BY DEF Inv, Link, Handling
<1>2. PICK a \in Nat, b \in Nat : a = tcp[e].snd_una /\ b = tcp[e].snd_nxt
  BY <1>1, Numbers
<1>3. a < b <=> b - a > 0
  OBVIOUS
<1>4. tcp[e].rto <=> a < b
  BY <1>1, <1>2 DEF SndInv
<1> QED
  BY <1>2, <1>3, <1>4 DEF InFlight

\* m_rto_base is set exactly while bytes are in flight, through every path that
\* starts, restarts or stops the timer: transmit(), the freeing of
\* acknowledged bytes, and NotifyClock itself.
THEOREM TimerRunsHolds == Spec => []TimerRuns
  BY Invariant, InvTimer, PTL


----------------------------------------------------------------------------
(* The bytes themselves: what is in the buffers and in the packets.  Byte 0 *)
(* of a stream is the connect message, byte k the k-th of the application.  *)

\* What an endpoint was given to send so far, the connect message included.
Total(s) == s.snd_una + Len(s.sbuf)

\* The bytes of a packet are the ones that its place in the stream asks for,
\* and the connect message travels alone.
Stamped(p) ==
  /\ p.ctl => p.seq = 0 /\ Len(p.data) = 1
  /\ ~p.ctl /\ p.data # <<>> => p.seq > 0
  /\ \A i \in 1..Len(p.data) : p.data[i] = p.seq + i - 1

Marks(L) ==
  \A i \in 1..Len(L) :
    /\ L[i].ctl => L[i].seq = 0 /\ L[i].len = 1
    /\ ~L[i].ctl => L[i].seq > 0

Filled(a, b) == \A i \in 1..Len(b) : b[i] = a + i - 1

Marked(s) ==
  /\ Filled(s.snd_una, s.sbuf)
  /\ Marks(s.slist)
  /\ \A p \in s.out : Stamped(p)

\* What the sender's half and the callbacks leave alone.
Calm(s, t) ==
  /\ t.shutdown = s.shutdown /\ t.readEnable = s.readEnable /\ t.writeEnable = s.writeEnable
  /\ t.rcv_nxt = s.rcv_nxt /\ t.rlist = s.rlist /\ t.rbuf = s.rbuf /\ t.ahead = s.ahead
  /\ t.state \in {s.state, "CLOSED"}

\* A step that sends, but is given nothing to send and frees nothing.
Still(s, t) ==
  /\ Calm(s, t)
  /\ t.snd_una = s.snd_una /\ t.snd_wnd = s.snd_wnd /\ t.sbuf = s.sbuf
  /\ Marked(s) => Marked(t)

\* A step that may free what was acknowledged as well.
Moved(s, t) ==
  /\ Calm(s, t)
  /\ Total(t) = Total(s)
  /\ Marked(s) => Marked(t)

LEMMA StillSelf ==
  ASSUME NEW s
  PROVE  Still(s, s)
  BY DEF Still, Calm

LEMMA StillTrans ==
  ASSUME NEW s, NEW t, NEW u, Still(s, t), Still(t, u)
  PROVE  Still(s, u)
  BY DEF Still, Calm

LEMMA StillMoved ==
  ASSUME NEW s, NEW t, Still(s, t)
  PROVE  Moved(s, t)
  BY DEF Still, Moved, Total

LEMMA MovedTrans ==
  ASSUME NEW s, NEW t, NEW u, Moved(s, t), Moved(t, u)
  PROVE  Moved(s, u)
  BY DEF Moved, Calm

\* A change to none of the fields that count here.
Beside(s, t) ==
  /\ Calm(s, t)
  /\ t.snd_una = s.snd_una /\ t.snd_wnd = s.snd_wnd /\ t.sbuf = s.sbuf
  /\ t.snd_nxt = s.snd_nxt /\ t.slist = s.slist /\ t.out = s.out

LEMMA BesideStill ==
  ASSUME NEW s, NEW t, Beside(s, t)
  PROVE  Still(s, t)
  BY DEF Beside, Still, Marked

LEMMA CwndBeside ==
  ASSUME NEW s, DOMAIN s = Fields, NEW c, NEW d
  PROVE  /\ Beside(s, [s EXCEPT !.cwnd = c]) /\ Beside(s, [s EXCEPT !.dup_acks = d])
         /\ Beside(s, [s EXCEPT !.cwnd = c, !.dup_acks = d])
         /\ Beside(s, [s EXCEPT !.dup_acks = d, !.cwnd = c])
  BY DEF Beside, Calm, Fields

LEMMA OtherBeside ==
  ASSUME NEW s, DOMAIN s = Fields, NEW c, NEW d, NEW m
  PROVE  /\ Beside(s, [s EXCEPT !.ssthresh = c]) /\ Beside(s, [s EXCEPT !.recover = d, !.cwnd = c])
         /\ Beside(s, [s EXCEPT !.mss = m, !.ssthresh = c, !.cwnd = d])
         /\ Beside(s, [s EXCEPT !.t_ack = c]) /\ Beside(s, [s EXCEPT !.probes = c])
         /\ Beside(s, [s EXCEPT !.unit = c]) /\ Beside(s, [s EXCEPT !.state = "CLOSED"])
         /\ Beside(s, [s EXCEPT !.advise = c])
  BY DEF Beside, Calm, Fields

LEMMA Besides ==
  ASSUME NEW s, DOMAIN s = Fields, NEW n
  PROVE  /\ Still(s, SlowStart(s)) /\ Still(s, Halved(s)) /\ Still(s, AdjustMTU(s))
         /\ Still(s, EndRecovery(s)) /\ Still(s, Recovering(s, n)) /\ Still(s, Growing(s))
         /\ Still(s, StartRecovery(s)) /\ Still(s, Closedown(s))
<1>1. Beside(s, SlowStart(s)) /\ Beside(s, Recovering(s, n))
  <2>1. PICK c : c = s.cwnd + s.mss - Min({n, s.cwnd})
    OBVIOUS
  <2>2. Recovering(s, n) = [s EXCEPT !.cwnd = c]
    BY <2>1 DEF Recovering, Fields
  <2>3. PICK m : m = s.mss
    OBVIOUS
  <2>4. SlowStart(s) = [s EXCEPT !.cwnd = m]
    BY <2>3 DEF SlowStart
  <2>5. Beside(s, [s EXCEPT !.cwnd = c]) /\ Beside(s, [s EXCEPT !.cwnd = m])
    BY CwndBeside, Zenon
  <2> QED
    BY <2>2, <2>4, <2>5
<1>2. Beside(s, EndRecovery(s))
  BY CwndBeside, Zenon DEF EndRecovery
<1>3. Beside(s, Growing(s))
  <2>1. PICK g : g = IF s.cwnd < s.ssthresh THEN s.mss ELSE Max({1, (s.mss * s.mss) \div s.cwnd})
    OBVIOUS
  <2>2. PICK c : c = CapCwnd(s.cwnd + g)
    OBVIOUS
  <2>3. Growing(s) = [s EXCEPT !.dup_acks = 0, !.cwnd = c]
    BY <2>1, <2>2 DEF Growing, Fields
  <2>4. Beside(s, [s EXCEPT !.dup_acks = 0, !.cwnd = c])
    BY CwndBeside, Zenon
  <2> QED
    BY <2>3, <2>4
<1>4. Beside(s, Halved(s)) /\ Beside(s, StartRecovery(s)) /\ Beside(s, Closedown(s))
  BY OtherBeside, Zenon DEF Halved, StartRecovery, Closedown
<1>5. Beside(s, AdjustMTU(s))
  <2>1. PICK m, h, c : /\ m = s.advise /\ h = Max({s.ssthresh, 2 * s.advise})
                       /\ c = Max({s.cwnd, s.advise})
    OBVIOUS
  <2>2. AdjustMTU(s) = [s EXCEPT !.mss = m, !.ssthresh = h, !.cwnd = c]
    BY <2>1 DEF AdjustMTU, Fields
  <2>3. Beside(s, [s EXCEPT !.mss = m, !.ssthresh = h, !.cwnd = c])
    BY OtherBeside, Zenon
  <2> QED
    BY <2>2, <2>3, Zenon
<1> QED
  BY <1>1, <1>2, <1>3, <1>4, <1>5, BesideStill

\* A packet without data.
LEMMA PacketStill ==
  ASSUME NEW s, DOMAIN s = Fields, NEW seq
  PROVE  Still(s, Packet(s, seq, FALSE, <<>>))
<1>1. PICK p : p = [seq |-> seq, ctl |-> FALSE, data |-> <<>>, ack |-> s.rcv_nxt,
                    wnd |-> s.rcv_wnd \div WndUnit]
  OBVIOUS
<1>2. PICK t : t = [s EXCEPT !.out = s.out \cup {p}, !.t_ack = FALSE]
  OBVIOUS
<1>3. Packet(s, seq, FALSE, <<>>) = t
  BY <1>1, <1>2 DEF Packet, Fields
<1>4. Stamped(p)
  <2>1. p.ctl = FALSE /\ p.data = <<>>
    BY <1>1
  <2> QED
    BY <2>1 DEF Stamped
<1>5. /\ Calm(s, t) /\ t.snd_una = s.snd_una /\ t.snd_wnd = s.snd_wnd /\ t.sbuf = s.sbuf
      /\ t.slist = s.slist /\ t.out = s.out \cup {p}
  BY <1>2 DEF Calm, Fields
<1>6. Marked(s) => Marked(t)
  BY <1>4, <1>5 DEF Marked
<1>7. Still(s, t)
  BY <1>5, <1>6 DEF Still
<1> QED
  BY <1>3, <1>7

\* The marks of a list of segments through a cut and a transmission.
LEMMA CutMarks ==
  ASSUME NEW L \in Seq(SSegment), Marks(L), NEW i \in 1..Len(L), NEW n \in Nat, 0 < n
  PROVE  Marks(CutSegment(L, i, n))
<1>1. CASE ~(n < L[i].len)
  BY <1>1 DEF CutSegment
<1>2. CASE n < L[i].len
  <2>1. PICK C : C = CutSegment(L, i, n)
    OBVIOUS
  <2>2. /\ C \in Seq(SSegment) /\ Len(C) = Len(L) + 1
        /\ \A j \in 1..Len(L) : j < i => C[j] = L[j]
        /\ C[i] = FirstPart(L[i], n) /\ C[i + 1] = Rest(L[i], n)
        /\ \A j \in 1..Len(L) : j > i => C[j + 1] = L[j]
    BY <1>2, <2>1, CutElements
  <2>3. /\ Len(L) \in Nat /\ i \in Nat /\ 1 <= i /\ i <= Len(L) /\ L[i] \in SSegment
        /\ L[i].seq \in Nat /\ L[i].len \in Nat /\ L[i].ctl \in BOOLEAN
    BY SegmentTypes
  <2>4. ~L[i].ctl /\ L[i].seq > 0
    BY <1>2, <2>3 DEF Marks
  <2>5. /\ FirstPart(L[i], n).ctl = L[i].ctl /\ FirstPart(L[i], n).seq = L[i].seq
        /\ Rest(L[i], n).ctl = L[i].ctl /\ Rest(L[i], n).seq = L[i].seq + n
    BY <2>3 DEF SSegment, FirstPart, Rest
  <2>6. Marks(C)
    <3> SUFFICES ASSUME NEW j \in 1..Len(C)
                 PROVE  /\ C[j].ctl => C[j].seq = 0 /\ C[j].len = 1
                        /\ ~C[j].ctl => C[j].seq > 0
      BY DEF Marks
    <3>1. CASE j < i
      BY <2>2, <2>3, <3>1 DEF Marks
    <3>2. CASE j = i
      <4>1. ~C[j].ctl /\ C[j].seq > 0
        BY <2>2, <2>4, <2>5, <3>2
      <4> QED
        BY <4>1
    <3>3. CASE j = i + 1
      <4>1. C[j].ctl = L[i].ctl /\ C[j].seq = L[i].seq + n
        BY <2>2, <2>5, <3>3
      <4> QED
        BY <2>3, <2>4, <4>1
    <3>4. CASE j > i + 1
      <4>1. j - 1 \in 1..Len(L) /\ j - 1 > i /\ (j - 1) + 1 = j
        BY <2>2, <2>3, <3>4
      <4>2. C[j] = L[j - 1]
        BY <2>2, <4>1
      <4> QED
        BY <4>1, <4>2 DEF Marks
    <3> QED
      BY <2>2, <2>3, <3>1, <3>2, <3>3, <3>4
  <2> QED
    BY <2>1, <2>6
<1> QED
  BY <1>1, <1>2, SegmentTypes

LEMMA SentMarks ==
  ASSUME NEW L \in Seq(SSegment), Marks(L), NEW i \in 1..Len(L)
  PROVE  Marks(MarkSent(L, i))
<1> DEFINE sent == [L[i] EXCEPT !.xmit = @ + 1]
<1>1. PICK M : M = MarkSent(L, i)
  OBVIOUS
<1>2. sent \in SSegment
  <2>1. L[i].xmit + 1 \in Nat
    BY SegmentTypes
  <2> QED
    BY <2>1, SegmentTypes DEF SSegment
<1>3. Len(M) = Len(L) /\ M[i] = sent /\ \A j \in 1..Len(L) : j # i => M[j] = L[j]
  BY <1>1, <1>2 DEF MarkSent
<1>4. sent.ctl = L[i].ctl /\ sent.seq = L[i].seq /\ sent.len = L[i].len
  BY SegmentTypes DEF SSegment
<1> HIDE DEF sent
<1>5. \A j \in 1..Len(L) : M[j].ctl = L[j].ctl /\ M[j].seq = L[j].seq /\ M[j].len = L[j].len
  BY <1>3, <1>4
<1>6. Marks(M)
  BY <1>3, <1>5 DEF Marks
<1> QED
  BY <1>1, <1>6

\* The bytes of a piece of the buffer.
LEMMA PieceElements ==
  ASSUME NEW b \in Seq(Nat), NEW from \in Nat, NEW n \in Nat, from + n <= Len(b)
  PROVE  \A i \in 1..n : SubSeq(b, from + 1, from + n)[i] = b[from + i]
<1>1. \A j \in (from + 1)..(from + n) : b[j] \in Nat
  <2> TAKE j \in (from + 1)..(from + n)
  <2>1. j \in 1..Len(b)
    OBVIOUS
  <2> QED
    BY <2>1
<1>2. SubSeq(b, from + 1, from + n) = [k \in 1..((1 + (from + n)) - (from + 1)) |-> b[(k + (from + 1)) - 1]]
  OBVIOUS
<1> TAKE i \in 1..n
<1>3. i \in 1..((1 + (from + n)) - (from + 1)) /\ (i + (from + 1)) - 1 = from + i
  OBVIOUS
<1> QED
  BY <1>2, <1>3

\* A packet with data was written.
Spoke(s, t) ==
  /\ Still(s, t)
  /\ t.state = s.state /\ t.dup_acks = s.dup_acks /\ t.t_ack = FALSE
  /\ \A p \in t.out : p \in s.out \/ p.data # <<>>

\* transmit() writes the bytes that its segment describes.
LEMMA TransmitBytesStill ==
  ASSUME NEW s, IsTcp(s), SndInv(s), NEW i \in 1..Len(s.slist), NEW g, g = s.slist[i],
         NEW n \in Nat, 0 < n, n <= g.len, NEW t, t = TransmitBytes(s, i, g, n)
  PROVE  Spoke(s, t) /\ t.snd_nxt = IF g.xmit = 0 THEN s.snd_nxt + n ELSE s.snd_nxt
<1>1. PICK L, a, b :
        L = s.slist /\ a = s.snd_una /\ b = s.snd_una + Len(s.sbuf)
  OBVIOUS
<1>2. /\ L \in Seq(SSegment) /\ a \in Nat /\ b \in Nat /\ i \in 1..Len(L)
      /\ Listed(L, a, b, s.snd_nxt) /\ g = L[i] /\ s.sbuf \in Seq(Nat) /\ Len(s.sbuf) \in Nat
  <2>1. s.snd_una \in Nat /\ s.snd_una + Len(s.sbuf) \in Nat
    BY Numbers
  <2> QED
    BY <1>1, <2>1 DEF SndInv, IsTcp
<1>3. /\ g.seq \in Nat /\ g.len \in Nat /\ g.ctl \in BOOLEAN
      /\ a <= g.seq /\ g.seq + g.len <= b
  <2>1. a <= L[i].seq /\ SegEnd(L[i]) <= b
    BY <1>2, Within
  <2> QED
    BY <1>2, <2>1, SegmentTypes DEF SegEnd
<1>4. PICK from \in Nat : from = g.seq - a
  BY <1>2, <1>3
<1>5. from + n <= Len(s.sbuf)
  <2>1. b = a + Len(s.sbuf)
    BY <1>1
  <2> QED
    BY <1>2, <1>3, <1>4, <2>1, SMTT(20)
<1>6. PICK data : data = SubSeq(s.sbuf, from + 1, from + n)
  OBVIOUS
<1>7. data \in Seq(Nat) /\ Len(data) = n /\ \A j \in 1..n : data[j] = s.sbuf[from + j]
  BY <1>2, <1>5, <1>6, Piece, PieceElements
<1>8. PICK p : p = [seq |-> g.seq, ctl |-> g.ctl, data |-> data, ack |-> s.rcv_nxt,
                    wnd |-> s.rcv_wnd \div WndUnit]
  OBVIOUS
<1>9. p.seq = g.seq /\ p.ctl = g.ctl /\ p.data = data
  BY <1>8
<1>10. PICK u : u = [s EXCEPT !.out = s.out \cup {p}, !.t_ack = FALSE]
  OBVIOUS
<1>11. DOMAIN s = Fields /\ DOMAIN u = Fields
  BY <1>10 DEF IsTcp
<1>12. /\ Calm(s, u) /\ u.snd_una = s.snd_una /\ u.sbuf = s.sbuf /\ u.snd_wnd = s.snd_wnd
       /\ u.slist = s.slist /\ u.snd_nxt = s.snd_nxt /\ u.out = s.out \cup {p} /\ u.state = s.state
       /\ u.dup_acks = s.dup_acks /\ u.t_ack = FALSE
  BY <1>10, <1>11 DEF Fields, Calm
<1>13. PICK m2, c2, M, N :
         /\ m2 = IF n < Min({g.len, s.mss}) THEN n ELSE u.mss
         /\ c2 = IF n < Min({g.len, s.mss}) THEN 2 * n ELSE u.cwnd
         /\ M = MarkSent(CutSegment(L, i, n), i)
         /\ N = IF g.xmit = 0 THEN s.snd_nxt + n ELSE s.snd_nxt
  OBVIOUS
<1>14. t = [u EXCEPT !.mss = m2, !.cwnd = c2, !.slist = M, !.snd_nxt = N, !.rto = TRUE]
  <2>1. Packet(s, g.seq, g.ctl, SubSeq(s.sbuf, (g.seq - s.snd_una) + 1, (g.seq - s.snd_una) + n)) = u
    BY <1>1, <1>4, <1>6, <1>8, <1>10, Zenon DEF Packet
  <2>2. t = [u EXCEPT !.mss = IF n < Min({g.len, s.mss}) THEN n ELSE @,
                      !.cwnd = IF n < Min({g.len, s.mss}) THEN 2 * n ELSE @,
                      !.slist = MarkSent(CutSegment(@, i, n), i),
                      !.snd_nxt = IF g.xmit = 0 THEN @ + n ELSE @,
                      !.rto = TRUE]
    BY <2>1, TransmitBytesIs, Zenon
  <2>3. M = MarkSent(CutSegment(u.slist, i, n), i)
    BY <1>1, <1>12, <1>13
  <2>4. N = IF g.xmit = 0 THEN u.snd_nxt + n ELSE u.snd_nxt
    BY <1>12, <1>13
  <2> QED
    BY <1>11, <1>13, <2>2, <2>3, <2>4 DEF Fields
<1>15. /\ Calm(u, t) /\ t.snd_una = u.snd_una /\ t.sbuf = u.sbuf /\ t.snd_wnd = u.snd_wnd
       /\ t.slist = M /\ t.snd_nxt = N /\ t.out = u.out /\ t.state = u.state
       /\ t.dup_acks = u.dup_acks /\ t.t_ack = u.t_ack
  BY <1>11, <1>14 DEF Fields, Calm
<1>16. ASSUME Marked(s) PROVE Marked(t)
  <2>1. Filled(a, s.sbuf) /\ Marks(L) /\ \A h \in s.out : Stamped(h)
    BY <1>1, <1>16 DEF Marked
  <2>2. Marks(M)
    <3>1. PICK C : C = CutSegment(L, i, n)
      OBVIOUS
    <3>2. C \in Seq(SSegment) /\ i \in 1..Len(C)
      <4>1. s.snd_nxt \in Nat
        BY Numbers
      <4> QED
        BY <1>2, <3>1, <4>1, CutKeeps
    <3>3. Marks(C)
      BY <1>2, <2>1, <3>1, CutMarks
    <3> QED
      BY <1>13, <3>1, <3>2, <3>3, SentMarks
  <2>3. Stamped(p)
    <3>1. g.ctl => g.seq = 0 /\ g.len = 1
      BY <1>2, <2>1 DEF Marks
    <3>2. ~g.ctl => g.seq > 0
      BY <1>2, <2>1 DEF Marks
    <3>3. \A j \in 1..Len(data) : data[j] = g.seq + j - 1
      <4> TAKE j \in 1..Len(data)
      <4>1. j \in 1..n /\ from + j \in 1..Len(s.sbuf) /\ a + (from + j) - 1 = g.seq + j - 1
        <5>1. PICK len \in Nat, seq \in Nat : len = Len(s.sbuf) /\ seq = g.seq
          BY <1>2, <1>3
        <5>2. j \in Nat /\ 1 <= j /\ j <= n
          BY <1>7
        <5>3. from + n <= len /\ from = seq - a
          BY <1>4, <1>5, <5>1
        <5>4. a \in Nat /\ from \in Nat
          BY <1>2
        <5>5. from + j \in 1..len /\ a + (from + j) - 1 = seq + j - 1
          BY <5>2, <5>3, <5>4
        <5> QED
          BY <5>1, <5>2, <5>5
      <4>2. s.sbuf[from + j] = a + (from + j) - 1
        BY <2>1, <4>1 DEF Filled
      <4> QED
        BY <1>7, <4>1, <4>2
    <3>4. g.ctl => Len(data) = 1
      BY <1>3, <1>7, <3>1
    <3> QED
      BY <1>9, <3>1, <3>2, <3>3, <3>4 DEF Stamped
  <2>4. \A h \in t.out : Stamped(h)
    BY <1>12, <1>15, <2>1, <2>3
  <2> QED
    BY <1>1, <1>12, <1>15, <2>1, <2>2, <2>4 DEF Marked
<1>17. Still(s, t)
  BY <1>12, <1>15, <1>16 DEF Still, Calm
<1>18. p.data # <<>>
  BY <1>7, <1>9
<1> QED
  BY <1>12, <1>13, <1>15, <1>17, <1>18 DEF Spoke

LEMMA TransmitStill ==
  ASSUME NEW s, IsTcp(s), SndInv(s), NEW i \in 1..Len(s.slist), s.room > 0,
         NEW t, t = Transmit(s, i)
  PROVE  Spoke(s, t) /\ (s.slist[i].xmit = 0 => t.snd_nxt > s.snd_nxt)
<1>1. PICK g : g = s.slist[i]
  OBVIOUS
<1>2. PICK want : want = Min({g.len, s.mss})
  OBVIOUS
<1>3. PICK n : n = TransmitSize(s, want)
  OBVIOUS
<1>4. g.len \in Nat /\ g.len > 0 /\ s.snd_nxt \in Nat
  <2>1. s.slist \in Seq(SSegment) /\ s.slist[i].len > 0
    BY DEF IsTcp, SndInv, Listed
  <2> QED
    BY <1>1, <2>1, SegmentTypes, Numbers
<1>5. n \in Nat /\ 0 < n /\ n <= g.len
  BY <1>2, <1>3, <1>4, SizeIs
<1>6. t = TransmitBytes(s, i, g, n)
  BY <1>1, <1>2, <1>3 DEF Transmit
<1>7. Spoke(s, t) /\ t.snd_nxt = IF g.xmit = 0 THEN s.snd_nxt + n ELSE s.snd_nxt
  BY <1>1, <1>5, <1>6, TransmitBytesStill
<1> QED
  BY <1>1, <1>4, <1>5, <1>7

\* Bytes wait only behind others, or for the window.
Drained(s) == s.sbuf # <<>> => s.snd_una < s.snd_nxt \/ s.snd_wnd = 0

LEMMA DrainedLater ==
  ASSUME NEW s, NEW t, IsTcp(s), IsTcp(t), Still(s, t), s.snd_nxt <= t.snd_nxt, Drained(s)
  PROVE  Drained(t)
<1>1. s.snd_una \in Nat /\ s.snd_nxt \in Nat /\ t.snd_nxt \in Nat
  BY Numbers
<1>2. t.sbuf = s.sbuf /\ t.snd_una = s.snd_una /\ t.snd_wnd = s.snd_wnd
  BY DEF Still
<1> QED
  BY <1>1, <1>2 DEF Drained

\* An endpoint that is not drained may send.
LEMMA SendableSome ==
  ASSUME NEW s, IsTcp(s), SndInv(s), ~Drained(s), NEW n, n = Sendable(s)
  PROVE  n > 0 /\ ~HeldBack(s, n)
<1>1. PICK una \in Nat, nxt \in Nat, wnd \in Nat, len \in Nat, mss \in Nat, cwnd \in Nat :
        /\ una = s.snd_una /\ nxt = s.snd_nxt /\ wnd = s.snd_wnd /\ len = Len(s.sbuf)
        /\ mss = s.mss /\ cwnd = s.cwnd
  BY Numbers DEF IsTcp
<1>2. una = nxt /\ wnd > 0 /\ len > 0 /\ mss > 0 /\ cwnd > 0
  <2>1. s.sbuf # <<>> /\ ~(s.snd_una < s.snd_nxt) /\ s.snd_wnd # 0
    BY DEF Drained
  <2>2. s.snd_una <= s.snd_nxt /\ s.cwnd > 0
    BY DEF SndInv
  <2>3. s.sbuf \in Seq(Nat) /\ s.mss > 0
    BY Numbers
  <2>4. Len(s.sbuf) # 0
    BY <2>1, <2>3
  <2> QED
    BY <1>1, <2>1, <2>2, <2>3, <2>4
<1>3. PICK c : c = s.cwnd + IF s.dup_acks \in {1, 2} THEN s.dup_acks * s.mss ELSE 0
  OBVIOUS
<1>4. c \in Nat /\ c > 0
  <2>1. CASE s.dup_acks = 1
    BY <1>1, <1>2, <1>3, <2>1
  <2>2. CASE s.dup_acks = 2
    <3>1. c = cwnd + 2 * mss
      BY <1>1, <1>3, <2>2
    <3> QED
      BY <1>2, <3>1
  <2>3. CASE s.dup_acks \notin {1, 2}
    BY <1>1, <1>2, <1>3, <2>3
  <2> QED
    BY <2>1, <2>2, <2>3
<1>5. PICK window : window = Min({wnd, c})
  OBVIOUS
<1>6. window \in Nat /\ window > 0
  BY <1>2, <1>4, <1>5, OfTwo
<1>7. PICK useable : useable = Max({window - (nxt - una), 0})
  OBVIOUS
<1>8. useable = window
  <2>1. window - (nxt - una) \in Int /\ 0 \in Int /\ window - (nxt - una) = window
    BY <1>2, <1>6
  <2>2. useable = IF window - (nxt - una) <= 0 THEN 0 ELSE window - (nxt - una)
    BY <1>7, <2>1, OfTwo, Zenon
  <2> QED
    BY <1>6, <2>1, <2>2
<1>9. PICK ready : ready = Min({len - (nxt - una), mss})
  OBVIOUS
<1>10. ready \in Nat /\ ready > 0
  BY <1>2, <1>9, OfTwo
<1>11. n = IF ready <= useable THEN ready
           ELSE IF useable * 4 < window THEN 0 ELSE useable
  BY <1>1, <1>3, <1>5, <1>7, <1>9 DEF Sendable, InFlight
<1>12. n > 0
  BY <1>6, <1>8, <1>10, <1>11
<1>13. ~HeldBack(s, n)
  BY <1>1, <1>2 DEF HeldBack
<1> QED
  BY <1>12, <1>13

LEMMA CutFirstStill ==
  ASSUME NEW s, IsTcp(s), SndInv(s), s.snd_nxt < s.snd_una + Len(s.sbuf), NEW n \in Nat, 0 < n,
         NEW t, t = CutFirst(s, n)
  PROVE  Still(s, t) /\ t.t_ack = s.t_ack /\ t.out = s.out /\ t.snd_nxt = s.snd_nxt
<1>1. PICK L, a, b, nxt :
        /\ L = s.slist /\ a = s.snd_una /\ b = s.snd_una + Len(s.sbuf) /\ nxt = s.snd_nxt
  OBVIOUS
<1>2. /\ L \in Seq(SSegment) /\ a \in Nat /\ b \in Nat /\ nxt \in Nat
      /\ a <= nxt /\ nxt < b /\ Listed(L, a, b, nxt)
  <2>1. s.snd_una \in Nat /\ s.snd_nxt \in Nat /\ s.snd_una + Len(s.sbuf) \in Nat
    BY Numbers
  <2> QED
    BY <1>1, <2>1 DEF SndInv, IsTcp
<1>3. Unsent(s) \in 1..Len(L)
  BY <1>1, <1>2, FirstUnsent
<1>4. PICK C : C = CutSegment(L, Unsent(s), n)
  OBVIOUS
<1>5. Marks(L) => Marks(C)
  BY <1>2, <1>3, <1>4, CutMarks
<1>6. t = [s EXCEPT !.slist = C]
  BY <1>1, <1>4 DEF CutFirst
<1>7. /\ Calm(s, t) /\ t.snd_una = s.snd_una /\ t.snd_wnd = s.snd_wnd /\ t.sbuf = s.sbuf
      /\ t.slist = C /\ t.out = s.out /\ t.t_ack = s.t_ack /\ t.snd_nxt = s.snd_nxt
  BY <1>6 DEF Calm, IsTcp, Fields
<1>8. Marked(s) => Marked(t)
  BY <1>1, <1>5, <1>7 DEF Marked
<1> QED
  BY <1>7, <1>8 DEF Still

LEMMA SendAckOnlyStill ==
  ASSUME NEW s, DOMAIN s = Fields, NEW flags
  PROVE  /\ Still(s, SendAckOnly(s, flags))
         /\ flags = "none" \/ (flags = "delayed" /\ s.t_ack = FALSE) => SendAckOnly(s, flags).out = s.out
<1>1. CASE flags = "none"
  <2>1. SendAckOnly(s, flags) = s
    BY <1>1 DEF SendAckOnly
  <2> QED
    BY <2>1, StillSelf
<1>2. CASE flags # "none" /\ (flags = "immediate" \/ s.t_ack)
  <2>1. SendAckOnly(s, flags) = Packet(s, s.snd_nxt, FALSE, <<>>)
    BY <1>2 DEF SendAckOnly
  <2> QED
    BY <1>2, <2>1, PacketStill
<1>3. CASE flags # "none" /\ ~(flags = "immediate" \/ s.t_ack)
  <2>1. PICK t : t = [s EXCEPT !.t_ack = TRUE]
    OBVIOUS
  <2>2. SendAckOnly(s, flags) = t
    BY <1>3, <2>1, Zenon DEF SendAckOnly
  <2>3. Beside(s, t) /\ t.out = s.out
    BY <2>1 DEF Beside, Calm, Fields
  <2> QED
    BY <2>2, <2>3, BesideStill
<1> QED
  BY <1>1, <1>2, <1>3

\* A loop that writes no packet without data.
Plain(x) ==
  /\ x.run => x.flags = "none" \/ (x.flags = "delayed" /\ x.s.t_ack = FALSE)
  /\ \A p \in x.s.out : p.data # <<>>

TurnSends(x, y) ==
  /\ Still(x.s, y.s)
  /\ Plain(x) => Plain(y)
  /\ x.s.room > 0 /\ x.run => Drained(y.s)

LEMMA SendFirstStill ==
  ASSUME NEW x, IsTurn(x), NEW s, IsTcp(s), SndInv(s), NEW i \in 1..Len(s.slist),
         s.slist[i].xmit = 0, NEW y, y = SendFirst(x, s, i)
  PROVE  /\ IsTurn(y) /\ Still(s, y.s)
         /\ MayTransmit(s, i) => y.s.snd_nxt > s.snd_nxt
         /\ (\A p \in s.out : p.data # <<>>) => Plain(y)
         /\ s.room > 0 => MayTransmit(s, i)
<1>1. CASE MayTransmit(s, i)
  <2>1. PICK t : t = Transmit(s, i)
    OBVIOUS
  <2>2. s.room > 0
    BY <1>1 DEF MayTransmit
  <2>3. Spoke(s, t) /\ t.snd_nxt > s.snd_nxt
    BY <2>1, <2>2, TransmitStill
  <2>4. y = [x EXCEPT !.s = t, !.flags = "none"]
    BY <1>1, <2>1 DEF SendFirst
  <2>5. IsTurn(y) /\ y.s = t /\ y.flags = "none"
    BY <2>4 DEF IsTurn
  <2>6. (\A p \in s.out : p.data # <<>>) => \A p \in t.out : p.data # <<>>
    BY <2>3 DEF Spoke
  <2>7. Still(s, t)
    BY <2>3 DEF Spoke
  <2> QED
    BY <1>1, <2>3, <2>5, <2>6, <2>7 DEF Plain
<1>2. CASE ~MayTransmit(s, i)
  <2>1. y = [x EXCEPT !.s = s, !.run = FALSE]
    BY <1>2 DEF SendFirst
  <2>2. IsTurn(y) /\ y.s = s /\ y.run = FALSE
    BY <2>1 DEF IsTurn
  <2>3. ~(s.room > 0)
    <3>1. XmitLimit \in Nat /\ XmitLimit > 0 /\ SynLimit \in Nat /\ SynLimit > 0
      BY PseudoTcpAssumption
    <3> QED
      BY <1>2, <3>1 DEF MayTransmit
  <2> QED
    BY <1>2, <2>2, <2>3, StillSelf DEF Plain
<1> QED
  BY <1>1, <1>2

LEMMA SendTurnStill ==
  ASSUME NEW x, IsTurn(x), NEW q, Handling(x.s, q), IsTcp(q), NEW n, n = Sendable(x.s),
         NEW y, y = SendTurn(x, n)
  PROVE  TurnSends(x, y)
<1>1. PICK s : s = x.s
  OBVIOUS
<1>2. Handling(s, q) /\ IsTcp(s) /\ SndInv(s) /\ DOMAIN s = Fields
  <2>1. Handling(s, q) /\ IsTcp(s) /\ SndInv(s)
    BY <1>1 DEF Handling
  <2> QED
    BY <2>1 DEF IsTcp
<1>3. /\ n \in Nat
      /\ n > 0 => s.snd_nxt + n <= s.snd_una + Len(s.sbuf)
  BY <1>1, <1>2, SendableIs
<1>4. CASE ~x.run
  <2>1. y = x
    BY <1>4 DEF SendTurn
  <2> QED
    BY <1>4, <2>1, StillSelf DEF TurnSends
<1>5. CASE x.run /\ n = 0
  <2>1. PICK t : t = SendAckOnly(s, x.flags)
    OBVIOUS
  <2>2. y = [x EXCEPT !.s = t, !.run = FALSE]
    BY <1>1, <1>5, <2>1 DEF SendTurn
  <2>3. y.s = t /\ y.run = FALSE
    BY <2>2 DEF IsTurn
  <2>4. /\ Still(s, t)
        /\ x.flags = "none" \/ (x.flags = "delayed" /\ s.t_ack = FALSE) => t.out = s.out
    BY <1>2, <2>1, SendAckOnlyStill
  <2>5. Drained(s)
    <3>1. ~(n > 0)
      BY <1>5
    <3> QED
      BY <1>1, <1>2, <3>1, SendableSome
  <2>6. Drained(t)
    <3>1. Keeps(s, t, q)
      BY <1>2, <2>1, SendAckOnlyKeeps
    <3> QED
      BY <1>2, <2>4, <2>5, <3>1, DrainedLater DEF Keeps, Handling, Later
  <2>7. Plain(x) => Plain(y)
    BY <1>1, <1>5, <2>3, <2>4 DEF Plain
  <2> QED
    BY <1>1, <2>3, <2>4, <2>6, <2>7 DEF TurnSends
<1>6. CASE x.run /\ n > 0 /\ HeldBack(x.s, n)
  <2>1. y = [x EXCEPT !.run = FALSE]
    BY <1>6 DEF SendTurn
  <2>2. y.s = x.s /\ y.run = FALSE
    BY <2>1 DEF IsTurn
  <2>3. Drained(s)
    BY <1>1, <1>2, <1>6, SendableSome
  <2> QED
    BY <1>1, <2>2, <2>3, StillSelf DEF TurnSends, Plain
<1>7. CASE x.run /\ n > 0 /\ ~HeldBack(x.s, n)
  <2>1. PICK i : i = Unsent(s)
    OBVIOUS
  <2>2. PICK t : t = CutFirst(s, n)
    OBVIOUS
  <2>3. y = SendFirst(x, t, i)
    BY <1>1, <1>7, <2>1, <2>2 DEF SendTurn, CutFirst
  <2>4. s.snd_nxt < s.snd_una + Len(s.sbuf) /\ 0 < n
    BY <1>2, <1>3, <1>7, Numbers
  <2>5. /\ Handling(t, q) /\ Later(s, t) /\ t.room = s.room
        /\ i \in 1..Len(t.slist) /\ t.slist[i].xmit = 0
    BY <1>2, <1>3, <2>1, <2>2, <2>4, CutUnsent
  <2>6. Still(s, t) /\ t.out = s.out
    BY <1>2, <1>3, <2>2, <2>4, CutFirstStill
  <2>7. IsTcp(t) /\ SndInv(t)
    BY <2>5 DEF Handling
  <2>8. /\ Still(t, y.s)
        /\ MayTransmit(t, i) => y.s.snd_nxt > t.snd_nxt
        /\ (\A p \in t.out : p.data # <<>>) => Plain(y)
        /\ t.room > 0 => MayTransmit(t, i)
    BY <2>3, <2>5, <2>7, SendFirstStill
  <2>9. Still(s, y.s)
    BY <2>6, <2>8, StillTrans
  <2>10. Plain(x) => Plain(y)
    BY <1>1, <2>6, <2>8 DEF Plain
  <2>11. s.room > 0 => Drained(y.s)
    <3>1. s.room > 0 => y.s.snd_nxt > t.snd_nxt
      BY <2>5, <2>8
    <3>2. t.snd_una <= t.snd_nxt /\ t.snd_una \in Nat /\ t.snd_nxt \in Nat
      BY <2>7, Numbers DEF SndInv
    <3>3. y.s.snd_una = t.snd_una
      BY <2>8 DEF Still
    <3>4. y.s.snd_nxt \in Nat
      <4>1. Keeps(s, y.s, q)
        <5>1. IsTurn(SendTurn(x, n)) /\ Keeps(x.s, SendTurn(x, n).s, q)
          BY SendTurnKeeps
        <5> QED
          BY <1>1, <5>1
      <4> QED
        BY <4>1, Numbers DEF Keeps, Handling
    <3> QED
      BY <3>1, <3>2, <3>3, <3>4 DEF Drained
  <2> QED
    BY <1>1, <2>9, <2>10, <2>11 DEF TurnSends
<1> QED
  BY <1>3, <1>4, <1>5, <1>6, <1>7

\* attemptSend(), as the parts around it see it.
LEMMA AttemptSendStill ==
  ASSUME NEW s, NEW q, Handling(s, q), IsTcp(q), NEW flags, NEW late \in BOOLEAN,
         NEW t, t = AttemptSend(s, flags, late)
  PROVE  /\ Still(s, t)
         /\ s.room > 0 => Drained(t)
         /\ /\ flags = "none" \/ (flags = "delayed" /\ s.t_ack = FALSE)
            /\ \A p \in s.out : p.data # <<>>
            => \A p \in t.out : p.data # <<>>
<1>1. PICK c : c = [s |-> IF late THEN SlowStart(s) ELSE s, flags |-> flags, run |-> TRUE]
  OBVIOUS
<1>2. PICK n : n = Len(s.sbuf) + 1
  OBVIOUS
<1>3. n \in Nat /\ n > 0
  BY <1>2, Numbers DEF Handling
<1>4. PICK f : f = CHOOSE g : Turns(n, c, g)
  OBVIOUS
<1>5. Turns(n, c, f)
  <2>1. \E g : Turns(n, c, g)
    BY <1>3, TurnsExist
  <2> QED
    BY <1>4, <2>1, Zenon
<1>6. t = f[n].s
  BY <1>1, <1>2, <1>4, Zenon DEF AttemptSend, Turns, Turn
<1>7. IsTurn(c) /\ c.run = TRUE /\ c.flags = flags /\ c.s = IF late THEN SlowStart(s) ELSE s
  BY <1>1 DEF IsTurn
<1>8. Keeps(s, c.s, q) /\ Still(s, c.s) /\ c.s.t_ack = s.t_ack /\ c.s.out = s.out
  <2>1. DOMAIN s = Fields
    BY DEF Handling, IsTcp
  <2>2. Keeps(s, SlowStart(s), q) /\ Still(s, SlowStart(s))
    BY <2>1, SlowStartKeeps, Besides
  <2>3. SlowStart(s).t_ack = s.t_ack /\ SlowStart(s).out = s.out
    BY <2>1 DEF SlowStart, Fields
  <2> QED
    BY <1>7, <2>2, <2>3, KeepsSelf, StillSelf
<1> DEFINE Fine(k) == /\ IsTurn(f[k]) /\ Keeps(s, f[k].s, q) /\ Still(s, f[k].s)
                      /\ k > 0 /\ s.room > 0 => Drained(f[k].s)
                      /\ Plain(c) => Plain(f[k])
<1>9. \A k \in 0..n : Fine(k)
  <2> DEFINE bad == {k \in 0..n : ~Fine(k)}
  <2>1. SUFFICES ASSUME bad # {} PROVE FALSE
    OBVIOUS
  <2>2. PICK k \in bad : \A j \in bad : k <= j
    <3>1. bad \subseteq Nat
      BY <1>3
    <3> HIDE DEF bad
    <3> QED
      BY <2>1, <3>1, LeastNat
  <2>3. k \in 0..n /\ ~Fine(k)
    BY <2>2
  <2>4. f[k] = IF k = 0 THEN c ELSE Turn(f[k - 1])
    BY <1>5, <2>3, Zenon DEF Turns
  <2>5. k # 0
    <3>1. ASSUME k = 0 PROVE FALSE
      <4>1. f[k] = c
        BY <2>4, <3>1
      <4>2. ~(k > 0)
        BY <3>1
      <4> QED
        BY <1>7, <1>8, <2>3, <4>1, <4>2
    <3> QED
      BY <3>1
  <2>6. k - 1 \in 0..n /\ k - 1 \notin bad
    BY <1>3, <2>2, <2>3, <2>5
  <2>7. PICK x : x = f[k - 1]
    OBVIOUS
  <2>8. /\ IsTurn(x) /\ Keeps(s, x.s, q) /\ Still(s, x.s) /\ f[k] = Turn(x)
        /\ k - 1 > 0 /\ s.room > 0 => Drained(x.s)
        /\ Plain(c) => Plain(x)
    BY <2>4, <2>5, <2>6, <2>7
  <2>9. PICK y : y = Turn(x)
    OBVIOUS
  <2>10. IsTurn(y) /\ Keeps(x.s, y.s, q)
    BY <2>8, <2>9, SendTurnKeeps, Zenon DEF Turn, Keeps
  <2>11. TurnSends(x, y)
    BY <2>8, <2>9, SendTurnStill DEF Turn, Keeps
  <2>12. Keeps(s, y.s, q) /\ Still(s, y.s)
    BY <2>8, <2>10, <2>11, KeepsTrans, StillTrans DEF TurnSends
  <2>13. s.room > 0 => Drained(y.s)
    <3>1. CASE k = 1
      <4>1. x = c
        <5>1. k - 1 = 0 /\ 0 \in 0..n
          BY <1>3, <3>1
        <5>2. f[0] = c
          BY <1>5, <5>1, Zenon DEF Turns
        <5> QED
          BY <2>7, <5>1, <5>2
      <4>2. x.run /\ x.s.room = s.room
        BY <1>7, <1>8, <4>1 DEF Keeps, Later
      <4> QED
        BY <2>11, <4>2 DEF TurnSends
    <3>2. CASE k # 1
      <4>1. k - 1 > 0
        BY <2>3, <2>5, <3>2
      <4>2. Still(x.s, y.s) /\ x.s.snd_nxt <= y.s.snd_nxt /\ IsTcp(x.s) /\ IsTcp(y.s)
        BY <2>8, <2>10, <2>11 DEF TurnSends, Keeps, Handling, Later
      <4> QED
        BY <2>8, <4>1, <4>2, DrainedLater
    <3> QED
      BY <3>1, <3>2
  <2>14. Plain(c) => Plain(y)
    BY <2>8, <2>11 DEF TurnSends
  <2> QED
    BY <2>3, <2>8, <2>9, <2>10, <2>12, <2>13, <2>14
<1>10. Fine(n)
  BY <1>3, <1>9
<1>11. Still(s, t) /\ (s.room > 0 => Drained(t))
  BY <1>3, <1>6, <1>10
<1>12. ASSUME flags = "none" \/ (flags = "delayed" /\ s.t_ack = FALSE), \A p \in s.out : p.data # <<>>
       PROVE  \A p \in t.out : p.data # <<>>
  <2>1. Plain(c)
    BY <1>7, <1>8, <1>12 DEF Plain
  <2> QED
    BY <1>6, <1>10, <2>1 DEF Plain
<1> QED
  BY <1>11, <1>12

----------------------------------------------------------------------------
(* The bytes through process()                                             *)

LEMMA TransmitFirstStill ==
  ASSUME NEW s, NEW q, Handling(s, q), IsTcp(q), s.snd_una < s.snd_nxt, MayTransmit(s, 1)
  PROVE  Still(s, Transmit(s, 1)) /\ DOMAIN Transmit(s, 1) = Fields
<1>1. IsTcp(s) /\ SndInv(s)
  BY DEF Handling
<1>2. PICK L, a, b, nxt :
        /\ L = s.slist /\ a = s.snd_una /\ b = s.snd_una + Len(s.sbuf) /\ nxt = s.snd_nxt
  OBVIOUS
<1>3. /\ L \in Seq(SSegment) /\ a \in Nat /\ b \in Nat /\ nxt \in Nat
      /\ a < nxt /\ nxt <= b /\ Listed(L, a, b, nxt)
  <2>1. s.snd_una \in Nat /\ s.snd_nxt \in Nat /\ s.snd_una + Len(s.sbuf) \in Nat
    BY <1>1, Numbers
  <2> QED
    BY <1>1, <1>2, <2>1 DEF SndInv, IsTcp
<1>4. 1 \in 1..Len(L)
  BY <1>3, FirstSent
<1>5. s.room > 0
  BY DEF MayTransmit
<1>6. Spoke(s, Transmit(s, 1))
  BY <1>1, <1>2, <1>4, <1>5, TransmitStill
<1>7. Keeps(s, Transmit(s, 1), q)
  BY TransmitFirst
<1> QED
  BY <1>6, <1>7 DEF Spoke, Keeps, Handling, IsTcp

LEMMA ProcessNewAckStill ==
  ASSUME NEW s, NEW q, Handling(s, q), IsTcp(q), NEW p \in Segment, NEW n \in Nat,
         p.ack = s.snd_una
  PROVE  Still(s, ProcessNewAck(s, p, n))
<1>1. IsTcp(s) /\ SndInv(s) /\ DOMAIN s = Fields
  BY DEF Handling, IsTcp
<1>2. /\ s.dup_acks \in Nat /\ p.ack \in Nat /\ s.recover \in Nat /\ s.recover <= s.snd_nxt
      /\ s.snd_nxt \in Nat
  <2>1. s.dup_acks \in 0..DupCap /\ DupCap \in Nat
    BY <1>1 DEF IsTcp, DupCap
  <2>2. s.dup_acks \in Nat
    BY <2>1
  <2>3. p.ack \in Nat /\ s.recover \in Nat /\ s.snd_nxt \in Nat
    BY <1>1 DEF IsTcp, Segment
  <2> QED
    BY <1>1, <2>2, <2>3 DEF SndInv
<1>3. CASE s.dup_acks >= 3 /\ p.ack >= s.recover
  <2>1. ~(p.ack < s.recover)
    BY <1>2, <1>3
  <2>2. ProcessNewAck(s, p, n) = EndRecovery(s)
    BY <1>3, <2>1, Zenon DEF ProcessNewAck
  <2> QED
    BY <1>1, <2>2, Besides
<1>4. CASE s.dup_acks >= 3 /\ p.ack < s.recover
  <2>1. ~(s.dup_acks >= 3 /\ p.ack >= s.recover)
    BY <1>2, <1>4
  <2>2. ProcessNewAck(s, p, n)
          = IF MayTransmit(s, 1) THEN Recovering(Transmit(s, 1), n) ELSE Closedown(s)
    BY <1>4, <2>1, Zenon DEF ProcessNewAck
  <2>3. s.snd_una < s.snd_nxt
    BY <1>2, <1>4
  <2>4. CASE MayTransmit(s, 1)
    <3>1. PICK t : t = Transmit(s, 1)
      OBVIOUS
    <3>2. Still(s, t) /\ DOMAIN t = Fields
      BY <2>3, <2>4, <3>1, TransmitFirstStill
    <3>3. Still(t, Recovering(t, n))
      BY <3>2, Besides
    <3> QED
      BY <2>2, <2>4, <3>1, <3>2, <3>3, StillTrans
  <2>5. CASE ~MayTransmit(s, 1)
    BY <1>1, <2>2, <2>5, Besides
  <2> QED
    BY <2>4, <2>5
<1>5. CASE ~(s.dup_acks >= 3)
  <2>1. ProcessNewAck(s, p, n) = Growing(s)
    BY <1>5 DEF ProcessNewAck
  <2> QED
    BY <1>1, <2>1, Besides
<1> QED
  BY <1>2, <1>3, <1>4, <1>5

LEMMA DupAckStill ==
  ASSUME NEW s, NEW q, Handling(s, q), IsTcp(q), s.snd_una < s.snd_nxt
  PROVE  Still(s, DupAck(s))
<1>1. IsTcp(s) /\ DOMAIN s = Fields
  BY DEF Handling, IsTcp
<1>2. s.dup_acks \in Nat
  <2>1. s.dup_acks \in 0..DupCap /\ DupCap \in Nat
    BY <1>1 DEF IsTcp, DupCap
  <2> QED
    BY <2>1
<1>3. CASE s.dup_acks = 3 /\ MayTransmit(s, 1)
  <2>1. PICK t : t = Transmit(s, 1)
    OBVIOUS
  <2>2. PICK u : u = Halved(t)
    OBVIOUS
  <2>3. DupAck(s) = StartRecovery(u)
    BY <1>3, <2>1, <2>2 DEF DupAck
  <2>4. Still(s, t) /\ DOMAIN t = Fields
    BY <1>3, <2>1, TransmitFirstStill
  <2>5. DOMAIN u = Fields
    BY <2>2, <2>4 DEF Halved
  <2>6. Still(t, u) /\ Still(u, StartRecovery(u))
    BY <2>2, <2>4, <2>5, Besides
  <2> QED
    BY <2>3, <2>4, <2>6, StillTrans
<1>4. CASE s.dup_acks = 3 /\ ~MayTransmit(s, 1)
  <2>1. DupAck(s) = Closedown(s)
    BY <1>4 DEF DupAck
  <2> QED
    BY <1>1, <2>1, Besides
<1>5. CASE s.dup_acks > 3
  <2>1. PICK c : c = CapCwnd(s.cwnd + s.mss)
    OBVIOUS
  <2>2. s.dup_acks # 3
    BY <1>2, <1>5
  <2>3. DupAck(s) = [s EXCEPT !.cwnd = c]
    BY <1>5, <2>1, <2>2 DEF DupAck
  <2>4. Beside(s, [s EXCEPT !.cwnd = c])
    BY <1>1, CwndBeside, Zenon
  <2> QED
    BY <2>3, <2>4, BesideStill
<1>6. CASE ~(s.dup_acks = 3) /\ ~(s.dup_acks > 3)
  <2>1. DupAck(s) = s
    BY <1>6 DEF DupAck
  <2> QED
    BY <2>1, StillSelf
<1> QED
  BY <1>3, <1>4, <1>5, <1>6

LEMMA ProcessSameAckStill ==
  ASSUME NEW s, NEW q, Handling(s, q), IsTcp(q), NEW p
  PROVE  Still(s, ProcessSameAck(s, p))
<1>1. IsTcp(s) /\ SndInv(s) /\ DOMAIN s = Fields /\ Sound(s)
  BY DEF Handling, IsTcp, Sound
<1>2. CASE p.data # <<>>
  <2>1. ProcessSameAck(s, p) = s
    BY <1>2 DEF ProcessSameAck
  <2> QED
    BY <2>1, StillSelf
<1>3. CASE p.data = <<>> /\ s.snd_una = s.snd_nxt
  <2>1. ProcessSameAck(s, p) = [s EXCEPT !.dup_acks = 0]
    BY <1>3 DEF ProcessSameAck
  <2>2. Beside(s, [s EXCEPT !.dup_acks = 0])
    BY <1>1, CwndBeside, Zenon
  <2> QED
    BY <2>1, <2>2, BesideStill
<1>4. CASE p.data = <<>> /\ ~(s.snd_una = s.snd_nxt)
  <2>1. PICK d : d = Min({s.dup_acks + 1, DupCap})
    OBVIOUS
  <2>2. d \in 0..DupCap
    <3>1. s.dup_acks \in 0..DupCap /\ DupCap \in Nat /\ DupCap > 0
      BY <1>1 DEF IsTcp, DupCap
    <3>2. s.dup_acks + 1 \in Int /\ DupCap \in Int
      BY <3>1
    <3>3. d = IF s.dup_acks + 1 <= DupCap THEN s.dup_acks + 1 ELSE DupCap
      BY <2>1, <3>2, OfTwo
    <3> QED
      BY <3>1, <3>3
  <2>3. PICK t : t = [s EXCEPT !.dup_acks = d]
    OBVIOUS
  <2>4. AsideOf(s, t)
    BY <1>1, <2>2, <2>3, DupAcksAside, Zenon
  <2>5. Keeps(s, t, q)
    BY <2>4, KeepsSelf, ThenAside
  <2>6. t.snd_una < t.snd_nxt
    <3>1. s.snd_una < s.snd_nxt
      BY <1>1, <1>4, Numbers DEF SndInv
    <3> QED
      BY <2>4, <3>1 DEF AsideOf, SameSnd
  <2>7. Still(t, DupAck(t))
    BY <2>5, <2>6, DupAckStill DEF Keeps
  <2>8. ProcessSameAck(s, p) = DupAck(t)
    BY <1>4, <2>1, <2>3, Zenon DEF ProcessSameAck
  <2>9. Still(s, t)
    <3>1. Beside(s, [s EXCEPT !.dup_acks = d])
      BY <1>1, CwndBeside, Zenon
    <3> QED
      BY <2>3, <3>1, BesideStill
  <2> QED
    BY <2>7, <2>8, <2>9, StillTrans
<1> QED
  BY <1>2, <1>3, <1>4

\* What was acknowledged leaves the buffer and the list; the rest stays as it was.
LEMMA FreeAckedMoved ==
  ASSUME NEW s, NEW q, Handling(s, q), IsTcp(q), NEW p \in Segment, Good(q, p, s),
         s.snd_una < p.ack, p.ack <= s.snd_nxt
  PROVE  Moved(s, FreeAcked(s, p))
<1>1. IsTcp(s) /\ SndInv(s)
  BY DEF Handling
<1>2. PICK L, a, b, nxt, m, len :
        /\ L = s.slist /\ a = s.snd_una /\ b = s.snd_una + Len(s.sbuf) /\ nxt = s.snd_nxt
        /\ m = p.ack /\ len = Len(s.sbuf)
  OBVIOUS
<1>3. /\ L \in Seq(SSegment) /\ a \in Nat /\ b \in Nat /\ nxt \in Nat /\ m \in Nat /\ len \in Nat
      /\ a < m /\ m <= nxt /\ nxt <= b /\ b = a + len /\ Listed(L, a, b, nxt)
      /\ s.sbuf \in Seq(Nat)
  <2>1. /\ s.snd_una \in Nat /\ s.snd_nxt \in Nat /\ s.snd_una + Len(s.sbuf) \in Nat
        /\ Len(s.sbuf) \in Nat /\ p.ack \in Nat /\ s.sbuf \in Seq(Nat)
    BY <1>1, Numbers DEF Segment
  <2> QED
    BY <1>1, <1>2, <2>1 DEF SndInv, IsTcp
<1>4. PICK i \in 1..Len(L) : SegEnd(L[i]) = m
  <2>1. m <= a \/ EndsAt(L, m)
    BY <1>2 DEF Good, Bound
  <2> QED
    BY <1>3, <2>1 DEF EndsAt
<1>5. PICK M, c, k : M = Unacked(L, m - a) /\ c = SubSeq(s.sbuf, (m - a) + 1, len) /\ k = m - a
  OBVIOUS
<1>6. M = SubSeq(L, i + 1, Len(L))
  BY <1>3, <1>4, <1>5, UnackedIs
<1>7. k \in Nat /\ k <= len /\ len - k \in Nat
  BY <1>3, <1>5
<1>8. Len(c) = len - k /\ \A j \in 1..(len - k) : c[j] = s.sbuf[k + j]
  <2>1. PICK d \in Nat : d = len - k
    BY <1>7
  <2>2. k + d = len /\ k + d <= Len(s.sbuf)
    BY <1>2, <1>3, <1>7, <2>1
  <2>3. c = SubSeq(s.sbuf, k + 1, k + d)
    BY <1>5, <2>2
  <2> QED
    BY <1>3, <1>7, <2>1, <2>2, <2>3, Piece, PieceElements
<1>9. PICK w, r, t : t = [s EXCEPT !.snd_wnd = w, !.snd_una = m, !.rto = r, !.sbuf = c, !.slist = M]
                     /\ FreeAcked(s, p) = t
  <2>1. FreeAcked(s, p) = [s EXCEPT !.snd_wnd = p.wnd * s.unit, !.snd_una = p.ack,
               !.rto = (p.ack # s.snd_nxt),
               !.sbuf = SubSeq(s.sbuf, (p.ack - s.snd_una) + 1, Len(s.sbuf)),
               !.slist = Unacked(s.slist, p.ack - s.snd_una)]
    BY <1>1 DEF FreeAcked, IsTcp, Fields
  <2> QED
    BY <1>2, <1>5, <2>1, Zenon
<1>10. Calm(s, t) /\ t.snd_una = m /\ t.slist = M /\ t.sbuf = c /\ t.out = s.out
  BY <1>1, <1>9 DEF IsTcp, Fields, Calm
<1>11. Total(t) = Total(s)
  <2>1. Total(t) = m + Len(c) /\ Total(s) = a + len
    BY <1>2, <1>10 DEF Total
  <2>2. m + (len - k) = a + len
    BY <1>3, <1>5
  <2> QED
    BY <1>8, <2>1, <2>2
<1>12. ASSUME Marked(s) PROVE Marked(t)
  <2>1. Filled(a, s.sbuf) /\ Marks(L) /\ \A h \in s.out : Stamped(h)
    BY <1>2, <1>12 DEF Marked
  <2>2. Filled(m, c)
    <3> SUFFICES ASSUME NEW j \in 1..Len(c) PROVE c[j] = m + j - 1
      BY DEF Filled
    <3>1. j \in Nat /\ 1 <= j /\ j <= len - k
      BY <1>7, <1>8
    <3>2. k + j \in 1..len /\ a + (k + j) - 1 = m + j - 1
      BY <1>3, <1>5, <1>7, <3>1
    <3>3. s.sbuf[k + j] = a + (k + j) - 1
      BY <1>2, <2>1, <3>2 DEF Filled
    <3>4. c[j] = s.sbuf[k + j]
      BY <1>8
    <3> QED
      BY <3>2, <3>3, <3>4
  <2>3. Marks(M)
    <3>1. Len(L) \in Nat /\ i \in Nat /\ 1 <= i /\ i <= Len(L)
      BY <1>3, SegmentTypes
    <3>2. /\ Len(M) = Len(L) - i
          /\ \A j \in 1..(Len(L) - i) : M[j] = L[i + j]
      BY <1>3, <1>6, <3>1
    <3> SUFFICES ASSUME NEW j \in 1..Len(M)
                 PROVE  /\ M[j].ctl => M[j].seq = 0 /\ M[j].len = 1
                        /\ ~M[j].ctl => M[j].seq > 0
      BY DEF Marks
    <3>3. i + j \in 1..Len(L) /\ M[j] = L[i + j]
      BY <3>1, <3>2
    <3> QED
      BY <2>1, <3>3 DEF Marks
  <2> QED
    BY <1>10, <2>1, <2>2, <2>3 DEF Marked
<1>13. Moved(s, t)
  BY <1>10, <1>11, <1>12 DEF Moved
<1> QED
  BY <1>9, <1>13

LEMMA SetWindowMoved ==
  ASSUME NEW s, DOMAIN s = Fields, NEW w
  PROVE  Moved(s, [s EXCEPT !.snd_wnd = w])
<1>1. PICK t : t = [s EXCEPT !.snd_wnd = w]
  OBVIOUS
<1>2. /\ Calm(s, t) /\ t.snd_una = s.snd_una /\ t.sbuf = s.sbuf /\ t.slist = s.slist
      /\ t.out = s.out
  BY <1>1 DEF Fields, Calm
<1>3. Moved(s, t)
  BY <1>2 DEF Moved, Total, Marked
<1> QED
  BY <1>1, <1>3, Zenon

LEMMA ProcessAckMoved ==
  ASSUME NEW s, NEW q, Handling(s, q), IsTcp(q), NEW p \in Segment, Good(q, p, s)
  PROVE  Moved(s, ProcessAck(s, p))
<1>1. /\ IsTcp(s) /\ DOMAIN s = Fields /\ s.snd_una \in Nat /\ s.snd_nxt \in Nat
      /\ p.ack \in Nat
  <2>1. IsTcp(s) /\ p.ack \in Nat
    BY DEF Handling, Segment
  <2> QED
    BY <2>1, Numbers DEF IsTcp
<1>2. CASE s.snd_una < p.ack /\ p.ack <= s.snd_nxt
  <2>1. PICK t : t = FreeAcked(s, p)
    OBVIOUS
  <2>2. ProcessAck(s, p) = ProcessNewAck(t, p, p.ack - s.snd_una)
    <3>1. ~(p.ack = s.snd_una)
      BY <1>1, <1>2
    <3> QED
      BY <1>2, <2>1, <3>1, Zenon DEF ProcessAck
  <2>3. Keeps(s, t, q) /\ t.snd_una = p.ack
    BY <1>2, <2>1, FreeAckedKeeps
  <2>4. Moved(s, t)
    BY <1>2, <2>1, FreeAckedMoved
  <2>5. p.ack - s.snd_una \in Nat
    BY <1>1, <1>2
  <2>6. Still(t, ProcessNewAck(t, p, p.ack - s.snd_una))
    BY <2>3, <2>5, ProcessNewAckStill DEF Keeps
  <2> QED
    BY <2>2, <2>4, <2>6, StillMoved, MovedTrans
<1>3. CASE p.ack = s.snd_una
  <2>1. ~(s.snd_una < p.ack)
    BY <1>1, <1>3
  <2>2. PICK w, t : w = p.wnd * s.unit /\ t = [s EXCEPT !.snd_wnd = w]
    OBVIOUS
  <2>3. ProcessAck(s, p) = ProcessSameAck(t, p)
    BY <1>3, <2>1, <2>2, Zenon DEF ProcessAck
  <2>4. Keeps(s, t, q)
    BY <1>3, <2>2, SetWindowKeeps, Zenon
  <2>5. Moved(s, t)
    BY <1>1, <2>2, SetWindowMoved, Zenon
  <2>6. Still(t, ProcessSameAck(t, p))
    BY <2>4, ProcessSameAckStill DEF Keeps
  <2> QED
    BY <2>3, <2>5, <2>6, StillMoved, MovedTrans
<1>4. CASE ~(s.snd_una < p.ack /\ p.ack <= s.snd_nxt) /\ ~(p.ack = s.snd_una)
  <2>1. ProcessAck(s, p) = s
    BY <1>4 DEF ProcessAck
  <2> QED
    BY <2>1, StillSelf, StillMoved
<1> QED
  BY <1>2, <1>3, <1>4

----------------------------------------------------------------------------
(* What is queued                                                          *)

\* An endpoint was given n more bytes.
Given(s, t, n) ==
  /\ Calm(s, t) /\ t.state = s.state /\ t.out = s.out /\ t.t_ack = s.t_ack
  /\ Total(t) = Total(s) + n /\ Marked(t)

\* The bytes of a buffer to which some were appended.
LEMMA ConcatElements ==
  ASSUME NEW b \in Seq(Nat), NEW d \in Seq(Nat)
  PROVE  /\ b \o d \in Seq(Nat) /\ Len(b \o d) = Len(b) + Len(d)
         /\ \A i \in 1..(Len(b) + Len(d)) :
              (b \o d)[i] = IF i <= Len(b) THEN b[i] ELSE d[i - Len(b)]
  BY ConcatProperties, Zenon

LEMMA ConcatFilled ==
  ASSUME NEW a \in Nat, NEW b \in Seq(Nat), NEW d \in Seq(Nat), Filled(a, b),
         Filled(a + Len(b), d)
  PROVE  Filled(a, b \o d)
<1>1. PICK c, k, n : c = b \o d /\ k = Len(b) /\ n = Len(d)
  OBVIOUS
<1>2. /\ k \in Nat /\ n \in Nat /\ Len(c) = k + n
      /\ \A i \in 1..(k + n) : c[i] = IF i <= k THEN b[i] ELSE d[i - k]
  <2>1. Len(b) \in Nat /\ Len(d) \in Nat
    OBVIOUS
  <2> QED
    BY <1>1, <2>1, ConcatElements
<1>3. \A i \in 1..(k + n) : c[i] = a + i - 1
  <2> TAKE i \in 1..(k + n)
  <2>1. CASE i <= k
    <3>1. i \in 1..k /\ c[i] = b[i]
      BY <1>2, <2>1
    <3> QED
      BY <1>1, <3>1 DEF Filled
  <2>2. CASE ~(i <= k)
    <3>1. i - k \in 1..n /\ c[i] = d[i - k]
      BY <1>2, <2>2
    <3>2. d[i - k] = (a + k) + (i - k) - 1
      BY <1>1, <3>1 DEF Filled
    <3> QED
      BY <1>2, <3>1, <3>2
  <2> QED
    BY <2>1, <2>2
<1> QED
  BY <1>1, <1>2, <1>3 DEF Filled

\* The connect message comes first and alone; the bytes of the application follow.
LEMMA QueueGiven ==
  ASSUME NEW s, IsTcp(s), SndInv(s), Marked(s), NEW ctl \in BOOLEAN, NEW data \in Seq(Nat),
         Len(data) > 0, Filled(Total(s), data), ~ctl => Total(s) > 0,
         ctl => Total(s) = 0 /\ s.slist = <<>> /\ Len(data) = 1,
         NEW t, t = Queue(s, data, ctl)
  PROVE  /\ Given(s, t, Len(data)) /\ t.snd_una = s.snd_una /\ t.snd_nxt = s.snd_nxt
         /\ t.snd_wnd = s.snd_wnd
<1>1. PICK L, a, b, n :
        L = s.slist /\ a = s.snd_una /\ b = s.snd_una + Len(s.sbuf) /\ n = Len(data)
  OBVIOUS
<1>2. /\ L \in Seq(SSegment) /\ a \in Nat /\ b \in Nat /\ n \in Nat /\ n > 0 /\ Marks(L)
      /\ b = Total(s) /\ s.sbuf \in Seq(Nat) /\ Len(s.sbuf) \in Nat /\ Filled(a, s.sbuf)
      /\ Len(L) \in Nat
  <2>1. /\ s.snd_una \in Nat /\ Len(s.sbuf) \in Nat /\ s.sbuf \in Seq(Nat)
        /\ s.slist \in Seq(SSegment) /\ s.snd_una + Len(s.sbuf) \in Nat
    BY Numbers
  <2>2. Len(data) \in Nat
    OBVIOUS
  <2> QED
    BY <1>1, <2>1, <2>2, SegmentTypes DEF Total, Marked
<1>3. PICK M, c : M = Queued(s, n, ctl) /\ c = s.sbuf \o data
  OBVIOUS
<1>4. PICK u : u = [s EXCEPT !.slist = M, !.sbuf = c]
  OBVIOUS
<1>5. t = u
  BY <1>1, <1>3, <1>4, QueueIs, Zenon
<1>6. /\ Calm(s, u) /\ u.state = s.state /\ u.out = s.out /\ u.t_ack = s.t_ack
      /\ u.snd_una = a /\ u.slist = M /\ u.sbuf = c /\ u.snd_nxt = s.snd_nxt
      /\ u.snd_wnd = s.snd_wnd
  BY <1>1, <1>4 DEF IsTcp, Fields, Calm
<1>7. Total(u) = Total(s) + n /\ Filled(a, c)
  <2>1. Len(c) = Len(s.sbuf) + n
    BY <1>1, <1>2, <1>3, ConcatElements
  <2>2. a + (Len(s.sbuf) + n) = b + n
    <3>1. PICK k \in Nat : k = Len(s.sbuf) /\ b = a + k
      BY <1>1, <1>2
    <3>2. a + (k + n) = b + n
      BY <1>2, <3>1
    <3> QED
      BY <3>1, <3>2, Zenon
  <2>3. Filled(a, c)
    <3>1. a + Len(s.sbuf) = Total(s)
      BY <1>1 DEF Total
    <3> QED
      BY <1>2, <1>3, <3>1, ConcatFilled
  <2> QED
    BY <1>2, <1>6, <2>1, <2>2, <2>3 DEF Total
<1>8. Marks(M)
  <2>1. CASE Len(L) > 0 /\ L[Len(L)].ctl = ctl /\ L[Len(L)].xmit = 0
    <3>1. M = Joined(L, n) /\ ~ctl
      <4>1. M = Joined(L, n)
        BY <1>1, <1>3, <2>1, Zenon DEF Queued
      <4>2. ~ctl
        BY <1>1, <2>1
      <4> QED
        BY <4>1, <4>2
    <3>2. PICK k \in Nat : k = Len(L) /\ k \in 1..k
      BY <1>2, <2>1
    <3>3. PICK g : g = [L[k] EXCEPT !.len = @ + n]
      OBVIOUS
    <3>4. g \in SSegment /\ g.seq = L[k].seq /\ g.ctl = L[k].ctl
      <4>1. L[k] \in SSegment /\ L[k].len + n \in Nat
        BY <1>2, <3>2, SegmentTypes, SMTT(20)
      <4> QED
        BY <3>3, <4>1 DEF SSegment
    <3>5. Len(M) = k /\ M[k] = g /\ \A j \in 1..k : j # k => M[j] = L[j]
      BY <1>2, <3>1, <3>2, <3>3, <3>4 DEF Joined
    <3>6. ~g.ctl /\ g.seq > 0
      <4>1. ~L[k].ctl
        BY <2>1, <3>1, <3>2
      <4>2. L[k].seq > 0
        BY <1>2, <3>2, <4>1 DEF Marks
      <4> QED
        BY <3>4, <4>1, <4>2
    <3> SUFFICES ASSUME NEW j \in 1..k
                 PROVE  /\ M[j].ctl => M[j].seq = 0 /\ M[j].len = 1
                        /\ ~M[j].ctl => M[j].seq > 0
      BY <3>5 DEF Marks
    <3>7. CASE j = k
      BY <3>5, <3>6, <3>7
    <3>8. CASE j # k
      BY <1>2, <3>2, <3>5, <3>8 DEF Marks
    <3> QED
      BY <3>7, <3>8
  <2>2. CASE ~(Len(L) > 0 /\ L[Len(L)].ctl = ctl /\ L[Len(L)].xmit = 0)
    <3>1. PICK g : g = [seq |-> b, len |-> n, xmit |-> 0, ctl |-> ctl]
      OBVIOUS
    <3>2. M = Append(L, g)
      BY <1>1, <1>3, <2>2, <3>1, Zenon DEF Queued
    <3>3. g \in SSegment /\ g.seq = b /\ g.len = n /\ g.ctl = ctl
      BY <1>2, <3>1 DEF SSegment
    <3>4. Len(M) = Len(L) + 1 /\ M[Len(L) + 1] = g /\ \A j \in 1..Len(L) : M[j] = L[j]
      BY <1>2, <3>2, <3>3
    <3>5. (g.ctl => g.seq = 0 /\ g.len = 1) /\ (~g.ctl => g.seq > 0)
      BY <1>1, <1>2, <3>3
    <3> SUFFICES ASSUME NEW j \in 1..(Len(L) + 1)
                 PROVE  /\ M[j].ctl => M[j].seq = 0 /\ M[j].len = 1
                        /\ ~M[j].ctl => M[j].seq > 0
      BY <3>4 DEF Marks
    <3>6. CASE j = Len(L) + 1
      BY <3>4, <3>5, <3>6
    <3>7. CASE j # Len(L) + 1
      <4>1. j \in 1..Len(L)
        BY <1>2, <3>7
      <4> QED
        BY <1>2, <3>4, <4>1 DEF Marks
    <3> QED
      BY <3>6, <3>7
  <2> QED
    BY <2>1, <2>2
<1>9. Marked(u)
  BY <1>6, <1>7, <1>8 DEF Marked
<1>10. Given(s, u, n)
  BY <1>6, <1>7, <1>9 DEF Given
<1> QED
  BY <1>1, <1>5, <1>6, <1>10

LEMMA QueueConnectGiven ==
  ASSUME NEW s, IsTcp(s), SndInv(s), Marked(s), s.snd_nxt = 0, s.sbuf = <<>>,
         NEW t, t = QueueConnect(s)
  PROVE  Given(s, t, 1) /\ Total(s) = 0 /\ Total(t) = 1 /\ t.snd_nxt = 0
<1>1. s.snd_una = 0 /\ Total(s) = 0
  <2>1. s.snd_una = 0
    BY Numbers DEF SndInv
  <2> QED
    BY <2>1 DEF Total
<1>2. s.slist = <<>>
  <2>1. PICK L : L = s.slist
    OBVIOUS
  <2>2. L \in Seq(SSegment) /\ Listed(L, 0, 0, 0) /\ Len(L) \in Nat
    <3>1. s.snd_una + Len(s.sbuf) = 0
      BY <1>1
    <3> QED
      BY <1>1, <2>1, <3>1, SegmentTypes DEF SndInv, IsTcp
  <2>3. ASSUME L # <<>> PROVE FALSE
    <3>1. 1 \in 1..Len(L)
      BY <2>2, <2>3
    <3>2. 0 <= L[1].seq /\ SegEnd(L[1]) <= 0 /\ L[1].seq < SegEnd(L[1])
      BY <2>2, <3>1, Within
    <3>3. L[1].seq \in Nat /\ SegEnd(L[1]) \in Nat
      BY <2>2, <3>1, SegmentTypes
    <3> QED
      BY <3>2, <3>3
  <2> QED
    BY <2>1, <2>3
<1>3. PICK u : u = [s EXCEPT !.snd_wnd = 1]
  OBVIOUS
<1>4. IsTcp(u)
  <2>1. 1 \in 0..RcvBufLen
    BY Constants
  <2> QED
    BY <1>3, <2>1 DEF IsTcp, Fields
<1>5. /\ Calm(s, u) /\ u.state = s.state /\ u.out = s.out /\ u.t_ack = s.t_ack
      /\ u.snd_una = s.snd_una /\ u.slist = s.slist /\ u.sbuf = s.sbuf /\ u.snd_nxt = s.snd_nxt
      /\ u.snd_wnd = 1 /\ u.cwnd = s.cwnd /\ u.ssthresh = s.ssthresh /\ u.rto = s.rto
      /\ u.recover = s.recover
  BY <1>3 DEF IsTcp, Fields, Calm
<1>6. SndInv(u)
  <2>1. u.snd_wnd > 0
    BY <1>5
  <2> QED
    BY <1>5, <2>1 DEF SndInv
<1>7. Marked(u) /\ Total(u) = 0
  BY <1>1, <1>5 DEF Marked, Total
<1>8. PICK data : data = [i \in 1..1 |-> 0]
  OBVIOUS
<1>9. data \in Seq(Nat) /\ Len(data) = 1 /\ data[1] = 0
  BY <1>8
<1>10. Filled(Total(u), data)
  <2>1. \A i \in 1..1 : data[i] = 0 + i - 1
    BY <1>8
  <2> QED
    BY <1>7, <1>9, <2>1 DEF Filled
<1>11. t = Queue(u, data, TRUE)
  BY <1>3, <1>8 DEF QueueConnect, CtrlLen
<1>12. Given(u, t, Len(data)) /\ t.snd_nxt = u.snd_nxt
  <2>1. TRUE \in BOOLEAN /\ Len(data) > 0 /\ u.slist = <<>>
    BY <1>2, <1>5, <1>9
  <2> QED
    BY <1>4, <1>6, <1>7, <1>9, <1>10, <1>11, <2>1, QueueGiven
<1>13. Given(s, t, 1) /\ t.snd_nxt = 0
  BY <1>1, <1>5, <1>7, <1>9, <1>12 DEF Given, Calm
<1> QED
  BY <1>1, <1>13 DEF Given

\* The receiver's half and the callbacks, whatever became of the connection.
Kept(s, t) ==
  /\ t.shutdown = s.shutdown /\ t.readEnable = s.readEnable /\ t.writeEnable = s.writeEnable
  /\ t.rcv_nxt = s.rcv_nxt /\ t.rlist = s.rlist /\ t.rbuf = s.rbuf /\ t.ahead = s.ahead

LEMMA CalmKept ==
  ASSUME NEW s, NEW t, Calm(s, t)
  PROVE  Kept(s, t)
  BY DEF Calm, Kept

LEMMA KeptTrans ==
  ASSUME NEW s, NEW t, NEW u, Kept(s, t), Kept(t, u)
  PROVE  Kept(s, u)
  BY DEF Kept

\* Only the state is new.
LEMMA StateIs ==
  ASSUME NEW s, DOMAIN s = Fields, NEW v, NEW t, t = [s EXCEPT !.state = v]
  PROVE  /\ DOMAIN t = Fields /\ Kept(s, t) /\ t.state = v /\ Total(t) = Total(s)
         /\ t.out = s.out /\ t.t_ack = s.t_ack /\ t.snd_nxt = s.snd_nxt /\ t.sbuf = s.sbuf
         /\ Marked(s) => Marked(t)
<1>1. /\ DOMAIN t = Fields /\ Kept(s, t) /\ t.state = v /\ t.out = s.out /\ t.t_ack = s.t_ack
      /\ t.snd_una = s.snd_una /\ t.sbuf = s.sbuf /\ t.slist = s.slist /\ t.snd_nxt = s.snd_nxt
  BY DEF Fields, Kept
<1> QED
  BY <1>1 DEF Total, Marked

LEMMA OpenIs ==
  ASSUME NEW s, DOMAIN s = Fields, NEW t, t = Open(s)
  PROVE  /\ Kept(s, t) /\ t.state = "ESTABLISHED" /\ Total(t) = Total(s) /\ t.sbuf = s.sbuf
         /\ t.out = s.out /\ t.t_ack = s.t_ack
         /\ Marked(s) => Marked(t)
<1>1. PICK u : u = [s EXCEPT !.state = "ESTABLISHED"]
  OBVIOUS
<1>2. /\ DOMAIN u = Fields /\ Kept(s, u) /\ u.state = "ESTABLISHED" /\ Total(u) = Total(s)
      /\ u.out = s.out /\ u.t_ack = s.t_ack /\ u.sbuf = s.sbuf
      /\ Marked(s) => Marked(u)
  BY <1>1, StateIs
<1>3. t = AdjustMTU(u)
  BY <1>1 DEF Open
<1>4. Still(u, t)
  BY <1>2, <1>3, Besides
<1>5. t.state = "ESTABLISHED" /\ t.out = u.out /\ t.t_ack = u.t_ack
  BY <1>2, <1>3 DEF AdjustMTU, Fields
<1>6. Moved(u, t) /\ t.sbuf = u.sbuf /\ Kept(u, t)
  BY <1>4, StillMoved, CalmKept DEF Still
<1> QED
  BY <1>2, <1>5, <1>6, KeptTrans DEF Moved

\* The connect message of the peer: the answer is queued, or the connection is open.
LEMMA ProcessControlIs ==
  ASSUME NEW s, IsTcp(s), SndInv(s), Marked(s), NEW p \in Segment,
         NEW t, t = ProcessControl(s, p)
  PROVE  /\ Kept(s, t) /\ Marked(t) /\ t.out = s.out /\ t.t_ack = s.t_ack
         /\ \/ /\ p.ctl /\ s.state = "LISTEN" /\ t.state = "SYN_RECEIVED"
               /\ Total(s) = 0 /\ Total(t) = 1
            \/ /\ Total(t) = Total(s)
               /\ t.state = s.state \/ (p.ctl /\ s.state = "SYN_SENT" /\ t.state = "ESTABLISHED")
<1>1. PICK w, c : w = WndUnit /\ c = [s EXCEPT !.unit = w]
  OBVIOUS
<1>2. DOMAIN s = Fields
  BY DEF IsTcp
<1>3. Beside(s, c)
  BY <1>1, <1>2, OtherBeside, Zenon
<1>4. /\ IsTcp(c) /\ DOMAIN c = Fields /\ c.state = s.state /\ c.t_ack = s.t_ack
      /\ SndInv(c)
  <2>1. IsTcp(c)
    BY <1>1 DEF IsTcp, Fields
  <2>2. /\ DOMAIN c = Fields /\ c.state = s.state /\ c.t_ack = s.t_ack /\ c.cwnd = s.cwnd
        /\ c.ssthresh = s.ssthresh /\ c.rto = s.rto /\ c.recover = s.recover
    BY <1>1, <1>2 DEF Fields
  <2> QED
    BY <1>3, <2>1, <2>2 DEF SndInv, Beside
<1>5. Kept(s, c) /\ Marked(c) /\ c.out = s.out /\ Total(c) = Total(s)
  <2>1. Moved(s, c) /\ Kept(s, c)
    BY <1>3, BesideStill, StillMoved, CalmKept DEF Beside
  <2> QED
    BY <1>3, <2>1 DEF Moved, Beside
<1>6. p.ctl \in BOOLEAN
  BY DEF Segment
<1>7. CASE ~p.ctl
  <2>1. t = s
    BY <1>7 DEF ProcessControl
  <2>2. Kept(s, s)
    BY DEF Kept
  <2>3. /\ Kept(s, t) /\ Marked(t) /\ t.out = s.out /\ t.t_ack = s.t_ack
        /\ Total(t) = Total(s) /\ t.state = s.state
    BY <2>1, <2>2, Zenon
  <2> QED
    BY <2>3, Zenon
<1>8. CASE p.ctl /\ s.state = "LISTEN"
  <2>1. PICK u : u = [c EXCEPT !.state = "SYN_RECEIVED"]
    OBVIOUS
  <2>2. t = QueueConnect(u)
    BY <1>1, <1>8, <2>1 DEF ProcessControl
  <2>3. /\ Kept(c, u) /\ u.state = "SYN_RECEIVED" /\ Total(u) = Total(c) /\ Marked(u)
        /\ u.out = c.out /\ u.t_ack = c.t_ack /\ u.snd_nxt = c.snd_nxt /\ u.sbuf = c.sbuf
    BY <1>4, <1>5, <2>1, StateIs
  <2>4. IsTcp(u) /\ SndInv(u)
    <3>1. AsideOf(c, u)
      BY <1>4, <2>1, StateAside DEF Sound
    <3> QED
      BY <1>4, <3>1, <2>3 DEF AsideOf, SndInv, SameSnd
  <2>5. u.snd_nxt = 0 /\ u.sbuf = <<>>
    BY <1>4, <1>8, <2>3 DEF SndInv
  <2>6. Given(u, t, 1) /\ Total(u) = 0 /\ Total(t) = 1
    BY <2>2, <2>3, <2>4, <2>5, QueueConnectGiven
  <2>7. Kept(u, t) /\ t.state = "SYN_RECEIVED" /\ t.out = u.out /\ t.t_ack = u.t_ack /\ Marked(t)
    BY <2>3, <2>6, CalmKept DEF Given
  <2>8. Kept(s, t)
    BY <1>5, <2>3, <2>7, KeptTrans
  <2> QED
    BY <1>4, <1>5, <1>8, <2>3, <2>6, <2>7, <2>8
<1>9. CASE p.ctl /\ s.state = "SYN_SENT"
  <2>1. t = Open(c)
    BY <1>1, <1>9 DEF ProcessControl
  <2>2. /\ Kept(c, t) /\ t.state = "ESTABLISHED" /\ Total(t) = Total(c) /\ t.out = c.out
        /\ t.t_ack = c.t_ack /\ Marked(t)
    BY <1>4, <1>5, <2>1, OpenIs
  <2>3. Kept(s, t)
    BY <1>5, <2>2, KeptTrans
  <2> QED
    BY <1>4, <1>5, <1>9, <2>2, <2>3
<1>10. CASE p.ctl /\ s.state \notin {"LISTEN", "SYN_SENT"}
  <2>1. t = c
    BY <1>1, <1>10 DEF ProcessControl
  <2>2. /\ Kept(s, t) /\ Marked(t) /\ t.out = s.out /\ t.t_ack = s.t_ack
        /\ Total(t) = Total(s) /\ t.state = s.state
    BY <1>4, <1>5, <2>1, Zenon
  <2> QED
    BY <2>2, Zenon
<1> QED
  BY <1>6, <1>7, <1>8, <1>9, <1>10

\* What process() does before it looks at the data.
Ready(s, p) == Writeable(Opened(s, p))

LEMMA ReadyIs ==
  ASSUME NEW s, DOMAIN s = Fields, NEW p, NEW t, t = Ready(s, p)
  PROVE  /\ t.shutdown = s.shutdown /\ t.readEnable = s.readEnable /\ t.rcv_nxt = s.rcv_nxt
         /\ t.rlist = s.rlist /\ t.rbuf = s.rbuf /\ t.ahead = s.ahead
         /\ t.writeEnable = (s.writeEnable /\ Len(s.sbuf) >= (SndBufLen + RcvBufLen) \div 2)
         /\ Total(t) = Total(s) /\ t.sbuf = s.sbuf /\ t.out = s.out /\ t.t_ack = s.t_ack
         /\ (Marked(s) => Marked(t))
         /\ t.state = IF s.state = "SYN_RECEIVED" /\ ~p.ctl THEN "ESTABLISHED" ELSE s.state
<1>1. PICK u, v : u = Opened(s, p) /\ v = (u.writeEnable /\ Len(u.sbuf) >= (SndBufLen + RcvBufLen) \div 2)
  OBVIOUS
<1>2. /\ Kept(s, u) /\ Total(u) = Total(s) /\ u.sbuf = s.sbuf /\ u.out = s.out
      /\ u.t_ack = s.t_ack /\ (Marked(s) => Marked(u))
      /\ u.state = IF s.state = "SYN_RECEIVED" /\ ~p.ctl THEN "ESTABLISHED" ELSE s.state
  <2>1. CASE s.state = "SYN_RECEIVED" /\ ~p.ctl
    <3>1. u = Open(s)
      BY <1>1, <2>1 DEF Opened
    <3> QED
      BY <2>1, <3>1, OpenIs
  <2>2. CASE ~(s.state = "SYN_RECEIVED" /\ ~p.ctl)
    <3>1. u = s
      BY <1>1, <2>2 DEF Opened
    <3>2. Kept(s, s)
      BY DEF Kept
    <3> QED
      BY <2>2, <3>1, <3>2
  <2> QED
    BY <2>1, <2>2
<1>3. DOMAIN u = Fields
  BY <1>1 DEF Opened, Open, AdjustMTU, Fields
<1>4. PICK w : w = [u EXCEPT !.writeEnable = v]
  OBVIOUS
<1>5. t = w
  BY <1>1, <1>4, Zenon DEF Ready, Writeable
<1>6. /\ w.shutdown = u.shutdown /\ w.readEnable = u.readEnable /\ w.rcv_nxt = u.rcv_nxt
      /\ w.rlist = u.rlist /\ w.rbuf = u.rbuf /\ w.ahead = u.ahead /\ w.writeEnable = v
      /\ w.snd_una = u.snd_una /\ w.sbuf = u.sbuf /\ w.slist = u.slist /\ w.out = u.out
      /\ w.t_ack = u.t_ack /\ w.state = u.state
  BY <1>3, <1>4 DEF Fields
<1>7. Total(w) = Total(u) /\ (Marked(u) => Marked(w))
  BY <1>6 DEF Total, Marked
<1>8. v = (s.writeEnable /\ Len(s.sbuf) >= (SndBufLen + RcvBufLen) \div 2)
  BY <1>1, <1>2, Zenon DEF Kept
<1> QED
  BY <1>2, <1>5, <1>6, <1>7, <1>8 DEF Kept

----------------------------------------------------------------------------
(* What the receiver's half holds                                          *)

\* The sender's half, the state and the callbacks.
SndAlone(s, t) ==
  /\ t.state = s.state /\ t.shutdown = s.shutdown /\ t.readEnable = s.readEnable
  /\ t.writeEnable = s.writeEnable /\ t.snd_una = s.snd_una /\ t.snd_nxt = s.snd_nxt
  /\ t.snd_wnd = s.snd_wnd /\ t.slist = s.slist /\ t.sbuf = s.sbuf /\ t.out = s.out
  /\ t.t_ack = s.t_ack /\ t.room = s.room

Written(a, data, offset) ==
  [i \in DOMAIN a |-> IF i - offset \in DOMAIN data THEN data[i - offset] ELSE a[i]]

Shifted(a, n) == [i \in DOMAIN a |-> IF i + n \in DOMAIN a THEN a[i + n] ELSE 0]

\* The four outcomes of SaveData: nothing is new, the data is dropped, it is
\* readable, it is saved behind a gap.
Unread(s, t) ==
  t.rcv_nxt = s.rcv_nxt /\ t.rlist = s.rlist /\ t.rbuf = s.rbuf /\ t.ahead = s.ahead

Dropped(s, t, p, seq, data) ==
  /\ data # <<>> /\ (p.ctl \/ s.shutdown # "NONE")
  /\ t.rcv_nxt = IF seq = s.rcv_nxt THEN s.rcv_nxt + Len(data) ELSE s.rcv_nxt
  /\ t.rlist = s.rlist /\ t.rbuf = s.rbuf /\ t.ahead = s.ahead

Appended(s, t, p, seq, data) ==
  LET a == Written(s.ahead, data, 0)
      nxt == Reached(s.rlist, s.rcv_nxt + Len(data))
  IN /\ data # <<>> /\ ~p.ctl /\ s.shutdown = "NONE" /\ seq = s.rcv_nxt
     /\ t.rcv_nxt = nxt /\ t.rlist = {r \in s.rlist : r.seq > nxt}
     /\ t.rbuf = s.rbuf \o SubSeq(a, 1, nxt - s.rcv_nxt)
     /\ t.ahead = Shifted(a, nxt - s.rcv_nxt)

SavedAhead(s, t, p, seq, data) ==
  /\ data # <<>> /\ ~p.ctl /\ s.shutdown = "NONE" /\ seq # s.rcv_nxt
  /\ t.rcv_nxt = s.rcv_nxt /\ t.rbuf = s.rbuf
  /\ t.rlist = s.rlist \cup {[seq |-> seq, len |-> Len(data)]}
  /\ t.ahead = Written(s.ahead, data, seq - s.rcv_nxt)

LEMMA SaveDataIs ==
  ASSUME NEW s, DOMAIN s = Fields, NEW p, p.ctl \in BOOLEAN, NEW seq, NEW data,
         NEW t, t = SaveData(s, p, seq, data)
  PROVE  /\ SndAlone(s, t)
         /\ \/ data = <<>> /\ Unread(s, t)
            \/ Dropped(s, t, p, seq, data)
            \/ Appended(s, t, p, seq, data)
            \/ SavedAhead(s, t, p, seq, data)
<1>1. CASE data = <<>>
  <2>1. t = s
    BY <1>1 DEF SaveData
  <2>2. SndAlone(s, t) /\ Unread(s, t)
    BY <2>1, Zenon DEF SndAlone, Unread
  <2> QED
    BY <1>1, <2>2, Zenon
<1>2. CASE data # <<>> /\ (p.ctl \/ s.shutdown # "NONE")
  <2>1. PICK n : n = IF seq = s.rcv_nxt THEN s.rcv_nxt + Len(data) ELSE s.rcv_nxt
    OBVIOUS
  <2>2. t = [s EXCEPT !.rcv_nxt = n]
    BY <1>2, <2>1 DEF SaveData
  <2>3. SndAlone(s, t) /\ t.rcv_nxt = n /\ t.rlist = s.rlist /\ t.rbuf = s.rbuf /\ t.ahead = s.ahead
    BY <2>2 DEF SndAlone, Fields
  <2>4. Dropped(s, t, p, seq, data)
    BY <1>2, <2>1, <2>3, Zenon DEF Dropped
  <2> QED
    BY <2>3, <2>4, Zenon
<1>3. CASE data # <<>> /\ ~p.ctl /\ s.shutdown = "NONE" /\ seq = s.rcv_nxt
  <2>1. PICK a, u : a = Written(s.ahead, data, 0) /\ u = [s EXCEPT !.ahead = a]
    OBVIOUS
  <2>2. u = WriteOffset(s, data, 0)
    BY <2>1, Zenon DEF WriteOffset, Written
  <2>3. PICK nxt, k, w : /\ nxt = Reached(s.rlist, s.rcv_nxt + Len(data))
                         /\ k = nxt - s.rcv_nxt /\ w = s.rcv_wnd - k
    OBVIOUS
  <2>4. t = Recovered(u, nxt)
    BY <1>3, <2>2, <2>3, Zenon DEF SaveData
  <2>5. DOMAIN u = Fields /\ SndAlone(s, u) /\ u.rcv_nxt = s.rcv_nxt /\ u.rlist = s.rlist
        /\ u.rbuf = s.rbuf /\ u.ahead = a /\ u.rcv_wnd = s.rcv_wnd
    BY <2>1 DEF SndAlone, Fields
  <2>6. PICK b, c, l : b = u.rbuf \o SubSeq(u.ahead, 1, k) /\ c = Shifted(u.ahead, k)
                       /\ l = {r \in u.rlist : r.seq > nxt}
    OBVIOUS
  <2>7. PICK v : v = [u EXCEPT !.rbuf = b, !.ahead = c]
    OBVIOUS
  <2>8. v = ConsumeWrite(u, k)
    BY <2>5, <2>6, <2>7 DEF ConsumeWrite, Shifted, Fields
  <2>9. DOMAIN v = Fields /\ SndAlone(u, v) /\ v.rcv_nxt = u.rcv_nxt /\ v.rlist = u.rlist
        /\ v.rbuf = b /\ v.ahead = c /\ v.rcv_wnd = u.rcv_wnd
    BY <2>5, <2>7 DEF SndAlone, Fields
  <2>10. nxt - u.rcv_nxt = k
    BY <2>3, <2>5
  <2>11. Recovered(u, nxt) = [v EXCEPT !.rcv_nxt = nxt, !.rcv_wnd = v.rcv_wnd - k,
                                       !.rlist = {r \in v.rlist : r.seq > nxt}]
    BY <2>8, <2>9, <2>10 DEF Recovered, Fields
  <2>12. t = [v EXCEPT !.rcv_nxt = nxt, !.rcv_wnd = w, !.rlist = l]
    <3>1. v.rcv_wnd - k = w /\ {r \in v.rlist : r.seq > nxt} = l
      BY <2>3, <2>5, <2>6, <2>9, Zenon
    <3> QED
      BY <2>4, <2>11, <3>1, Zenon
  <2>13. SndAlone(v, t) /\ t.rcv_nxt = nxt /\ t.rlist = l /\ t.rbuf = b /\ t.ahead = c
    BY <2>9, <2>12 DEF SndAlone, Fields
  <2>14. SndAlone(s, t)
    BY <2>5, <2>9, <2>13, Zenon DEF SndAlone
  <2>15. t.rlist = {r \in s.rlist : r.seq > nxt} /\ t.rbuf = s.rbuf \o SubSeq(a, 1, k)
         /\ t.ahead = Shifted(a, k)
    BY <2>5, <2>6, <2>13, Zenon
  <2>16. Appended(s, t, p, seq, data)
    BY <1>3, <2>1, <2>3, <2>13, <2>15, Zenon DEF Appended
  <2> QED
    BY <2>14, <2>16, Zenon
<1>4. CASE data # <<>> /\ ~p.ctl /\ s.shutdown = "NONE" /\ seq # s.rcv_nxt
  <2>1. PICK a, u : a = Written(s.ahead, data, seq - s.rcv_nxt) /\ u = [s EXCEPT !.ahead = a]
    OBVIOUS
  <2>2. u = WriteOffset(s, data, seq - s.rcv_nxt)
    BY <2>1, Zenon DEF WriteOffset, Written
  <2>3. PICK g, l : g = [seq |-> seq, len |-> Len(data)] /\ l = s.rlist \cup {g}
    OBVIOUS
  <2>4. DOMAIN u = Fields /\ SndAlone(s, u) /\ u.rcv_nxt = s.rcv_nxt /\ u.rlist = s.rlist
        /\ u.rbuf = s.rbuf /\ u.ahead = a
    BY <2>1 DEF SndAlone, Fields
  <2>5. t = [u EXCEPT !.rlist = @ \cup {g}]
    BY <1>4, <2>2, <2>3, Zenon DEF SaveData
  <2>6. t = [u EXCEPT !.rlist = l]
    BY <2>3, <2>4, <2>5
  <2>7. SndAlone(u, t) /\ t.rcv_nxt = u.rcv_nxt /\ t.rlist = l /\ t.rbuf = u.rbuf /\ t.ahead = u.ahead
    BY <2>4, <2>6 DEF SndAlone, Fields
  <2>8. SndAlone(s, t)
    BY <2>4, <2>7, Zenon DEF SndAlone
  <2>9. SavedAhead(s, t, p, seq, data)
    BY <1>4, <2>1, <2>3, <2>4, <2>7, Zenon DEF SavedAhead
  <2> QED
    BY <2>8, <2>9, Zenon
<1> QED
  BY <1>1, <1>2, <1>3, <1>4, Zenon

\* The part of a packet that SaveData is given.
LEMMA ProcessDataIs ==
  ASSUME NEW s, NEW q, Handling(s, q), IsTcp(q), NEW p \in Segment, Good(q, p, s)
  PROVE  \E seq \in Nat, data \in Seq(Nat) :
           /\ ProcessData(s, p) = SaveData(s, p, seq, data)
           /\ p.seq <= seq /\ seq + Len(data) = p.seq + Len(p.data)
           /\ s.rcv_nxt <= p.seq => seq = p.seq
           /\ data # <<>> => s.rcv_nxt <= seq /\ seq + Len(data) <= Edge(s)
           /\ \A i \in 1..Len(data) : data[i] = p.data[seq - p.seq + i]
<1>1. IsTcp(s) /\ RcvInv(s) /\ Pair(q, s)
  BY DEF Handling
<1>2. p.seq \in Nat /\ p.data \in Seq(Nat)
  BY DEF Segment
<1>3. PICK n \in Nat, seq \in Nat, len \in Nat, space \in Nat, w \in Nat :
        /\ n = s.rcv_nxt /\ seq = p.seq /\ len = Len(p.data) /\ space = RcvSpace(s)
        /\ w = s.rcv_wnd /\ w <= space
  <2>1. /\ s.rcv_nxt \in Nat /\ s.rcv_wnd \in Nat /\ Len(s.rbuf) \in Nat
        /\ s.rcv_wnd + Len(s.rbuf) <= RcvBufLen
    BY <1>1, Numbers DEF RcvInv
  <2>2. RcvSpace(s) \in Nat /\ s.rcv_wnd <= RcvSpace(s)
    BY <2>1, Constants DEF RcvSpace
  <2>3. Len(p.data) \in Nat
    BY <1>2
  <2> QED
    BY <1>2, <2>1, <2>2, <2>3
<1>4. len > 0 => seq + len <= n + w
  <2> SUFFICES ASSUME len > 0
               PROVE  seq + len <= n + w
    OBVIOUS
  <2>1. p.data # <<>>
    BY <1>3
  <2>2. seq + len <= q.snd_nxt
    BY <1>3, <2>1 DEF Good
  <2>3. q.snd_nxt \in Nat /\ q.snd_nxt <= n + w
    BY <1>1, <1>3, Numbers DEF Pair, Edge
  <2> QED
    BY <2>2, <2>3
<1>5. PICK d : d = Max({n - seq, 0})
  OBVIOUS
<1>6. d \in Nat /\ n - seq <= d /\ (n <= seq => d = 0)
  <2>1. n - seq \in Int /\ 0 \in Int
    OBVIOUS
  <2>2. d = IF n - seq <= 0 THEN 0 ELSE n - seq
    BY <1>5, <2>1, OfTwo
  <2> QED
    BY <2>1, <2>2
<1>7. PICK old : old = Min({d, len})
  OBVIOUS
<1>8. old \in Nat /\ old <= len /\ (old < len => n <= seq + old) /\ (n <= seq => old = 0)
  <2>1. old = IF d <= len THEN d ELSE len
    BY <1>6, <1>7, OfTwo
  <2> QED
    BY <1>6, <2>1
<1>9. PICK fits : fits = Max({n + space - seq, 0})
  OBVIOUS
<1>10. fits \in Nat /\ len <= fits
  <2>1. n + space - seq \in Int /\ 0 \in Int
    OBVIOUS
  <2>2. fits = IF n + space - seq <= 0 THEN 0 ELSE n + space - seq
    BY <1>9, <2>1, OfTwo
  <2>3. CASE len = 0
    BY <2>1, <2>2, <2>3
  <2>4. CASE len > 0
    <3>1. seq + len <= n + w /\ w <= space
      BY <1>3, <1>4, <2>4, Zenon
    <3>2. len <= n + space - seq
      BY <3>1
    <3> QED
      BY <2>2, <2>4, <3>2
  <2> QED
    BY <2>3, <2>4
<1>11. Min({len, fits}) = len
  BY <1>10, OfTwo
<1>12. PICK data : data = SubSeq(p.data, old + 1, len)
  OBVIOUS
<1>13. data \in Seq(Nat) /\ Len(data) = len - old
  BY <1>2, <1>3, <1>8, <1>12, Remainder
<1>14. ProcessData(s, p) = SaveData(s, p, seq + old, data)
  <2>1. ProcessData(s, p)
          = SaveData(s, p, p.seq + old, SubSeq(p.data, old + 1, Min({Len(p.data), fits})))
    BY <1>3, <1>5, <1>7, <1>9, Zenon DEF ProcessData
  <2> QED
    BY <1>3, <1>11, <1>12, <2>1, Zenon
<1>15. PICK at \in Nat : at = seq + old
  BY <1>8
<1>16. seq <= at /\ at + Len(data) = seq + len /\ (n <= seq => at = seq)
  BY <1>8, <1>13, <1>15
<1>17. ASSUME data # <<>>
       PROVE  n <= at /\ at + Len(data) <= n + w
  <2>1. Len(data) > 0
    BY <1>13, <1>17
  <2>2. old < len /\ len > 0
    BY <1>8, <1>13, <2>1
  <2> QED
    BY <1>4, <1>8, <1>15, <1>16, <2>2
<1>18. \A i \in 1..Len(data) : data[i] = p.data[at - seq + i]
  <2>1. PICK k \in Nat : k = len - old
    BY <1>8
  <2>2. old + k = len /\ at - seq = old
    BY <1>8, <1>15, <2>1
  <2>4. old + k <= Len(p.data)
    BY <1>2, <1>3, <2>2
  <2>3. \A i \in 1..k : SubSeq(p.data, old + 1, old + k)[i] = p.data[old + i]
    BY <1>2, <1>8, <2>4, PieceElements, Zenon
  <2> QED
    BY <1>12, <1>13, <2>1, <2>2, <2>3
<1>19. Edge(s) = n + w
  BY <1>3 DEF Edge
<1> QED
  BY <1>3, <1>13, <1>14, <1>15, <1>16, <1>17, <1>18, <1>19

\* The bytes of a buffer after data was written at the place of seq, when the
\* buffer begins at n.
Laid(w, a, seq, len, n) ==
  \A i \in 1..RcvBufLen : IF seq <= n + i - 1 /\ n + i - 1 < seq + len
                          THEN w[i] = n + i - 1 ELSE w[i] = a[i]

LEMMA WrittenIs ==
  ASSUME NEW a \in [1..RcvBufLen -> Nat], NEW data \in Seq(Nat), NEW seq \in Nat, NEW n \in Nat,
         n <= seq, Filled(seq, data), NEW offset, offset = seq - n
  PROVE  /\ Written(a, data, offset) \in [1..RcvBufLen -> Nat]
         /\ Laid(Written(a, data, offset), a, seq, Len(data), n)
<1>1. PICK w : w = Written(a, data, offset)
  OBVIOUS
<1>2. PICK len \in Nat : len = Len(data) /\ DOMAIN data = 1..len
  OBVIOUS
<1>3. \A i \in 1..RcvBufLen : w[i] = IF i - offset \in 1..len THEN data[i - offset] ELSE a[i]
  BY <1>1, <1>2 DEF Written
<1>4. DOMAIN w = 1..RcvBufLen /\ w = [i \in 1..RcvBufLen |-> w[i]]
  BY <1>1 DEF Written
<1>5. \A i \in 1..RcvBufLen : IF seq <= n + i - 1 /\ n + i - 1 < seq + len
                              THEN w[i] = n + i - 1 ELSE w[i] = a[i]
  <2> TAKE i \in 1..RcvBufLen
  <2>1. i \in Nat /\ i > 0 /\ offset \in Nat
    BY Constants
  <2>2. CASE seq <= n + i - 1 /\ n + i - 1 < seq + len
    <3>1. PICK j \in 1..len : j = i - offset
      BY <2>1, <2>2
    <3>2. w[i] = data[j] /\ data[j] = seq + j - 1
      BY <1>2, <1>3, <3>1 DEF Filled
    <3>3. seq + j - 1 = n + i - 1
      BY <2>1, <3>1
    <3> QED
      BY <2>2, <3>2, <3>3
  <2>3. CASE ~(seq <= n + i - 1 /\ n + i - 1 < seq + len)
    <3>1. ~(i - offset \in 1..len)
      BY <2>1, <2>3
    <3> QED
      BY <1>3, <2>3, <3>1
  <2> QED
    BY <2>2, <2>3
<1>6. \A i \in 1..RcvBufLen : w[i] \in Nat
  <2> TAKE i \in 1..RcvBufLen
  <2>1. n + i - 1 \in Nat /\ a[i] \in Nat
    BY Constants
  <2> QED
    BY <1>5, <2>1
<1>7. w \in [1..RcvBufLen -> Nat]
  BY <1>4, <1>6
<1>8. Laid(w, a, seq, len, n)
  BY <1>5 DEF Laid
<1> QED
  BY <1>1, <1>2, <1>7, <1>8

LEMMA ShiftedIs ==
  ASSUME NEW a \in [1..RcvBufLen -> Nat], NEW k \in Nat
  PROVE  \A i \in 1..RcvBufLen : i + k <= RcvBufLen => Shifted(a, k)[i] = a[i + k]
<1> TAKE i \in 1..RcvBufLen
<1> HAVE i + k <= RcvBufLen
<1>1. i + k \in 1..RcvBufLen
  BY Constants
<1> QED
  BY <1>1 DEF Shifted

\* Every byte that Reached passes is one of a saved segment.
LEMMA ReachedCovers ==
  ASSUME NEW R, \A r \in R : r.seq \in Nat /\ r.len \in Nat /\ SegEnd(r) \in Nat,
         NEW n \in Nat, NEW top \in Nat, n <= top, \A r \in R : SegEnd(r) <= top,
         NEW m \in Nat, n <= m, m < Reached(R, n)
  PROVE  \E r \in R : r.seq <= m /\ m < SegEnd(r)
<1> DEFINE ends == {n} \cup {SegEnd(r) : r \in R}
           last(r) == r.seq + r.len - 1
           free(k) == \A r \in R : k \notin r.seq..last(r)
           T == {k \in n..Max(ends) : free(k)}
<1>1. Reached(R, n) = Min(T)
  BY DEF Reached, SegEnd
<1>2. \A r \in R : last(r) = SegEnd(r) - 1
  BY DEF SegEnd
<1> HIDE DEF last
<1>3. ends \subseteq Nat /\ ends # {} /\ n \in ends /\ \A k \in ends : k <= top
  OBVIOUS
<1>4. Max(ends) \in ends /\ \A k \in ends : k <= Max(ends)
  <2> HIDE DEF ends
  <2> QED
    BY <1>3, MaxOf
<1>5. PICK big \in Nat : big = Max(ends) /\ n <= big
  <2> HIDE DEF ends
  <2> QED
    BY <1>3, <1>4
<1>6. \A r \in R : SegEnd(r) <= big
  <2> TAKE r \in R
  <2>1. SegEnd(r) \in ends
    OBVIOUS
  <2> QED
    BY <1>4, <1>5, <2>1
<1>7. big \in T
  <2>1. free(big)
    BY <1>2, <1>6
  <2> HIDE DEF ends, free
  <2> QED
    BY <1>5, <2>1
<1>8. T \subseteq Nat /\ T # {}
  <2> HIDE DEF ends, free
  <2> QED
    BY <1>5, <1>7
<1>9. Min(T) \in Nat /\ \A k \in T : Min(T) <= k
  <2> HIDE DEF T
  <2> QED
    BY <1>8, MinOf
<1>10. m <= big /\ m \notin T
  <2> HIDE DEF T
  <2>1. m < Min(T) /\ Min(T) <= big
    BY <1>1, <1>7, <1>9
  <2>2. \A k \in T : Min(T) <= k
    BY <1>9
  <2> QED
    BY <1>5, <1>9, <2>1, <2>2
<1>11. ~free(m)
  <2>1. m \in n..Max(ends)
    <3> HIDE DEF ends
    <3> QED
      BY <1>5, <1>10
  <2> HIDE DEF ends, free
  <2> QED
    BY <1>10, <2>1
<1>12. PICK r \in R : m \in r.seq..(SegEnd(r) - 1)
  BY <1>2, <1>11
<1> QED
  BY <1>12

\* b bytes were read, and the readable ones follow: the connect message is in
\* front of them, and what was dropped after Close behind.
RcvBooks(s, b) ==
  LET n == b + Len(s.rbuf) IN
  /\ n = 0 \/ n < s.rcv_nxt
  /\ s.shutdown = "NONE" => (n = 0 /\ s.rcv_nxt = 0) \/ n + 1 = s.rcv_nxt

LEMMA ProcessDataBooks ==
  ASSUME NEW s, NEW q, Handling(s, q), IsTcp(q), NEW p \in Segment, Good(q, p, s), Stamped(p),
         NEW b \in Nat, RcvBooks(s, b), NEW t, t = ProcessData(s, p)
  PROVE  /\ SndAlone(s, t) /\ RcvBooks(t, b) /\ Len(s.rbuf) <= Len(t.rbuf)
         /\ p.ctl => t.rcv_nxt > 0
<1>1. IsTcp(s) /\ IsTcp(t) /\ RcvInv(s) /\ DOMAIN s = Fields /\ s.rcv_nxt <= t.rcv_nxt
  BY ProcessDataKeeps DEF Keeps, Handling, IsTcp, Later
<1>2. p.ctl \in BOOLEAN /\ p.seq \in Nat /\ p.data \in Seq(Nat) /\ Len(p.data) \in Nat
  BY DEF Segment
<1>3. PICK seq \in Nat, data \in Seq(Nat) :
           /\ t = SaveData(s, p, seq, data)
           /\ p.seq <= seq /\ seq + Len(data) = p.seq + Len(p.data)
           /\ s.rcv_nxt <= p.seq => seq = p.seq
           /\ data # <<>> => s.rcv_nxt <= seq /\ seq + Len(data) <= Edge(s)
  BY ProcessDataIs
<1>4. /\ SndAlone(s, t)
      /\ \/ data = <<>> /\ Unread(s, t)
         \/ Dropped(s, t, p, seq, data)
         \/ Appended(s, t, p, seq, data)
         \/ SavedAhead(s, t, p, seq, data)
  BY <1>1, <1>2, <1>3, SaveDataIs
<1>5. /\ s.rcv_nxt \in Nat /\ t.rcv_nxt \in Nat /\ Len(s.rbuf) \in Nat /\ Len(t.rbuf) \in Nat
      /\ Len(data) \in Nat /\ (data # <<>> => Len(data) > 0) /\ (data = <<>> => Len(data) = 0)
  BY <1>1, <1>3, Numbers
<1>20. PICK at \in Nat, len \in Nat, x \in Nat, sq \in Nat, pl \in Nat, nb \in Nat :
         /\ at = seq /\ len = Len(data) /\ x = s.rcv_nxt /\ sq = p.seq /\ pl = Len(p.data)
         /\ nb = Len(s.rbuf)
  BY <1>2, <1>5
<1>21. sq <= at /\ at + len = sq + pl /\ (x <= sq => at = sq)
       /\ (data # <<>> => x <= at /\ at + len <= Edge(s) /\ len > 0)
  BY <1>3, <1>5, <1>20
<1>6. t.shutdown = s.shutdown
  BY <1>4 DEF SndAlone
<1>7. p.ctl => t.rcv_nxt > 0
  <2> SUFFICES ASSUME p.ctl, s.rcv_nxt = 0 PROVE t.rcv_nxt > 0
    BY <1>1, <1>5
  <2>1. p.seq = 0 /\ Len(p.data) = 1
    BY DEF Stamped
  <2>2. seq = 0 /\ Len(data) = 1
    BY <1>3, <1>5, <2>1
  <2>3. Dropped(s, t, p, seq, data)
    BY <1>4, <1>5, <2>2 DEF Appended, SavedAhead
  <2> QED
    BY <2>2, <2>3 DEF Dropped
<1>8. PICK n \in Nat : n = b + Len(s.rbuf)
  BY <1>5
<1>9. /\ n = 0 \/ n < s.rcv_nxt
      /\ s.shutdown = "NONE" => (n = 0 /\ s.rcv_nxt = 0) \/ n + 1 = s.rcv_nxt
  BY <1>8 DEF RcvBooks
<1>10. CASE data = <<>> /\ Unread(s, t)
  <2>1. t.rbuf = s.rbuf /\ t.rcv_nxt = s.rcv_nxt
    BY <1>10 DEF Unread
  <2> QED
    BY <1>4, <1>5, <1>6, <1>7, <2>1 DEF RcvBooks
<1>11. CASE Dropped(s, t, p, seq, data)
  <2>1. t.rbuf = s.rbuf /\ data # <<>> /\ (p.ctl \/ s.shutdown # "NONE")
    BY <1>11 DEF Dropped
  <2>2. Len(t.rbuf) = Len(s.rbuf) /\ (n = 0 \/ n < t.rcv_nxt)
    BY <1>1, <1>5, <1>9, <2>1
  <2>3. ASSUME p.ctl PROVE n = 0 /\ t.rcv_nxt = 1
    <3>1. p.seq = 0 /\ Len(p.data) = 1
      BY <2>3 DEF Stamped
    <3>2. Len(data) = 1 /\ seq = 0 /\ s.rcv_nxt = 0
      <4>1. sq = 0 /\ pl = 1 /\ len > 0 /\ x <= at
        BY <1>20, <1>21, <2>1, <3>1
      <4>2. len = 1 /\ at = 0 /\ x = 0
        BY <1>21, <4>1
      <4> QED
        BY <1>20, <4>2
    <3>3. t.rcv_nxt = 0 + 1
      BY <1>11, <3>2 DEF Dropped
    <3> QED
      BY <1>9, <3>2, <3>3
  <2>4. t.shutdown = "NONE" => n + 1 = t.rcv_nxt
    BY <1>6, <2>1, <2>3
  <2> QED
    BY <1>4, <1>5, <1>7, <1>8, <2>2, <2>4 DEF RcvBooks
<1>12. CASE Appended(s, t, p, seq, data)
  <2>1. PICK a, nxt :
          /\ a = Written(s.ahead, data, 0) /\ nxt = Reached(s.rlist, s.rcv_nxt + Len(data))
          /\ data # <<>> /\ ~p.ctl /\ s.shutdown = "NONE" /\ seq = s.rcv_nxt /\ t.rcv_nxt = nxt
          /\ t.rbuf = s.rbuf \o SubSeq(a, 1, nxt - s.rcv_nxt)
    BY <1>12, Zenon DEF Appended
  <2>2. p.data # <<>> /\ p.seq > 0
    <3>2. p.data # <<>>
      <4> SUFFICES ASSUME p.data = <<>> PROVE FALSE
        OBVIOUS
      <4>1. pl = 0 /\ len > 0 /\ x <= at /\ at = x
        BY <1>20, <1>21, <2>1
      <4> QED
        BY <1>21, <4>1
    <3> QED
      BY <2>1, <3>2 DEF Stamped
  <2>3. s.rcv_nxt > 0 /\ n + 1 = s.rcv_nxt
    BY <1>2, <1>3, <1>9, <2>1, <2>2, SMTT(20)
  <2>4. PICK k \in Nat : k = nxt - s.rcv_nxt
    BY <1>1, <1>5, <2>1
  <2>5. k <= RcvBufLen
    <3>1. Edge(s) <= s.rcv_nxt + RcvBufLen /\ Edge(s) \in Nat
      BY <1>1, Numbers, Constants DEF Edge
    <3>2. \A r \in s.rlist : r.seq \in Nat /\ r.len \in Nat /\ SegEnd(r) \in Nat /\ SegEnd(r) <= Edge(s)
      BY <1>1, Numbers DEF RcvInv
    <3>3. PICK m \in Nat : m = s.rcv_nxt + Len(data) /\ m <= Edge(s)
      <4>1. x + len <= Edge(s)
        BY <1>20, <1>21, <2>1
      <4> QED
        BY <1>20, <4>1
    <3>4. nxt <= Edge(s)
      BY <2>1, <3>1, <3>2, <3>3, ReachedIs
    <3> QED
      <4>1. PICK y \in Nat, e \in Nat : y = nxt /\ e = Edge(s)
        BY <1>5, <2>1, <3>1
      <4>2. y <= e /\ e <= x + RcvBufLen /\ k = y - x
        BY <1>20, <2>4, <3>1, <3>4, <4>1
      <4> QED
        BY <4>2, Constants
  <2>6. Len(t.rbuf) = Len(s.rbuf) + k
    <3>1. s.ahead \in [1..RcvBufLen -> Nat] /\ s.rbuf \in Seq(Nat)
      BY <1>1 DEF IsTcp
    <3>2. a \in [1..RcvBufLen -> Nat]
      <4>1. \A j \in DOMAIN data : data[j] \in Nat
        OBVIOUS
      <4>2. \A i \in 1..RcvBufLen :
              (IF i - 0 \in DOMAIN data THEN data[i - 0] ELSE s.ahead[i]) \in Nat
        BY <3>1, <4>1
      <4>3. DOMAIN s.ahead = 1..RcvBufLen
        BY <3>1
      <4> QED
        BY <2>1, <4>2, <4>3 DEF Written
    <3>3. Len(s.rbuf \o SubSeq(a, 1, k)) = Len(s.rbuf) + k
      BY <2>5, <3>1, <3>2, Consumed
    <3> QED
      BY <2>1, <2>4, <3>3
  <2>7. b + Len(t.rbuf) = n + k /\ t.rcv_nxt = s.rcv_nxt + k
    <3>1. PICK y \in Nat : y = nxt
      BY <1>5, <2>1
    <3>2. k = y - x /\ n = b + nb
      BY <1>8, <1>20, <2>4, <3>1
    <3>3. b + (nb + k) = n + k /\ y = x + k
      BY <3>2
    <3> QED
      BY <1>20, <2>1, <2>6, <3>1, <3>3
  <2>8. (n + k) + 1 = t.rcv_nxt /\ n + k < t.rcv_nxt
    BY <2>3, <2>7
  <2>9. RcvBooks(t, b)
    BY <2>7, <2>8 DEF RcvBooks
  <2> QED
    BY <1>4, <1>5, <1>7, <2>6, <2>9
<1>13. CASE SavedAhead(s, t, p, seq, data)
  <2>1. t.rbuf = s.rbuf /\ t.rcv_nxt = s.rcv_nxt
    BY <1>13 DEF SavedAhead
  <2> QED
    BY <1>4, <1>5, <1>6, <1>7, <2>1 DEF RcvBooks
<1> QED
  BY <1>4, <1>10, <1>11, <1>12, <1>13

\* The data of p was taken by an endpoint u that differs from s in what it has sent
\* only, with the callback OnTcpReadable if there is more to read; t is left.
Takes(s, t, p, q) ==
  /\ \E u : /\ Handling(u, q) /\ Good(q, p, u) /\ Unread(s, u) /\ u.shutdown = s.shutdown
            /\ Unread(ProcessData(u, p), t)
  /\ t.readEnable = (s.readEnable /\ Len(t.rbuf) = Len(s.rbuf))

\* The state, and what there is to send.
Moves(s, t, p) ==
  \/ /\ p.ctl /\ s.state = "LISTEN" /\ Total(s) = 0 /\ Total(t) = 1
     /\ t.state \in {"SYN_RECEIVED", "CLOSED"}
  \/ /\ Total(t) = Total(s)
     /\ \/ t.state \in {s.state, "CLOSED"}
        \/ t.state = "ESTABLISHED" /\ s.state = "SYN_SENT" /\ p.ctl
        \/ t.state = "ESTABLISHED" /\ s.state = "SYN_RECEIVED" /\ ~p.ctl

Half == (SndBufLen + RcvBufLen) \div 2

\* The end of process(), from its data on.
LEMMA TakeDataIs ==
  ASSUME NEW s, NEW q, Handling(s, q), IsTcp(q), NEW p \in Segment, Good(q, p, s), Stamped(p),
         NEW b \in Nat, RcvBooks(s, b), Marked(s), NEW late \in BOOLEAN,
         NEW t, t = TakeData(s, p, late)
  PROVE  /\ Marked(t) /\ t.shutdown = s.shutdown /\ t.writeEnable = s.writeEnable
         /\ Total(t) = Total(s) /\ t.sbuf = s.sbuf
         /\ t.state \in {s.state, "CLOSED"} /\ (s.room > 0 => Drained(t))
         /\ Unread(ProcessData(s, p), t) /\ t.readEnable = (s.readEnable /\ Len(t.rbuf) = Len(s.rbuf))
<1>1. PICK v : v = ProcessData(s, p)
  OBVIOUS
<1>2. Handling(v, q) /\ SndAlone(s, v)
  BY <1>1, ProcessDataKeeps, ProcessDataBooks DEF Keeps
<1>3. PICK w : w = AttemptSend(v, AckFlags(s, v, p), late)
  OBVIOUS
<1>4. Still(v, w) /\ (v.room > 0 => Drained(w))
  BY <1>2, <1>3, AttemptSendStill
<1>5. Handling(w, q)
  BY <1>2, <1>3, AttemptSendKeeps DEF Keeps
<1>6. PICK c : c = (w.readEnable /\ Len(v.rbuf) = Len(s.rbuf))
  OBVIOUS
<1>7. t = [w EXCEPT !.readEnable = c]
  BY <1>1, <1>3, <1>6, Zenon DEF TakeData, Answer
<1>8. DOMAIN w = Fields
  BY <1>5 DEF Handling, IsTcp
<1>9. /\ t.shutdown = w.shutdown /\ t.writeEnable = w.writeEnable /\ t.readEnable = c
      /\ t.snd_una = w.snd_una /\ t.snd_nxt = w.snd_nxt /\ t.snd_wnd = w.snd_wnd
      /\ t.sbuf = w.sbuf /\ t.slist = w.slist /\ t.out = w.out /\ t.state = w.state
      /\ Unread(w, t)
  BY <1>7, <1>8 DEF Fields, Unread
<1>10. Marked(v)
  BY <1>2 DEF Marked, SndAlone
<1>11. Marked(w) /\ Calm(v, w) /\ w.snd_una = v.snd_una /\ w.sbuf = v.sbuf
  BY <1>4, <1>10 DEF Still
<1>12. Marked(t)
  BY <1>9, <1>11 DEF Marked
<1>13. /\ w.shutdown = v.shutdown /\ w.readEnable = v.readEnable /\ w.writeEnable = v.writeEnable
       /\ Unread(v, w) /\ w.state \in {v.state, "CLOSED"}
  BY <1>11 DEF Calm, Unread
<1>14. /\ v.shutdown = s.shutdown /\ v.readEnable = s.readEnable /\ v.writeEnable = s.writeEnable
       /\ v.snd_una = s.snd_una /\ v.sbuf = s.sbuf /\ v.state = s.state /\ v.room = s.room
  BY <1>2 DEF SndAlone
<1>15. t.snd_una = s.snd_una /\ t.sbuf = s.sbuf
  BY <1>9, <1>11, <1>14, Zenon
<1>16. Total(t) = Total(s)
  BY <1>15, Zenon DEF Total
<1>17. Unread(v, t) /\ t.rbuf = v.rbuf
  BY <1>9, <1>13, Zenon DEF Unread
<1>18. t.readEnable = (s.readEnable /\ Len(t.rbuf) = Len(s.rbuf))
  BY <1>6, <1>9, <1>13, <1>14, <1>17, Zenon
<1>19. s.room > 0 => Drained(t)
  BY <1>4, <1>9, <1>14 DEF Drained
<1>20. t.shutdown = s.shutdown /\ t.writeEnable = s.writeEnable /\ t.state \in {s.state, "CLOSED"}
  BY <1>9, <1>13, <1>14, Zenon
<1> QED
  BY <1>1, <1>12, <1>15, <1>16, <1>17, <1>18, <1>19, <1>20, Zenon

LEMMA BooksSame ==
  ASSUME NEW s, NEW t, Unread(s, t), t.shutdown = s.shutdown, NEW b, RcvBooks(s, b)
  PROVE  RcvBooks(t, b)
  BY DEF Unread, RcvBooks

\* The whole of process().
LEMMA ProcessIs ==
  ASSUME NEW s, NEW q, Handling(s, q), IsTcp(q), RcvInv(q), NEW p \in Segment, Good(q, p, s),
         Stamped(p), NEW b \in Nat, RcvBooks(s, b), Marked(s), NEW late \in BOOLEAN,
         NEW t, t = Process(s, p, late)
  PROVE  /\ Marked(t) /\ t.shutdown = s.shutdown /\ Moves(s, t, p)
         /\ \/ t.state = "CLOSED" /\ Kept(s, t)
            \/ /\ Takes(s, t, p, q)
               /\ t.writeEnable = (s.writeEnable /\ Len(t.sbuf) >= Half)
               /\ s.room > 0 => Drained(t)
<1>1. Keeps(s, s, q) /\ Sound(s) /\ DOMAIN s = Fields
  BY KeepsSelf, KeepsSound DEF Handling, IsTcp
<1>2. PICK s0 : s0 = [s EXCEPT !.probes = 0]
  OBVIOUS
<1>3. AsideOf(s, s0)
  <2>1. 0 \in Nat
    OBVIOUS
  <2> QED
    BY <1>1, <1>2, <2>1, ProbesAside, Zenon
<1>4. Keeps(s, s0, q)
  BY <1>1, <1>3, ThenAside
<1>5. Moved(s, s0) /\ s0.state = s.state
  <2>1. Beside(s, s0) /\ s0.state = s.state
    <3>1. Beside(s, s0)
      BY <1>1, <1>2, OtherBeside, Zenon
    <3>2. s0.state = s.state
      BY <1>1, <1>2 DEF Fields
    <3> QED
      BY <3>1, <3>2
  <2> QED
    BY <2>1, BesideStill, StillMoved
<1>6. PICK s1 : s1 = ProcessControl(s0, p)
  OBVIOUS
<1>7. Keeps(s0, s1, q)
  BY <1>4, <1>6, ProcessControlKeeps DEF Keeps
<1>8. Keeps(s, s1, q)
  BY <1>4, <1>7, KeepsTrans
<1>9. Good(q, p, s1)
  BY <1>8, GoodPeerLater DEF Keeps
<1>10. /\ Kept(s0, s1) /\ Marked(s1)
       /\ \/ /\ p.ctl /\ s0.state = "LISTEN" /\ s1.state = "SYN_RECEIVED"
             /\ Total(s0) = 0 /\ Total(s1) = 1
          \/ /\ Total(s1) = Total(s0)
             /\ s1.state = s0.state \/ (p.ctl /\ s0.state = "SYN_SENT" /\ s1.state = "ESTABLISHED")
  <2>1. IsTcp(s0) /\ SndInv(s0) /\ Marked(s0)
    BY <1>4, <1>5 DEF Keeps, Handling, Moved
  <2> QED
    BY <1>6, <2>1, ProcessControlIs
<1>11. PICK s2 : s2 = ProcessAck(s1, p)
  OBVIOUS
<1>12. Keeps(s1, s2, q)
  BY <1>8, <1>9, <1>11, ProcessAckKeeps DEF Keeps
<1>13. Keeps(s, s2, q)
  BY <1>8, <1>12, KeepsTrans
<1>14. Good(q, p, s2)
  BY <1>13, GoodPeerLater DEF Keeps
<1>15. Moved(s1, s2)
  BY <1>8, <1>9, <1>11, ProcessAckMoved DEF Keeps
<1>16. Marked(s2) /\ Total(s2) = Total(s1) /\ s2.state \in {s1.state, "CLOSED"}
  BY <1>10, <1>15 DEF Moved, Calm
<1>17. Kept(s, s2) /\ Total(s0) = Total(s)
  <2>1. Kept(s, s0) /\ Kept(s1, s2) /\ Total(s0) = Total(s)
    BY <1>5, <1>15, CalmKept DEF Moved
  <2> QED
    BY <1>10, <2>1, KeptTrans
<1>18. Moves(s, s2, p)
  <2>1. CASE /\ p.ctl /\ s0.state = "LISTEN" /\ s1.state = "SYN_RECEIVED"
             /\ Total(s0) = 0 /\ Total(s1) = 1
    <3>1. s2.state \in {"SYN_RECEIVED", "CLOSED"} /\ Total(s2) = 1 /\ Total(s) = 0
      BY <1>16, <1>17, <2>1, Zenon
    <3> QED
      BY <1>5, <2>1, <3>1, Zenon DEF Moves
  <2>2. CASE Total(s1) = Total(s0) /\ s1.state = s0.state
    <3>1. s2.state \in {s.state, "CLOSED"} /\ Total(s2) = Total(s)
      BY <1>5, <1>16, <1>17, <2>2, Zenon
    <3> QED
      BY <3>1, Zenon DEF Moves
  <2>3. CASE Total(s1) = Total(s0) /\ p.ctl /\ s0.state = "SYN_SENT" /\ s1.state = "ESTABLISHED"
    <3>1. s2.state \in {"ESTABLISHED", "CLOSED"} /\ Total(s2) = Total(s) /\ p.ctl /\ s.state = "SYN_SENT"
      BY <1>5, <1>16, <1>17, <2>3, Zenon
    <3>2. s2.state = "ESTABLISHED" \/ s2.state \in {s.state, "CLOSED"}
      BY <3>1, Zenon
    <3> QED
      BY <3>1, <3>2, Zenon DEF Moves
  <2> QED
    BY <1>10, <2>1, <2>2, <2>3, Zenon
<1>19. t = Acknowledged(s2, p, late)
  BY <1>2, <1>6, <1>11, Zenon DEF Process
<1>20. CASE s2.state = "CLOSED"
  <2>1. t = s2
    BY <1>19, <1>20 DEF Acknowledged
  <2>2. t.shutdown = s.shutdown
    BY <1>17, <2>1 DEF Kept
  <2>3. Marked(t) /\ Moves(s, t, p) /\ t.state = "CLOSED" /\ Kept(s, t)
    BY <1>16, <1>17, <1>18, <1>20, <2>1, Zenon
  <2> QED
    BY <2>2, <2>3, Zenon
<1>21. CASE s2.state # "CLOSED"
  <2>1. PICK u : u = Ready(s2, p)
    OBVIOUS
  <2>2. PICK o : o = Opened(s2, p)
    OBVIOUS
  <2>3. Keeps(s2, o, q)
    BY <1>13, <2>2, OpenedKeeps DEF Keeps
  <2>4. AsideOf(o, u)
    BY <2>1, <2>2, <2>3, KeepsSound, WriteableAside DEF Ready
  <2>5. Keeps(s2, u, q) /\ Handling(u, q) /\ Later(s2, u)
    BY <2>3, <2>4, <1>13, ThenAside DEF Keeps
  <2>6. Good(q, p, u) /\ u.room = s.room
    <3>1. Later(s, s2)
      BY <1>13 DEF Keeps
    <3>2. u.room = s.room
      BY <2>5, <3>1 DEF Later
    <3>3. Good(q, p, u)
      BY <1>13, <1>14, <2>5, GoodPeerLater DEF Keeps
    <3> QED
      BY <3>2, <3>3
  <2>7. t = TakeData(u, p, late)
    BY <1>19, <1>21, <2>1, Zenon DEF Acknowledged, Ready
  <2>8. DOMAIN s2 = Fields
    BY <1>13 DEF Keeps, Handling, IsTcp
  <2>9. /\ u.shutdown = s2.shutdown /\ u.readEnable = s2.readEnable /\ u.rcv_nxt = s2.rcv_nxt
        /\ u.rlist = s2.rlist /\ u.rbuf = s2.rbuf /\ u.ahead = s2.ahead
        /\ u.writeEnable = (s2.writeEnable /\ Len(s2.sbuf) >= Half)
        /\ Total(u) = Total(s2) /\ u.sbuf = s2.sbuf /\ Marked(u)
        /\ u.state = IF s2.state = "SYN_RECEIVED" /\ ~p.ctl THEN "ESTABLISHED" ELSE s2.state
    BY <1>16, <2>1, <2>8, ReadyIs DEF Half
  <2>10. Unread(s, u) /\ u.shutdown = s.shutdown /\ u.readEnable = s.readEnable
         /\ u.writeEnable = (s.writeEnable /\ Len(u.sbuf) >= Half)
    BY <1>17, <2>9, Zenon DEF Kept, Unread
  <2>11. RcvBooks(u, b)
    BY <2>10, BooksSame
  <2>12. /\ Marked(t) /\ t.shutdown = u.shutdown /\ t.writeEnable = u.writeEnable
         /\ Total(t) = Total(u) /\ t.sbuf = u.sbuf
         /\ t.state \in {u.state, "CLOSED"} /\ (u.room > 0 => Drained(t))
         /\ Unread(ProcessData(u, p), t) /\ t.readEnable = (u.readEnable /\ Len(t.rbuf) = Len(u.rbuf))
    BY <2>5, <2>6, <2>7, <2>9, <2>11, TakeDataIs
  <2>13. Takes(s, t, p, q)
    <3>1. u.rbuf = s.rbuf
      BY <2>10 DEF Unread
    <3>2. t.readEnable = (s.readEnable /\ Len(t.rbuf) = Len(s.rbuf))
      BY <2>10, <2>12, <3>1, Zenon
    <3> QED
      BY <2>5, <2>6, <2>10, <2>12, <3>2, Zenon DEF Takes
  <2>14. Moves(s, t, p)
    <3>1. Total(t) = Total(s2)
      BY <2>9, <2>12
    <3>2. CASE s2.state = "SYN_RECEIVED" /\ ~p.ctl
      <4>1. t.state \in {"ESTABLISHED", "CLOSED"}
        BY <2>9, <2>12, <3>2, Zenon
      <4>2. Total(s2) = Total(s) /\ s.state = "SYN_RECEIVED"
        BY <1>18, <3>2 DEF Moves
      <4> QED
        BY <3>1, <3>2, <4>1, <4>2 DEF Moves
    <3>3. CASE ~(s2.state = "SYN_RECEIVED" /\ ~p.ctl)
      <4>1. t.state \in {s2.state, "CLOSED"}
        BY <2>9, <2>12, <3>3, Zenon
      <4> QED
        BY <1>18, <3>1, <4>1 DEF Moves
    <3> QED
      BY <3>2, <3>3
  <2>15. t.writeEnable = (s.writeEnable /\ Len(t.sbuf) >= Half)
    BY <2>10, <2>12, Zenon
  <2>16. t.shutdown = s.shutdown /\ (s.room > 0 => Drained(t))
    BY <2>6, <2>10, <2>12, Zenon
  <2> QED
    BY <2>12, <2>13, <2>14, <2>15, <2>16, Zenon
<1> QED
  BY <1>20, <1>21

----------------------------------------------------------------------------
(* The invariant of the data                                               *)

\* The application gave n bytes to send.
Ledger(s, n) ==
  /\ s.state = "LISTEN" => n = 0
  /\ s.state \notin {"LISTEN", "CLOSED"} => Total(s) = n + 1
  /\ Total(s) <= n + 1

\* The bytes that can be read are the ones behind the b that were, and the saved
\* segments are where their sequence numbers say.
Text(s, b) ==
  /\ \A i \in 1..Len(s.rbuf) : s.rbuf[i] = b + i
  /\ s.shutdown = "NONE" =>
       /\ s.rcv_nxt = 0 => s.rlist = {}
       /\ \A r \in s.rlist, i \in 1..RcvBufLen :
            r.seq <= s.rcv_nxt + i - 1 /\ s.rcv_nxt + i - 1 < SegEnd(r)
              => s.ahead[i] = s.rcv_nxt + i - 1

\* An endpoint and the application a that has m bytes to send.
Honest(s, a, m) ==
  /\ Marked(s) /\ Ledger(s, a.sent) /\ a.sent <= m /\ RcvBooks(s, Len(a.got))
  /\ s.readEnable <=> ~a.reading
  /\ s.rbuf # <<>> => ~s.readEnable
  /\ s.state = "ESTABLISHED" /\ a.sent < m /\ ~a.writing => s.writeEnable /\ Len(s.sbuf) >= Half

Verbatim(s, a) == Text(s, Len(a.got)) /\ \A i \in 1..Len(a.got) : a.got[i] = i

LEMMA MovedLedger ==
  ASSUME NEW s, NEW t, NEW n, Calm(s, t), Total(t) = Total(s), Ledger(s, n)
  PROVE  Ledger(t, n)
<1>1. t.state \in {s.state, "CLOSED"}
  BY DEF Calm
<1> QED
  BY <1>1 DEF Ledger

LEMMA MovesLedger ==
  ASSUME NEW s, NEW t, NEW p, NEW n \in Nat, Moves(s, t, p), Ledger(s, n)
  PROVE  Ledger(t, n)
<1>1. CASE /\ p.ctl /\ s.state = "LISTEN" /\ Total(s) = 0 /\ Total(t) = 1
           /\ t.state \in {"SYN_RECEIVED", "CLOSED"}
  <2>1. n = 0
    BY <1>1 DEF Ledger
  <2> QED
    BY <1>1, <2>1 DEF Ledger
<1>2. CASE Total(t) = Total(s) /\ t.state \in {s.state, "CLOSED"}
  BY <1>2 DEF Ledger
<1>3. CASE Total(t) = Total(s) /\ t.state = "ESTABLISHED" /\ s.state \in {"SYN_SENT", "SYN_RECEIVED"}
  BY <1>3 DEF Ledger
<1> QED
  BY <1>1, <1>2, <1>3 DEF Moves

LEMMA TakesBooks ==
  ASSUME NEW s, NEW t, NEW q, IsTcp(q), NEW p \in Segment, Stamped(p), NEW b \in Nat,
         Takes(s, t, p, q), RcvBooks(s, b), t.shutdown = s.shutdown
  PROVE  RcvBooks(t, b) /\ Len(s.rbuf) <= Len(t.rbuf) /\ (p.ctl => t.rcv_nxt > 0)
<1>1. PICK u : /\ Handling(u, q) /\ Good(q, p, u) /\ Unread(s, u) /\ u.shutdown = s.shutdown
               /\ Unread(ProcessData(u, p), t)
  BY Zenon DEF Takes
<1>2. RcvBooks(u, b)
  BY <1>1, BooksSame
<1>3. PICK v : v = ProcessData(u, p)
  OBVIOUS
<1>4. SndAlone(u, v) /\ RcvBooks(v, b) /\ Len(u.rbuf) <= Len(v.rbuf) /\ (p.ctl => v.rcv_nxt > 0)
  BY <1>1, <1>2, <1>3, ProcessDataBooks
<1>5. t.shutdown = v.shutdown
  BY <1>1, <1>4 DEF SndAlone
<1>6. Unread(v, t) /\ RcvBooks(t, b)
  BY <1>1, <1>3, <1>4, <1>5, BooksSame
<1> QED
  BY <1>1, <1>4, <1>6 DEF Unread

\* What was taken is what was sent.
LEMMA ProcessDataText ==
  ASSUME NEW s, NEW q, Handling(s, q), IsTcp(q), NEW p \in Segment, Good(q, p, s), Stamped(p),
         NEW b \in Nat, RcvBooks(s, b), Text(s, b), NEW t, t = ProcessData(s, p),
         s.shutdown = "NONE" /\ s.rcv_nxt = 0 /\ ~p.ctl => p.data = <<>>
  PROVE  Text(t, b)
<1>1. IsTcp(s) /\ IsTcp(t) /\ RcvInv(s) /\ DOMAIN s = Fields /\ s.rcv_nxt <= t.rcv_nxt
  BY ProcessDataKeeps DEF Keeps, Handling, IsTcp, Later
<1>2. p.ctl \in BOOLEAN /\ p.seq \in Nat /\ p.data \in Seq(Nat) /\ Len(p.data) \in Nat
  BY DEF Segment
<1>3. PICK seq \in Nat, data \in Seq(Nat) :
           /\ t = SaveData(s, p, seq, data)
           /\ p.seq <= seq /\ seq + Len(data) = p.seq + Len(p.data)
           /\ s.rcv_nxt <= p.seq => seq = p.seq
           /\ data # <<>> => s.rcv_nxt <= seq /\ seq + Len(data) <= Edge(s)
           /\ \A i \in 1..Len(data) : data[i] = p.data[seq - p.seq + i]
  BY ProcessDataIs
<1>4. /\ SndAlone(s, t)
      /\ \/ data = <<>> /\ Unread(s, t)
         \/ Dropped(s, t, p, seq, data)
         \/ Appended(s, t, p, seq, data)
         \/ SavedAhead(s, t, p, seq, data)
  BY <1>1, <1>2, <1>3, SaveDataIs
<1>5. PICK len \in Nat, x \in Nat, sq \in Nat, pl \in Nat, l \in Nat, e \in Nat :
         /\ len = Len(data) /\ x = s.rcv_nxt /\ sq = p.seq /\ pl = Len(p.data)
         /\ l = Len(s.rbuf) /\ e = Edge(s)
  <2>1. Len(data) \in Nat
    OBVIOUS
  <2>2. s.rcv_nxt \in Nat /\ Len(s.rbuf) \in Nat /\ Edge(s) \in Nat
    BY <1>1, Numbers
  <2> QED
    BY <1>2, <2>1, <2>2
<1>6. /\ sq <= seq /\ seq + len = sq + pl /\ (x <= sq => seq = sq)
      /\ (data # <<>> => x <= seq /\ seq + len <= e /\ len > 0)
  BY <1>3, <1>5
<1>7. t.shutdown = s.shutdown
  BY <1>4 DEF SndAlone
<1>8. \A j \in 1..len : data[j] = seq + j - 1
  <2> TAKE j \in 1..len
  <2>1. seq - sq + j \in 1..pl
    BY <1>6
  <2>2. data[j] = p.data[seq - sq + j]
    BY <1>3, <1>5
  <2>3. p.data[seq - sq + j] = sq + (seq - sq + j) - 1
    BY <1>5, <2>1 DEF Stamped
  <2> QED
    BY <2>2, <2>3
<1>9. ASSUME data # <<>>, ~p.ctl PROVE sq > 0 /\ p.data # <<>>
  <2>1. p.data # <<>>
    <3> SUFFICES ASSUME p.data = <<>> PROVE FALSE
      OBVIOUS
    <3>1. pl = 0 /\ len > 0 /\ x <= seq
      BY <1>5, <1>6, <1>9
    <3>2. sq <= seq /\ seq + len = sq
      BY <1>6, <3>1
    <3> QED
      BY <3>1, <3>2
  <2> QED
    BY <1>5, <1>9, <2>1 DEF Stamped
<1>10. CASE data = <<>> /\ Unread(s, t)
  BY <1>7, <1>10 DEF Unread, Text
<1>11. CASE Dropped(s, t, p, seq, data)
  <2>1. /\ t.rbuf = s.rbuf /\ t.rlist = s.rlist /\ data # <<>> /\ (p.ctl \/ s.shutdown # "NONE")
    BY <1>11 DEF Dropped
  <2>2. \A i \in 1..Len(t.rbuf) : t.rbuf[i] = b + i
    BY <2>1 DEF Text
  <2>3. ASSUME t.shutdown = "NONE" PROVE t.rlist = {}
    <3>1. p.ctl
      BY <1>7, <2>1, <2>3
    <3>2. sq = 0 /\ pl = 1
      BY <1>5, <3>1 DEF Stamped
    <3>3. x = 0
      BY <1>6, <2>1, <3>2
    <3> QED
      BY <1>5, <1>7, <2>1, <2>3, <3>3 DEF Text
  <2> QED
    BY <2>2, <2>3 DEF Text
<1>12. CASE Appended(s, t, p, seq, data)
  <2>1. PICK a, nxt :
          /\ a = Written(s.ahead, data, 0) /\ nxt = Reached(s.rlist, s.rcv_nxt + Len(data))
          /\ data # <<>> /\ ~p.ctl /\ s.shutdown = "NONE" /\ seq = s.rcv_nxt /\ t.rcv_nxt = nxt
          /\ t.rlist = {r \in s.rlist : r.seq > nxt}
          /\ t.rbuf = s.rbuf \o SubSeq(a, 1, nxt - s.rcv_nxt)
          /\ t.ahead = Shifted(a, nxt - s.rcv_nxt)
    BY <1>12, Zenon DEF Appended
  <2>2. x > 0 /\ seq = x /\ (b + l) + 1 = x
    <3>1. seq = x /\ sq > 0
      BY <1>5, <1>9, <2>1
    <3>2. x > 0
      BY <1>6, <3>1
    <3> QED
      BY <1>5, <2>1, <3>1, <3>2 DEF RcvBooks
  <2>3. s.ahead \in [1..RcvBufLen -> Nat] /\ s.rbuf \in Seq(Nat)
    BY <1>1 DEF IsTcp
  <2>4. /\ a \in [1..RcvBufLen -> Nat]
        /\ \A i \in 1..RcvBufLen : IF seq <= x + i - 1 /\ x + i - 1 < seq + len
                                   THEN a[i] = x + i - 1 ELSE a[i] = s.ahead[i]
    <3>1. PICK o : o = 0
      OBVIOUS
    <3>2. o = seq - x /\ x <= seq
      BY <2>2, <3>1
    <3>3. Filled(seq, data)
      BY <1>5, <1>8 DEF Filled
    <3>4. PICK h : h = s.ahead
      OBVIOUS
    <3>5. h \in [1..RcvBufLen -> Nat]
      BY <2>3, <3>4
    <3>6. /\ Written(h, data, o) \in [1..RcvBufLen -> Nat]
          /\ Laid(Written(h, data, o), h, seq, Len(data), x)
      BY <3>2, <3>3, <3>5, WrittenIs
    <3>7. a \in [1..RcvBufLen -> Nat] /\ Laid(a, s.ahead, seq, len, x)
      BY <1>5, <2>1, <3>1, <3>4, <3>6, Zenon
    <3> QED
      BY <3>7 DEF Laid
  <2>5. PICK m \in Nat : m = x + len /\ m <= e
    BY <1>6, <2>1, <2>2
  <2>6. \A r \in s.rlist : r.seq \in Nat /\ r.len \in Nat /\ SegEnd(r) \in Nat /\ SegEnd(r) <= e
    BY <1>1, <1>5, Numbers DEF RcvInv
  <2>7. nxt = Reached(s.rlist, m)
    BY <1>5, <2>1, <2>5, Zenon
  <2>8. nxt \in Nat /\ m <= nxt /\ nxt <= e
    BY <2>5, <2>6, <2>7, ReachedIs
  <2>9. e <= x + RcvBufLen
    BY <1>1, <1>5, Numbers, Constants DEF Edge
  <2>10. PICK k \in Nat : k = nxt - x /\ k <= RcvBufLen
    BY <2>5, <2>8, <2>9, Constants, SMTT(20)
  <2>11. \A r \in s.rlist, i \in 1..RcvBufLen :
           r.seq <= x + i - 1 /\ x + i - 1 < SegEnd(r) => a[i] = x + i - 1
    <3> TAKE r \in s.rlist, i \in 1..RcvBufLen
    <3> HAVE r.seq <= x + i - 1 /\ x + i - 1 < SegEnd(r)
    <3>1. s.ahead[i] = x + i - 1
      BY <1>5, <2>1 DEF Text
    <3> QED
      BY <2>4, <3>1
  <2>12. \A i \in 1..k : a[i] = x + i - 1
    <3> TAKE i \in 1..k
    <3>1. i \in 1..RcvBufLen /\ i \in Nat
      BY <2>10, Constants
    <3>2. PICK y \in Nat : y = x + i - 1
      BY <3>1
    <3>3. y < nxt /\ x <= y
      BY <2>8, <2>10, <3>1, <3>2
    <3>4. CASE y < m
      <4>1. seq <= x + i - 1 /\ x + i - 1 < seq + len
        BY <2>2, <2>5, <3>2, <3>3, <3>4
      <4> QED
        BY <2>4, <3>1, <4>1
    <3>5. CASE m <= y
      <4>1. PICK r \in s.rlist : r.seq <= y /\ y < SegEnd(r)
        BY <1>5, <2>5, <2>6, <2>7, <3>3, <3>5, ReachedCovers
      <4> QED
        BY <2>11, <3>1, <3>2, <4>1
    <3> QED
      BY <2>5, <3>2, <3>4, <3>5
  <2>13. PICK d : d = SubSeq(a, 1, k)
    OBVIOUS
  <2>14. d \in Seq(Nat) /\ Len(d) = k /\ \A i \in 1..k : d[i] = a[i]
    <3>1. a \in Seq(Nat) /\ Len(a) = RcvBufLen
      BY <2>4, Constants
    <3>2. 0 \in Nat /\ 0 + k <= Len(a) /\ 0 + 1 = 1 /\ 0 + k = k
      BY <2>10, <3>1, Constants
    <3>3. /\ SubSeq(a, 0 + 1, 0 + k) \in Seq(Nat) /\ Len(SubSeq(a, 0 + 1, 0 + k)) = k
          /\ \A i \in 1..k : SubSeq(a, 0 + 1, 0 + k)[i] = a[0 + i]
      <4>1. SubSeq(a, 0 + 1, 0 + k) \in Seq(Nat) /\ Len(SubSeq(a, 0 + 1, 0 + k)) = k
        BY <3>1, <3>2, Piece
      <4>2. \A i \in 1..k : SubSeq(a, 0 + 1, 0 + k)[i] = a[0 + i]
        BY <3>1, <3>2, PieceElements
      <4> QED
        BY <4>1, <4>2
    <3>4. \A i \in 1..k : 0 + i = i
      OBVIOUS
    <3> QED
      BY <2>13, <3>2, <3>3, <3>4
  <2>15. t.rbuf = s.rbuf \o d /\ t.ahead = Shifted(a, k)
    BY <1>5, <2>1, <2>10, <2>13
  <2>16. \A i \in 1..Len(t.rbuf) : t.rbuf[i] = b + i
    <3>1. /\ Len(s.rbuf \o d) = l + k
          /\ \A i \in 1..(l + k) : (s.rbuf \o d)[i] = IF i <= l THEN s.rbuf[i] ELSE d[i - l]
      BY <1>5, <2>3, <2>14, ConcatElements
    <3> SUFFICES ASSUME NEW i \in 1..(l + k) PROVE (s.rbuf \o d)[i] = b + i
      BY <2>15, <3>1
    <3>2. CASE i <= l
      <4>1. i \in 1..l
        BY <3>2
      <4> QED
        BY <1>5, <3>1, <3>2, <4>1 DEF Text
    <3>3. CASE ~(i <= l)
      <4>1. PICK j \in 1..k : j = i - l
        BY <3>3
      <4>2. (s.rbuf \o d)[i] = x + j - 1
        BY <2>12, <2>14, <3>1, <3>3, <4>1
      <4> QED
        BY <2>2, <4>1, <4>2
    <3> QED
      BY <3>2, <3>3
  <2>17. nxt > 0
    BY <2>2, <2>5, <2>8
  <2>18. \A r \in t.rlist, i \in 1..RcvBufLen :
           r.seq <= nxt + i - 1 /\ nxt + i - 1 < SegEnd(r) => t.ahead[i] = nxt + i - 1
    <3> TAKE r \in t.rlist, i \in 1..RcvBufLen
    <3> HAVE r.seq <= nxt + i - 1 /\ nxt + i - 1 < SegEnd(r)
    <3>1. r \in s.rlist /\ SegEnd(r) <= x + RcvBufLen
      <4>1. r \in s.rlist
        BY <2>1
      <4> QED
        BY <2>6, <2>9, <4>1, Constants
    <3>2. i \in Nat /\ i > 0 /\ nxt = x + k /\ SegEnd(r) \in Nat /\ RcvBufLen \in Nat
      BY <2>6, <2>8, <2>10, <3>1, Constants
    <3>3. PICK j \in 1..RcvBufLen : j = i + k
      BY <3>1, <3>2
    <3>4. i + k <= RcvBufLen /\ nxt + i - 1 = x + j - 1
      BY <3>2, <3>3
    <3>5. t.ahead[i] = a[j]
      <4>1. Shifted(a, k)[i] = a[i + k]
        BY <2>4, <3>4, ShiftedIs
      <4> QED
        BY <2>15, <3>3, <4>1
    <3>6. a[j] = x + j - 1
      BY <2>11, <3>1, <3>3, <3>4
    <3> QED
      BY <3>4, <3>5, <3>6
  <2> QED
    <3>1. PICK y \in Nat : y = nxt /\ t.rcv_nxt = y /\ y > 0
      BY <2>1, <2>8, <2>17
    <3>2. \A r \in t.rlist, i \in 1..RcvBufLen :
           r.seq <= y + i - 1 /\ y + i - 1 < SegEnd(r) => t.ahead[i] = y + i - 1
      BY <2>18, <3>1, Zenon
    <3> QED
      BY <2>16, <3>1, <3>2 DEF Text
<1>13. CASE SavedAhead(s, t, p, seq, data)
  <2>1. /\ data # <<>> /\ ~p.ctl /\ s.shutdown = "NONE" /\ seq # s.rcv_nxt
        /\ t.rcv_nxt = s.rcv_nxt /\ t.rbuf = s.rbuf
        /\ t.rlist = s.rlist \cup {[seq |-> seq, len |-> Len(data)]}
        /\ t.ahead = Written(s.ahead, data, seq - s.rcv_nxt)
    BY <1>13 DEF SavedAhead
  <2>2. x > 0
    BY <1>5, <1>9, <2>1
  <2>3. PICK o : o = seq - x
    OBVIOUS
  <2>4. s.ahead \in [1..RcvBufLen -> Nat]
    BY <1>1 DEF IsTcp
  <2>5. Filled(seq, data)
    BY <1>5, <1>8 DEF Filled
  <2>6. x <= seq
    BY <1>6, <2>1
  <2>7. PICK h : h = s.ahead
    OBVIOUS
  <2>8. Laid(t.ahead, s.ahead, seq, len, x)
    <3>1. h \in [1..RcvBufLen -> Nat]
      BY <2>4, <2>7
    <3>2. Laid(Written(h, data, o), h, seq, Len(data), x)
      BY <2>3, <2>5, <2>6, <3>1, WrittenIs
    <3> QED
      BY <1>5, <2>1, <2>3, <2>7, <3>2, Zenon
  <2>9. \A r \in t.rlist, i \in 1..RcvBufLen :
           r.seq <= x + i - 1 /\ x + i - 1 < SegEnd(r) => t.ahead[i] = x + i - 1
    <3> TAKE r \in t.rlist, i \in 1..RcvBufLen
    <3> HAVE r.seq <= x + i - 1 /\ x + i - 1 < SegEnd(r)
    <3>1. CASE r \in s.rlist
      <4>1. s.ahead[i] = x + i - 1
        BY <1>5, <2>1, <3>1 DEF Text
      <4> QED
        BY <2>8, <4>1 DEF Laid
    <3>2. CASE r = [seq |-> seq, len |-> Len(data)]
      <4>1. r.seq = seq /\ SegEnd(r) = seq + len
        BY <1>5, <3>2 DEF SegEnd
      <4> QED
        BY <2>8, <4>1 DEF Laid
    <3> QED
      BY <2>1, <3>1, <3>2
  <2> QED
    BY <1>5, <2>1, <2>2, <2>9 DEF Text
<1> QED
  BY <1>4, <1>10, <1>11, <1>12, <1>13

LEMMA TakesText ==
  ASSUME NEW s, NEW t, NEW q, IsTcp(q), NEW p \in Segment, Stamped(p), NEW b \in Nat,
         Takes(s, t, p, q), RcvBooks(s, b), t.shutdown = s.shutdown, Text(s, b),
         s.shutdown = "NONE" /\ s.rcv_nxt = 0 /\ ~p.ctl => p.data = <<>>
  PROVE  Text(t, b)
<1>1. PICK u : /\ Handling(u, q) /\ Good(q, p, u) /\ Unread(s, u) /\ u.shutdown = s.shutdown
               /\ Unread(ProcessData(u, p), t)
  BY Zenon DEF Takes
<1>2. RcvBooks(u, b) /\ Text(u, b)
  BY <1>1, BooksSame DEF Unread, Text
<1>3. PICK v : v = ProcessData(u, p)
  OBVIOUS
<1>4. SndAlone(u, v) /\ Text(v, b)
  <2>1. u.shutdown = "NONE" /\ u.rcv_nxt = 0 /\ ~p.ctl => p.data = <<>>
    BY <1>1 DEF Unread
  <2> QED
    BY <1>1, <1>2, <1>3, <2>1, ProcessDataBooks, ProcessDataText
<1>5. t.shutdown = v.shutdown
  BY <1>1, <1>4 DEF SndAlone
<1> QED
  BY <1>1, <1>3, <1>4, <1>5 DEF Unread, Text

\* The connection is open from the start, or only one application connects and the
\* other has nothing to send.
Orderly == plan.open \/ \E e \in Peers : plan.connect = {e} /\ plan.bytes[Other(e)] = 0

\* While an endpoint r has not seen the connect message of e, whose endpoint is s,
\* e has sent no byte of its application.
Heard(r, s, n, e) ==
  r.rcv_nxt = 0 /\ r.state # "CLOSED" =>
    /\ ~plan.open /\ n = 0
    /\ plan.connect = {e} => r.state = "LISTEN" /\ s.state \in {"LISTEN", "SYN_SENT", "CLOSED"}

\* What holds of an endpoint t of e and its application a, next to the other one.
Fits(e, t, a) ==
  /\ Honest(t, a, plan.bytes[e])
  /\ Orderly => /\ Verbatim(t, a)
                /\ Heard(t, tcp[Other(e)], app[Other(e)].sent, Other(e))
                /\ Heard(tcp[Other(e)], t, a.sent, e)

DataInv ==
  /\ Inv
  /\ \A p \in net : Stamped(p.seg)
  /\ \A e \in Peers : Fits(e, tcp[e], app[e])
  /\ \A e \in Peers : tcp[e].state = "ESTABLISHED" => Drained(tcp[e]) \/ fails > 0

\* One endpoint and its application have changed.
LEMMA Stepped ==
  ASSUME DataInv, Inv', plan' = plan, NEW e \in Peers, NEW t, NEW a,
         tcp' = [tcp EXCEPT ![e] = t], app' = [app EXCEPT ![e] = a], Fits(e, t, a),
         t.state = "ESTABLISHED" => Drained(t) \/ fails' > 0, fails <= fails',
         \A p \in net' : p \in net \/ Stamped(p.seg)
  PROVE  DataInv'
<1>1. PICK f : f = Other(e)
  OBVIOUS
<1>2. f \in Peers /\ f # e /\ Other(f) = e /\ \A h \in Peers : h = e \/ h = f
  BY <1>1, Peer
<1>3. tcp'[e] = t /\ tcp'[f] = tcp[f] /\ app'[e] = a /\ app'[f] = app[f]
  BY <1>2 DEF DataInv, Inv, Link, Counters
<1>4. \A p \in net' : Stamped(p.seg)
  BY DEF DataInv
<1>5. (Orderly' <=> Orderly) /\ \A r, s, n, h : Heard(r, s, n, h)' <=> Heard(r, s, n, h)
  BY Zenon DEF Orderly, Heard
<1>6. Fits(e, tcp[e], app[e])' /\ Fits(f, tcp[f], app[f])'
  <2>1. Fits(e, tcp[e], app[e])'
    <3>1. Honest(tcp'[e], app'[e], plan'.bytes[e])
      BY <1>3 DEF Fits
    <3>2. ASSUME Orderly' PROVE /\ Verbatim(tcp'[e], app'[e])
                                /\ Heard(tcp[e], tcp[Other(e)], app[Other(e)].sent, Other(e))'
                                /\ Heard(tcp[Other(e)], tcp[e], app[e].sent, e)'
      <4>1. Orderly
        BY <1>5, <3>2
      <4>2. Verbatim(t, a) /\ Heard(t, tcp[f], app[f].sent, f) /\ Heard(tcp[f], t, a.sent, e)
        BY <1>1, <4>1, Zenon DEF Fits
      <4> QED
        BY <1>1, <1>3, <4>2 DEF Heard
    <3> QED
      BY <3>1, <3>2 DEF Fits
  <2>2. Fits(f, tcp[f], app[f])'
    <3>1. Fits(f, tcp[f], app[f])
      BY <1>2 DEF DataInv
    <3>2. Honest(tcp'[f], app'[f], plan'.bytes[f])
      BY <1>3, <3>1 DEF Fits
    <3>3. ASSUME Orderly' PROVE /\ Verbatim(tcp'[f], app'[f])
                                /\ Heard(tcp[f], tcp[Other(f)], app[Other(f)].sent, Other(f))'
                                /\ Heard(tcp[Other(f)], tcp[f], app[f].sent, f)'
      <4>1. Orderly
        BY <1>5, <3>3
      <4>2. Verbatim(tcp[f], app[f]) /\ Heard(t, tcp[f], app[f].sent, f) /\ Heard(tcp[f], t, a.sent, e)
        BY <1>1, <3>1, <4>1, Zenon DEF Fits
      <4> QED
        BY <1>2, <1>3, <4>2 DEF Heard
    <3> QED
      BY <3>2, <3>3 DEF Fits
  <2> QED
    BY <2>1, <2>2
<1>7. \A h \in Peers : Fits(h, tcp[h], app[h])'
  BY <1>2, <1>6, Zenon
<1>8. \A h \in Peers : tcp'[h].state = "ESTABLISHED" => Drained(tcp'[h]) \/ fails' > 0
  <2>1. fails \in Nat /\ fails' \in Nat
    <3>1. plan.failures \in Nat /\ fails \in 0..plan.failures /\ fails' \in 0..plan.failures
      BY PlanIs DEF DataInv, Inv, Counters
    <3> QED
      BY <3>1
  <2>2. tcp[f].state = "ESTABLISHED" => Drained(tcp[f]) \/ fails > 0
    BY <1>2 DEF DataInv
  <2>3. tcp'[f].state = "ESTABLISHED" => Drained(tcp'[f]) \/ fails' > 0
    BY <1>3, <2>1, <2>2
  <2>4. tcp'[e].state = "ESTABLISHED" => Drained(tcp'[e]) \/ fails' > 0
    BY <1>3
  <2> QED
    BY <1>2, <2>3, <2>4, Zenon
<1>9. \A h \in Peers : (tcp[h].state = "ESTABLISHED" => Drained(tcp[h]) \/ fails > 0)'
  BY <1>8 DEF Drained
<1> QED
  BY <1>4, <1>7, <1>9 DEF DataInv

\* Sending changes nothing of this.
LEMMA StillFits ==
  ASSUME NEW e, NEW s, NEW t, NEW a, Still(s, t), Fits(e, s, a)
  PROVE  Fits(e, t, a)
<1>1. /\ Calm(s, t) /\ t.snd_una = s.snd_una /\ t.sbuf = s.sbuf /\ (Marked(s) => Marked(t))
  BY DEF Still
<1>2. /\ t.shutdown = s.shutdown /\ t.readEnable = s.readEnable /\ t.writeEnable = s.writeEnable
      /\ t.rcv_nxt = s.rcv_nxt /\ t.rlist = s.rlist /\ t.rbuf = s.rbuf /\ t.ahead = s.ahead
      /\ t.state \in {s.state, "CLOSED"}
  BY <1>1 DEF Calm
<1>3. Honest(t, a, plan.bytes[e])
  <2>1. Honest(s, a, plan.bytes[e])
    BY DEF Fits
  <2>2. Total(t) = Total(s)
    BY <1>1 DEF Total
  <2>3. Ledger(t, a.sent) /\ Marked(t)
    BY <1>1, <2>1, <2>2, MovedLedger DEF Honest
  <2>4. RcvBooks(t, Len(a.got))
    BY <1>2, <2>1 DEF Honest, RcvBooks
  <2> QED
    BY <1>1, <1>2, <2>1, <2>3, <2>4 DEF Honest
<1>4. ASSUME Orderly PROVE /\ Verbatim(t, a)
                           /\ Heard(t, tcp[Other(e)], app[Other(e)].sent, Other(e))
                           /\ Heard(tcp[Other(e)], t, a.sent, e)
  <2>1. /\ Verbatim(s, a) /\ Heard(s, tcp[Other(e)], app[Other(e)].sent, Other(e))
        /\ Heard(tcp[Other(e)], s, a.sent, e)
    BY <1>4, Zenon DEF Fits
  <2>2. Verbatim(t, a)
    BY <1>2, <2>1 DEF Verbatim, Text
  <2>3. Heard(t, tcp[Other(e)], app[Other(e)].sent, Other(e))
    BY <1>2, <2>1 DEF Heard
  <2>4. Heard(tcp[Other(e)], t, a.sent, e)
    BY <1>2, <2>1 DEF Heard
  <2> QED
    BY <2>2, <2>3, <2>4
<1> QED
  BY <1>3, <1>4, Zenon DEF Fits

LEMMA FreshStill ==
  ASSUME NEW s, DOMAIN s = Fields, NEW v
  PROVE  Still(s, Fresh(s, v)) /\ (Drained(s) <=> Drained(Fresh(s, v))) /\ Fresh(s, v).state = s.state
         /\ Fresh(s, v).snd_nxt = s.snd_nxt
<1>1. PICK t : t = Fresh(s, v)
  OBVIOUS
<1>2. /\ Calm(s, t) /\ t.snd_una = s.snd_una /\ t.snd_wnd = s.snd_wnd /\ t.sbuf = s.sbuf
      /\ t.slist = s.slist /\ t.out = {} /\ t.snd_nxt = s.snd_nxt /\ t.state = s.state
  BY <1>1 DEF Fresh, Fields, Calm
<1>3. Marked(s) => Marked(t)
  BY <1>2 DEF Marked
<1> QED
  BY <1>1, <1>2, <1>3 DEF Still, Drained

LEMMA EnterFits ==
  ASSUME DataInv, NEW e \in Peers, NEW room
  PROVE  /\ Still(tcp[e], Enter(e, room)) /\ Fits(e, Enter(e, room), app[e])
         /\ Enter(e, room).snd_nxt = tcp[e].snd_nxt /\ Enter(e, room).state = tcp[e].state
<1>1. PICK s, b : s = tcp[e] /\ b = Enter(e, room)
  OBVIOUS
<1>2. IsTcp(s) /\ s.out = {} /\ DOMAIN s = Fields
  BY <1>1 DEF DataInv, Inv, Link, Handling, IsTcp
<1>3. b = [s EXCEPT !.room = room]
  BY <1>1 DEF Enter
<1>4. Still(s, b) /\ b.snd_nxt = s.snd_nxt /\ b.state = s.state
  BY <1>2, <1>3 DEF Fields, Still, Calm, Marked
<1>5. Fits(e, s, app[e])
  BY <1>1 DEF DataInv
<1> QED
  BY <1>1, <1>4, <1>5, StillFits

\* A handler of e leaves endpoint t.
LEMMA LeaveData ==
  ASSUME DataInv, Inv', plan' = plan, NEW e \in Peers, NEW t, NEW a, DOMAIN t = Fields,
         NEW rest \in SUBSET net, Leave(e, t, rest), app' = [app EXCEPT ![e] = a], Fits(e, t, a),
         t.state = "ESTABLISHED" => t.room = 0 \/ Drained(t) \/ fails > 0
  PROVE  DataInv'
<1>1. PICK t0 : t0 = Fresh(t, 0)
  OBVIOUS
<1>2. Still(t, t0) /\ (Drained(t) <=> Drained(t0)) /\ t0.state = t.state
  BY <1>1, FreshStill
<1>3. Fits(e, t0, a)
  BY <1>2, StillFits
<1>4. tcp' = [tcp EXCEPT ![e] = t0]
  BY <1>1 DEF Leave, Fresh
<1>5. PICK d : d = IF t.room = 0 THEN 1 ELSE 0
  OBVIOUS
<1>6. fails' = fails + d
  BY <1>5 DEF Leave
<1>7. fails \in Nat
  <2>1. plan.failures \in Nat /\ fails \in 0..plan.failures
    BY PlanIs DEF DataInv, Inv, Counters
  <2> QED
    BY <2>1
<1>8. fails <= fails' /\ (t.room = 0 => fails' > 0) /\ (fails > 0 => fails' > 0)
  BY <1>5, <1>6, <1>7
<1>9. t0.state = "ESTABLISHED" => Drained(t0) \/ fails' > 0
  BY <1>2, <1>8
<1>10. PICK kept \in SUBSET t.out : net' = rest \cup {[to |-> Other(e), seg |-> seg] : seg \in kept}
  <2>1. PICK kept \in SUBSET (IF t.room = 0 THEN {} ELSE t.out) :
          net' = rest \cup {[to |-> Other(e), seg |-> seg] : seg \in kept}
    BY Zenon DEF Leave
  <2>2. kept \in SUBSET t.out
    BY <2>1
  <2> QED
    BY <2>1, <2>2
<1>11. \A p \in net' : p \in net \/ Stamped(p.seg)
  <2>1. \A g \in t.out : Stamped(g)
    BY DEF Fits, Honest, Marked
  <2> TAKE p \in net'
  <2>2. CASE p \in rest
    BY <2>2
  <2>3. CASE p \in {[to |-> Other(e), seg |-> seg] : seg \in kept}
    <3>1. PICK g \in kept : p = [to |-> Other(e), seg |-> g]
      BY <2>3
    <3>2. p.seg = g /\ g \in t.out
      BY <1>10, <3>1
    <3> QED
      BY <2>1, <3>2
  <2> QED
    BY <1>10, <2>2, <2>3
<1> QED
  BY <1>3, <1>4, <1>8, <1>9, <1>11, Stepped

LEMMA AppSame ==
  ASSUME Inv, app' = app, NEW e \in Peers
  PROVE  app' = [app EXCEPT ![e] = app[e]]
  BY DEF Inv, Counters

\* A handler that only sends.
LEMMA StillData ==
  ASSUME DataInv, Inv', plan' = plan, app' = app, NEW e \in Peers, NEW room \in Rooms, NEW b,
         b = Enter(e, room), NEW t, Still(b, t), Keeps(b, t, tcp[Other(e)]), Leave(e, t, net)
  PROVE  DataInv'
<1>1. Still(tcp[e], b) /\ Fits(e, b, app[e]) /\ b.snd_nxt = tcp[e].snd_nxt /\ b.state = tcp[e].state
  BY EnterFits
<1>2. Fits(e, t, app[e])
  BY <1>1, StillFits
<1>3. Still(tcp[e], t)
  BY <1>1, StillTrans
<1>4. IsTcp(t) /\ IsTcp(tcp[e]) /\ DOMAIN t = Fields /\ tcp[e].snd_nxt <= t.snd_nxt
  BY <1>1 DEF DataInv, Inv, Link, Keeps, Handling, Later, IsTcp
<1>5. t.state = "ESTABLISHED" => Drained(t) \/ fails > 0
  <2>1. t.state = "ESTABLISHED" => tcp[e].state = "ESTABLISHED"
    BY <1>3 DEF Still, Calm
  <2>2. Drained(tcp[e]) => Drained(t)
    BY <1>3, <1>4, DrainedLater
  <2> QED
    BY <2>1, <2>2 DEF DataInv
<1>6. app' = [app EXCEPT ![e] = app[e]]
  BY AppSame DEF DataInv
<1>7. net \in SUBSET net
  OBVIOUS
<1> QED
  BY <1>2, <1>4, <1>5, <1>6, <1>7, LeaveData

LEMMA NotifyClockData ==
  ASSUME DataInv, Inv', NEW e \in Peers, NEW due \in SUBSET Armed(tcp[e]), NotifyClock(e, due)
  PROVE  DataInv'
<1>1. PICK room, silent, t :
        /\ room \in Rooms /\ silent \in BOOLEAN
        /\ t = ClockAck(ClockProbe(ClockRto(Enter(e, room), due), due, silent), due)
        /\ Leave(e, t, net)
  <2>1. \A x \in (IF "probe" \in due THEN BOOLEAN ELSE {FALSE}) : x \in BOOLEAN
    OBVIOUS
  <2> QED
    BY <2>1, Zenon DEF NotifyClock
<1>2. PICK q, b, c, u : /\ q = tcp[Other(e)] /\ b = Enter(e, room) /\ c = ClockRto(b, due)
                        /\ u = ClockProbe(c, due, silent)
  OBVIOUS
<1>3. t = ClockAck(u, due) /\ Inv
  BY <1>1, <1>2, Zenon DEF DataInv
<1>4. /\ Handling(b, q) /\ SameSnd(tcp[e], b) /\ IsTcp(q) /\ SndInv(tcp[e]) /\ IsTcp(tcp[e])
  BY <1>1, <1>2, <1>3, EnterInv
<1>5. "rto" \in due => b.rto
  <2>1. "rto" \in due => tcp[e].rto
    BY DEF Armed, Timers
  <2> QED
    BY <1>4, <2>1 DEF SameSnd
<1>6. Keeps(b, c, q) /\ Handling(c, q) /\ DOMAIN c = Fields
  <2>1. Keeps(b, c, q)
    BY <1>2, <1>4, <1>5, ClockRtoKeeps
  <2> QED
    BY <2>1 DEF Keeps, Handling, IsTcp
<1>7. "probe" \in due => c.snd_nxt > 0
  <2>1. "probe" \in due => tcp[e].snd_wnd = 0
    BY DEF Armed, Timers
  <2>2. tcp[e].snd_nxt \in Nat /\ c.snd_nxt \in Nat
    BY <1>4, <1>6, Numbers DEF Keeps, Handling
  <2>3. tcp[e].snd_wnd = 0 => tcp[e].snd_nxt > 0
    BY <1>4, <2>2 DEF SndInv
  <2>4. tcp[e].snd_nxt <= c.snd_nxt
    BY <1>4, <1>6 DEF Keeps, Later, SameSnd
  <2> QED
    BY <2>1, <2>2, <2>3, <2>4
<1>8. Keeps(c, u, q) /\ Handling(u, q) /\ DOMAIN u = Fields
  <2>1. Keeps(c, u, q)
    BY <1>1, <1>2, <1>4, <1>6, <1>7, ClockProbeKeeps DEF Keeps
  <2> QED
    BY <2>1 DEF Keeps, Handling, IsTcp
<1>9. Keeps(u, t, q)
  BY <1>3, <1>8, ClockAckKeeps
<1>10. Keeps(b, t, q)
  <2>1. Keeps(b, u, q)
    BY <1>4, <1>6, <1>8, KeepsTrans
  <2> QED
    BY <1>4, <1>9, <2>1, KeepsTrans
<1>11. Still(b, c)
  <2>1. CASE ~Ticking(b, "rto", due)
    BY <1>2, <2>1, StillSelf, Zenon DEF ClockRto
  <2>2. CASE Ticking(b, "rto", due) /\ ~MayTransmit(b, 1)
    <3>1. c = Closedown(b)
      BY <1>2, <2>2, Zenon DEF ClockRto
    <3>2. DOMAIN b = Fields
      BY <1>4 DEF Handling, IsTcp
    <3> QED
      BY <3>1, <3>2, Besides
  <2>3. CASE Ticking(b, "rto", due) /\ MayTransmit(b, 1)
    <3>1. PICK v, w : v = Transmit(b, 1) /\ w = Halved(v)
      OBVIOUS
    <3>2. c = SlowStart(w)
      BY <1>2, <2>3, <3>1, Zenon DEF ClockRto
    <3>3. b.snd_una < b.snd_nxt
      BY <1>4, <1>5, <2>3 DEF Handling, SndInv, Ticking
    <3>4. Still(b, v) /\ DOMAIN v = Fields
      BY <1>4, <2>3, <3>1, <3>3, TransmitFirstStill
    <3>5. DOMAIN w = Fields
      BY <3>1, <3>4 DEF Halved
    <3>6. Still(v, w) /\ Still(w, c)
      BY <3>1, <3>2, <3>4, <3>5, Besides
    <3> QED
      BY <3>4, <3>6, StillTrans
  <2> QED
    BY <2>1, <2>2, <2>3
<1>12. Still(c, u)
  <2>1. CASE ~Ticking(c, "probe", due)
    BY <1>2, <2>1, StillSelf, Zenon DEF ClockProbe
  <2>2. CASE Ticking(c, "probe", due) /\ silent
    <3>1. u = Closedown(c)
      BY <1>2, <2>2, Zenon DEF ClockProbe
    <3> QED
      BY <1>6, <3>1, Besides
  <2>3. CASE Ticking(c, "probe", due) /\ ~silent
    <3>1. PICK v, n : v = Packet(c, c.snd_nxt - 1, FALSE, <<>>) /\ n = v.probes + 1
      OBVIOUS
    <3>2. DOMAIN v = Fields
      BY <1>6, <3>1 DEF Packet
    <3>3. u = [v EXCEPT !.probes = n]
      <4>1. u = [Packet(c, c.snd_nxt - 1, FALSE, <<>>) EXCEPT !.probes = @ + 1]
        BY <1>2, <2>3, Zenon DEF ClockProbe
      <4> QED
        BY <3>1, <4>1
    <3>4. Still(c, v)
      BY <1>6, <3>1, PacketStill
    <3>5. Still(v, u)
      <4>1. Beside(v, u)
        BY <3>2, <3>3, OtherBeside, Zenon
      <4> QED
        BY <4>1, BesideStill
    <3> QED
      BY <3>4, <3>5, StillTrans
  <2> QED
    BY <2>1, <2>2, <2>3
<1>13. Still(u, t)
  <2>1. CASE t = u
    BY <2>1, StillSelf
  <2>2. CASE t = Packet(u, u.snd_nxt, FALSE, <<>>)
    BY <1>8, <2>2, PacketStill
  <2> QED
    BY <1>3, <2>1, <2>2 DEF ClockAck
<1>14. Still(b, t)
  <2>1. Still(b, u)
    BY <1>11, <1>12, StillTrans
  <2> QED
    BY <1>13, <2>1, StillTrans
<1>15. plan' = plan /\ app' = app
  BY DEF NotifyClock
<1> QED
  BY <1>1, <1>2, <1>10, <1>14, <1>15, StillData

LEMMA NotifyMTUData ==
  ASSUME DataInv, Inv', NEW e \in Peers, NotifyMTU(e)
  PROVE  DataInv'
<1>1. PICK s, c, t : /\ s = tcp[e] /\ c = [s EXCEPT !.advise = path]
                     /\ t = IF c.state = "ESTABLISHED" THEN AdjustMTU(c) ELSE c
  OBVIOUS
<1>2. IsTcp(s) /\ DOMAIN s = Fields /\ DOMAIN c = Fields
  BY <1>1 DEF DataInv, Inv, Link, Handling, IsTcp
<1>3. Still(s, c)
  <2>1. Beside(s, c)
    BY <1>1, <1>2, OtherBeside, Zenon
  <2> QED
    BY <2>1, BesideStill
<1>4. Still(s, t)
  <2>1. CASE t = c
    BY <1>3, <2>1
  <2>2. CASE t = AdjustMTU(c)
    BY <1>2, <1>3, <2>2, Besides, StillTrans
  <2> QED
    BY <1>1, <2>1, <2>2
<1>5. /\ tcp' = [tcp EXCEPT ![e] = t] /\ net' = net /\ fails' = fails /\ plan' = plan /\ app' = app
  BY <1>1 DEF NotifyMTU
<1>6. Fits(e, t, app[e])
  <2>1. Fits(e, s, app[e])
    BY <1>1 DEF DataInv
  <2> QED
    BY <1>4, <2>1, StillFits
<1>7. t.state = "ESTABLISHED" => Drained(t) \/ fails' > 0
  <2>1. t.state = "ESTABLISHED" => s.state = "ESTABLISHED"
    BY <1>4 DEF Still, Calm
  <2>2. t.snd_nxt = s.snd_nxt
    <3>1. c.snd_nxt = s.snd_nxt
      BY <1>1, <1>2 DEF Fields
    <3>2. AdjustMTU(c).snd_nxt = c.snd_nxt
      BY <1>2 DEF AdjustMTU, Fields
    <3> QED
      BY <1>1, <3>1, <3>2
  <2>3. Drained(s) => Drained(t)
    BY <1>4, <2>2 DEF Still, Drained
  <2> QED
    BY <1>1, <1>5, <2>1, <2>3 DEF DataInv
<1>8. app' = [app EXCEPT ![e] = app[e]] /\ fails <= fails'
  <2>1. fails \in Nat
    <3>1. plan.failures \in Nat /\ fails \in 0..plan.failures
      BY PlanIs DEF DataInv, Inv, Counters
    <3> QED
      BY <3>1
  <2> QED
    BY <1>5, <2>1, AppSame DEF DataInv
<1> QED
  BY <1>5, <1>6, <1>7, <1>8, Stepped

LEMMA CloseData ==
  ASSUME DataInv, Inv', NEW e \in Peers, NEW mode \in Modes, Close(e, mode)
  PROVE  DataInv'
<1>1. PICK s, t : s = tcp[e] /\ t = [s EXCEPT !.shutdown = mode]
  OBVIOUS
<1>2. DOMAIN s = Fields
  BY <1>1 DEF DataInv, Inv, Link, Handling, IsTcp
<1>3. /\ t.state = s.state /\ t.readEnable = s.readEnable /\ t.writeEnable = s.writeEnable
      /\ t.rcv_nxt = s.rcv_nxt /\ t.rlist = s.rlist /\ t.rbuf = s.rbuf /\ t.ahead = s.ahead
      /\ t.snd_una = s.snd_una /\ t.snd_wnd = s.snd_wnd /\ t.sbuf = s.sbuf /\ t.slist = s.slist
      /\ t.snd_nxt = s.snd_nxt /\ t.out = s.out /\ t.shutdown # "NONE"
  BY <1>1, <1>2 DEF Fields, Modes
<1>4. /\ tcp' = [tcp EXCEPT ![e] = t] /\ net' = net /\ fails' = fails /\ plan' = plan /\ app' = app
  BY <1>1 DEF Close
<1>5. Fits(e, s, app[e])
  BY <1>1 DEF DataInv
<1>6. Fits(e, t, app[e])
  <2>1. Honest(t, app[e], plan.bytes[e])
    <3>1. Honest(s, app[e], plan.bytes[e])
      BY <1>5 DEF Fits
    <3>2. Marked(t) /\ Ledger(t, app[e].sent)
      BY <1>3, <3>1 DEF Honest, Marked, Ledger, Total
    <3>3. RcvBooks(t, Len(app[e].got))
      BY <1>3, <3>1 DEF Honest, RcvBooks
    <3> QED
      BY <1>3, <3>1, <3>2, <3>3 DEF Honest
  <2>2. ASSUME Orderly PROVE /\ Verbatim(t, app[e])
                             /\ Heard(t, tcp[Other(e)], app[Other(e)].sent, Other(e))
                             /\ Heard(tcp[Other(e)], t, app[e].sent, e)
    <3>1. /\ Verbatim(s, app[e]) /\ Heard(s, tcp[Other(e)], app[Other(e)].sent, Other(e))
          /\ Heard(tcp[Other(e)], s, app[e].sent, e)
      BY <1>5, <2>2, Zenon DEF Fits
    <3>2. Verbatim(t, app[e])
      BY <1>3, <3>1 DEF Verbatim, Text
    <3>3. /\ Heard(t, tcp[Other(e)], app[Other(e)].sent, Other(e))
          /\ Heard(tcp[Other(e)], t, app[e].sent, e)
      BY <1>3, <3>1 DEF Heard
    <3> QED
      BY <3>2, <3>3
  <2> QED
    BY <2>1, <2>2, Zenon DEF Fits
<1>7. t.state = "ESTABLISHED" => Drained(t) \/ fails' > 0
  BY <1>1, <1>3, <1>4 DEF DataInv, Drained
<1>8. app' = [app EXCEPT ![e] = app[e]] /\ fails <= fails'
  <2>1. fails \in Nat
    <3>1. plan.failures \in Nat /\ fails \in 0..plan.failures
      BY PlanIs DEF DataInv, Inv, Counters
    <3> QED
      BY <3>1
  <2> QED
    BY <1>4, <2>1, AppSame DEF DataInv
<1> QED
  BY <1>4, <1>6, <1>7, <1>8, Stepped

LEMMA ConnectData ==
  ASSUME DataInv, Inv', NEW e \in Peers, Connect(e)
  PROVE  DataInv'
<1>1. PICK room \in Rooms, late \in BOOLEAN :
        LET s == QueueConnect([Enter(e, room) EXCEPT !.state = "SYN_SENT"])
        IN Leave(e, AttemptSend(s, "none", late), net)
  BY Zenon DEF Connect
<1>2. PICK f, q, b, c, u, t : /\ f = Other(e) /\ q = tcp[f] /\ b = Enter(e, room)
                           /\ c = [b EXCEPT !.state = "SYN_SENT"] /\ u = QueueConnect(c)
                           /\ t = AttemptSend(u, "none", late)
  OBVIOUS
<1>3. Leave(e, t, net) /\ Inv /\ f # e
  BY <1>1, <1>2, Peer, Zenon DEF DataInv
<1>4. /\ Handling(b, q) /\ SameSnd(tcp[e], b) /\ IsTcp(q) /\ RcvInv(q) /\ SndInv(tcp[e])
  BY <1>2, <1>3, EnterInv
<1>5. AsideOf(b, c) /\ c.state # "LISTEN"
  <2>1. Sound(b)
    BY <1>4 DEF Handling, Sound
  <2>2. AsideOf(b, c)
    BY <1>2, <2>1, StateAside
  <2> QED
    BY <1>2, <2>1, <2>2 DEF Sound, IsTcp, Fields
<1>6. Keeps(b, c, q) /\ Handling(c, q)
  BY <1>4, <1>5, AsideKeeps DEF Keeps
<1>7. c.snd_nxt = 0 /\ c.sbuf = <<>>
  <2>1. tcp[e].snd_nxt = 0 /\ tcp[e].sbuf = <<>>
    BY <1>4 DEF Connect, SndInv
  <2> QED
    BY <1>4, <1>5, <2>1 DEF AsideOf, SameSnd
<1>8. Keeps(c, u, q) /\ Handling(u, q)
  <2>1. Keeps(c, u, q)
    BY <1>2, <1>4, <1>5, <1>6, <1>7, QueueConnectKeeps
  <2> QED
    BY <2>1 DEF Keeps
<1>9. Keeps(u, t, q) /\ Still(u, t) /\ DOMAIN t = Fields
  <2>1. Keeps(u, t, q)
    BY <1>2, <1>4, <1>8, AttemptSendKeeps
  <2>2. Still(u, t)
    BY <1>2, <1>4, <1>8, AttemptSendStill
  <2> QED
    BY <2>1, <2>2 DEF Keeps, Handling, IsTcp
<1>10. Fits(e, b, app[e]) /\ b.state = "LISTEN"
  BY <1>2, EnterFits DEF Connect
<1>11. Honest(b, app[e], plan.bytes[e])
  BY <1>10 DEF Fits
<1>12. Kept(b, c) /\ c.state = "SYN_SENT" /\ Marked(c)
  <2>1. DOMAIN b = Fields /\ Marked(b)
    BY <1>4, <1>11 DEF Handling, IsTcp, Honest
  <2> QED
    BY <1>2, <2>1, StateIs
<1>13. Given(c, u, 1) /\ Total(u) = 1
  BY <1>2, <1>6, <1>7, <1>12, QueueConnectGiven DEF Handling
<1>14. u.state = "SYN_SENT" /\ Kept(b, u) /\ Marked(u)
  <2>1. Calm(c, u) /\ u.state = c.state /\ Marked(u)
    BY <1>13 DEF Given
  <2> QED
    BY <1>12, <2>1, CalmKept, KeptTrans
<1>15. Fits(e, u, app[e])
  <2>1. Honest(u, app[e], plan.bytes[e])
    <3>1. app[e].sent = 0
      BY <1>10, <1>11 DEF Honest, Ledger
    <3>2. Ledger(u, app[e].sent)
      BY <1>13, <1>14, <3>1 DEF Ledger
    <3>3. RcvBooks(u, Len(app[e].got))
      BY <1>11, <1>14 DEF Honest, RcvBooks, Kept
    <3> QED
      BY <1>11, <1>14, <3>2, <3>3 DEF Honest, Kept
  <2>2. ASSUME Orderly PROVE Verbatim(u, app[e]) /\ Heard(u, q, app[f].sent, f) /\ Heard(q, u, app[e].sent, e)
    <3>1. Verbatim(b, app[e]) /\ Heard(b, q, app[f].sent, f) /\ Heard(q, b, app[e].sent, e)
      BY <1>2, <1>10, <2>2, Zenon DEF Fits
    <3>2. Verbatim(u, app[e])
      BY <1>14, <3>1 DEF Verbatim, Text, Kept
    <3>3. plan.connect # {f}
      BY <1>3 DEF Connect
    <3>4. Heard(u, q, app[f].sent, f)
      BY <1>10, <1>14, <3>1, <3>3 DEF Heard, Kept
    <3>5. Heard(q, u, app[e].sent, e)
      BY <1>14, <3>1 DEF Heard
    <3> QED
      BY <3>2, <3>4, <3>5
  <2> QED
    BY <1>2, <2>1, <2>2, Zenon DEF Fits
<1>16. Fits(e, t, app[e])
  BY <1>9, <1>15, StillFits
<1>17. t.state # "ESTABLISHED"
  BY <1>9, <1>14 DEF Still, Calm
<1>18. plan' = plan /\ app' = [app EXCEPT ![e] = app[e]] /\ net \in SUBSET net
  BY <1>3, AppSame DEF Connect
<1> QED
  BY <1>3, <1>9, <1>16, <1>17, <1>18, LeaveData

\* An application writes no more than it has left.
LEMMA WriteFits ==
  ASSUME Inv, NEW e \in Peers, Write(e), NEW n, n = WriteSize(e)
  PROVE  /\ n \in Nat /\ app[e].sent \in Nat /\ app[e].sent + n <= plan.bytes[e]
         /\ app' = [app EXCEPT ![e] = [app[e] EXCEPT !.sent = app[e].sent + n, !.writing = n > 0]]
<1>1. IsTcp(tcp[e]) /\ SndInv(tcp[e]) /\ n \in Nat /\ app[e].sent \in Nat
  BY WriteSizeIs DEF Inv, Link, Handling
<1>2. Len(tcp[e].sbuf) \in Nat /\ SndBufLen \in Nat
  BY <1>1, Numbers, Constants
<1>3. plan.bytes[e] \in Nat /\ app[e].sent < plan.bytes[e]
  BY PlanIs DEF Inv, Counters, Write
<1>4. PICK x \in Int, y \in Nat : x = SndSpace(tcp[e]) /\ y = plan.bytes[e] - app[e].sent
  <2>1. PICK l \in Nat : l = Len(tcp[e].sbuf)
    BY <1>2
  <2>2. SndSpace(tcp[e]) \in Int
    BY <1>2, <2>1 DEF SndSpace
  <2>3. plan.bytes[e] - app[e].sent \in Nat
    BY <1>1, <1>3
  <2> QED
    BY <2>2, <2>3
<1>5. n = IF x <= y THEN x ELSE y
  BY <1>4, OfTwo DEF WriteSize
<1>6. app[e].sent + n <= plan.bytes[e]
  BY <1>1, <1>3, <1>4, <1>5
<1>7. app' = [app EXCEPT ![e] = [app[e] EXCEPT !.sent = app[e].sent + n, !.writing = n > 0]]
  <2>1. PICK w : w = (n > 0)
    OBVIOUS
  <2>2. app' = [app EXCEPT ![e].sent = @ + n, ![e].writing = w]
    BY <2>1, Zenon DEF Write
  <2>3. app \in [Peers -> AppState]
    BY DEF Inv, Counters
  <2>4. app' = [app EXCEPT ![e] = [app[e] EXCEPT !.sent = app[e].sent + n, !.writing = w]]
    BY <2>2, <2>3 DEF AppState
  <2> QED
    BY <2>1, <2>4, Zenon
<1> QED
  BY <1>1, <1>6, <1>7

LEMMA SendData ==
  ASSUME DataInv, Inv', NEW e \in Peers, Send(e)
  PROVE  DataInv'
<1>1. Write(e) /\ plan' = plan /\ Inv
  BY DEF Send, DataInv
<1>2. PICK n, a, f, q, s : n = WriteSize(e) /\ a = app[e] /\ f = Other(e) /\ q = tcp[f] /\ s = tcp[e]
  OBVIOUS
<1>3. /\ n \in Nat /\ Len(s.sbuf) + n <= SndBufLen
      /\ (SndSpace(s) > 0 => n > 0) /\ s.state = "ESTABLISHED"
  BY <1>1, <1>2, WriteSizeIs
<1>4. PICK c : c = [a EXCEPT !.sent = a.sent + n, !.writing = n > 0]
  OBVIOUS
<1>5. a.sent \in Nat /\ a.sent + n <= plan.bytes[e] /\ app' = [app EXCEPT ![e] = c]
  BY <1>1, <1>2, <1>4, WriteFits
<1>6. c.sent = a.sent + n /\ c.writing = (n > 0) /\ c.got = a.got /\ c.reading = a.reading
  <2>1. a \in AppState
    BY <1>1, <1>2 DEF Inv, Counters
  <2>2. PICK w : w = (n > 0)
    OBVIOUS
  <2>3. c = [a EXCEPT !.sent = a.sent + n, !.writing = w]
    BY <1>4, <2>2, Zenon
  <2>4. c.sent = a.sent + n /\ c.writing = w /\ c.got = a.got /\ c.reading = a.reading
    BY <2>1, <2>3 DEF AppState
  <2> QED
    BY <2>2, <2>4, Zenon
<1>7. IsTcp(s) /\ SndInv(s) /\ DOMAIN s = Fields /\ Len(s.sbuf) \in Nat /\ SndBufLen \in Nat
  BY <1>1, <1>2, Numbers, Constants DEF Inv, Link, Handling, IsTcp
<1>8. ASSUME SndSpace(s) = 0, tcp' = [tcp EXCEPT ![e].writeEnable = TRUE], UNCHANGED <<net, path, fails>>
      PROVE  DataInv'
  <2>1. PICK t : t = [s EXCEPT !.writeEnable = TRUE]
    OBVIOUS
  <2>2. tcp' = [tcp EXCEPT ![e] = t]
    BY <1>2, <1>8, <2>1
  <2>3. n = 0 /\ Len(s.sbuf) >= Half
    <3>1. Len(s.sbuf) = SndBufLen
      BY <1>7, <1>8 DEF SndSpace
    <3>2. SndBufLen >= (SndBufLen + RcvBufLen) \div 2
      BY Constants
    <3> QED
      BY <1>3, <1>7, <3>1, <3>2 DEF Half
  <2>4. /\ t.writeEnable = TRUE /\ t.state = s.state /\ t.readEnable = s.readEnable
        /\ t.shutdown = s.shutdown /\ t.snd_wnd = s.snd_wnd /\ t.snd_nxt = s.snd_nxt
        /\ t.rcv_nxt = s.rcv_nxt /\ t.rlist = s.rlist /\ t.rbuf = s.rbuf /\ t.ahead = s.ahead
        /\ t.snd_una = s.snd_una /\ t.sbuf = s.sbuf /\ t.slist = s.slist /\ t.out = s.out
    BY <1>7, <2>1 DEF Fields
  <2>5. c.sent = a.sent
    BY <1>5, <1>6, <2>3
  <2>6. Fits(e, s, a)
    BY <1>2 DEF DataInv
  <2>7. Fits(e, t, c)
    <3>1. Honest(t, c, plan.bytes[e])
      <4>1. Honest(s, a, plan.bytes[e])
        BY <2>6 DEF Fits
      <4>2. Marked(t) /\ Ledger(t, c.sent)
        BY <2>4, <2>5, <4>1 DEF Honest, Marked, Ledger, Total
      <4>3. RcvBooks(t, Len(c.got))
        BY <1>6, <2>4, <4>1 DEF Honest, RcvBooks
      <4> QED
        BY <1>6, <2>3, <2>4, <2>5, <4>1, <4>2, <4>3 DEF Honest
    <3>2. ASSUME Orderly PROVE /\ Verbatim(t, c) /\ Heard(t, q, app[f].sent, f)
                               /\ Heard(q, t, c.sent, e)
      <4>1. Verbatim(s, a) /\ Heard(s, q, app[f].sent, f) /\ Heard(q, s, a.sent, e)
        BY <1>2, <2>6, <3>2, Zenon DEF Fits
      <4>2. Verbatim(t, c)
        BY <1>6, <2>4, <4>1 DEF Verbatim, Text
      <4> QED
        BY <2>4, <2>5, <4>1, <4>2 DEF Heard
    <3> QED
      BY <1>2, <3>1, <3>2, Zenon DEF Fits
  <2>8. t.state = "ESTABLISHED" => Drained(t) \/ fails' > 0
    BY <1>2, <1>8, <2>4 DEF DataInv, Drained
  <2>9. fails <= fails' /\ net' = net
    <3>1. plan.failures \in Nat /\ fails \in 0..plan.failures
      BY PlanIs DEF DataInv, Inv, Counters
    <3> QED
      BY <1>8, <3>1
  <2> QED
    BY <1>1, <1>5, <2>2, <2>7, <2>8, <2>9, Stepped
<1>9. ASSUME SndSpace(s) > 0,
             \E room \in Rooms, late \in BOOLEAN :
               LET data == [i \in 1..WriteSize(e) |-> app[e].sent + i]
               IN Leave(e, AttemptSend(Queue(Enter(e, room), data, FALSE), "none", late), net)
      PROVE  DataInv'
  <2>1. PICK data : data = [i \in 1..WriteSize(e) |-> app[e].sent + i]
    OBVIOUS
  <2>2. PICK room \in Rooms, late \in BOOLEAN :
          Leave(e, AttemptSend(Queue(Enter(e, room), data, FALSE), "none", late), net)
    BY <1>9, <2>1, Zenon
  <2>3. PICK b, u, t : /\ b = Enter(e, room) /\ u = Queue(b, data, FALSE)
                       /\ t = AttemptSend(u, "none", late)
    OBVIOUS
  <2>4. Leave(e, t, net)
    BY <2>2, <2>3, Zenon
  <2>5. /\ Handling(b, q) /\ SameSnd(s, b) /\ IsTcp(q) /\ b.state = s.state
    BY <1>1, <1>2, <2>3, EnterInv
  <2>6. PICK k \in Nat : k = a.sent
    BY <1>5
  <2>7. data = [i \in 1..n |-> k + i] /\ n > 0
    BY <1>2, <1>3, <1>9, <2>1, <2>6
  <2>8. data \in Seq(Nat) /\ Len(data) = n
    BY <1>3, <2>7
  <2>9. Fits(e, b, a) /\ Honest(b, a, plan.bytes[e])
    BY <1>2, <2>3, EnterFits DEF Fits
  <2>10. Total(b) = k + 1
    BY <1>3, <2>5, <2>6, <2>9 DEF Honest, Ledger
  <2>11. Filled(Total(b), data)
    <3>1. \A i \in 1..n : data[i] = (k + 1) + i - 1
      BY <1>3, <2>7
    <3> QED
      BY <2>8, <2>10, <3>1 DEF Filled
  <2>12. Keeps(b, u, q) /\ Handling(u, q)
    <3>1. Len(b.sbuf) + Len(data) <= SndBufLen /\ b.state # "LISTEN"
      BY <1>3, <2>5, <2>8 DEF SameSnd
    <3>2. Keeps(b, u, q)
      BY <2>3, <2>5, <2>7, <2>8, <3>1, QueueKeeps
    <3> QED
      BY <3>2 DEF Keeps
  <2>13. Given(b, u, n)
    <3>1. IsTcp(b) /\ SndInv(b) /\ Marked(b)
      BY <2>5, <2>9 DEF Handling, Honest
    <3>2. Len(data) > 0 /\ Total(b) > 0
      <4>1. k + 1 > 0
        BY <2>6
      <4> QED
        BY <2>7, <2>8, <2>10, <4>1
    <3> QED
      BY <2>3, <2>8, <2>11, <3>1, <3>2, QueueGiven
  <2>14. Calm(b, u) /\ u.state = b.state /\ Marked(u) /\ Total(u) = Total(b) + n
    BY <2>13 DEF Given
  <2>15. /\ u.readEnable = b.readEnable /\ u.shutdown = b.shutdown /\ u.rcv_nxt = b.rcv_nxt
         /\ u.rlist = b.rlist /\ u.rbuf = b.rbuf /\ u.ahead = b.ahead
    BY <2>14 DEF Calm
  <2>16. Fits(e, u, c)
    <3>1. Honest(u, c, plan.bytes[e])
      <4>1. Total(u) = (k + n) + 1
        BY <1>3, <2>10, <2>14
      <4>2. u.state = "ESTABLISHED" /\ c.sent = k + n
        BY <1>3, <1>6, <2>5, <2>6, <2>14
      <4>3. Ledger(u, c.sent)
        BY <1>3, <4>1, <4>2 DEF Ledger
      <4>4. RcvBooks(u, Len(c.got))
        BY <1>6, <2>9, <2>15 DEF Honest, RcvBooks
      <4>5. c.sent <= plan.bytes[e] /\ c.writing
        BY <1>5, <1>6, <2>7
      <4> QED
        BY <1>6, <2>9, <2>14, <2>15, <4>3, <4>4, <4>5 DEF Honest
    <3>2. ASSUME Orderly PROVE /\ Verbatim(u, c) /\ Heard(u, q, app[f].sent, f)
                               /\ Heard(q, u, c.sent, e)
      <4>1. Verbatim(b, a) /\ Heard(b, q, app[f].sent, f) /\ Heard(q, b, a.sent, e)
        BY <1>2, <2>9, <3>2, Zenon DEF Fits
      <4>2. Verbatim(u, c)
        BY <1>6, <2>15, <4>1 DEF Verbatim, Text
      <4>3. Heard(u, q, app[f].sent, f)
        BY <2>14, <2>15, <4>1 DEF Heard
      <4>4. ~(q.rcv_nxt = 0 /\ q.state # "CLOSED")
        <5> SUFFICES ASSUME q.rcv_nxt = 0, q.state # "CLOSED" PROVE FALSE
          OBVIOUS
        <5>1. ~plan.open /\ plan.connect # {e}
          BY <1>3, <2>5, <4>1 DEF Heard
        <5>2. PICK h \in Peers : plan.connect = {h} /\ plan.bytes[Other(h)] = 0
          BY <3>2, <5>1 DEF Orderly
        <5>3. Other(h) = e
          BY <5>1, <5>2, Peer
        <5>4. plan.bytes[e] \in Nat
          BY <1>1, PlanIs DEF Inv, Counters
        <5> QED
          BY <1>3, <1>5, <2>7, <5>2, <5>3, <5>4
      <4> QED
        BY <4>2, <4>3, <4>4 DEF Heard
    <3> QED
      BY <1>2, <3>1, <3>2, Zenon DEF Fits
  <2>17. Keeps(u, t, q) /\ Still(u, t) /\ (u.room > 0 => Drained(t))
    BY <2>3, <2>5, <2>12, AttemptSendKeeps, AttemptSendStill
  <2>18. Fits(e, t, c)
    BY <2>16, <2>17, StillFits
  <2>19. DOMAIN t = Fields /\ t.room = u.room /\ u.room \in MssLevels \cup {0}
    BY <2>12, <2>17 DEF Keeps, Later, Handling, IsTcp
  <2>20. t.room = 0 \/ Drained(t)
    <3>1. u.room = 0 \/ u.room > 0
      BY <2>19, Constants
    <3> QED
      BY <2>17, <2>19, <3>1
  <2>21. net \in SUBSET net
    OBVIOUS
  <2> QED
    BY <1>1, <1>5, <2>4, <2>18, <2>19, <2>20, <2>21, LeaveData
<1> QED
  BY <1>2, <1>8, <1>9, Zenon DEF Send

LEMMA Gap ==
  ASSUME NEW n \in Nat, NEW l \in Nat, n <= l
  PROVE  \E m \in Nat : m = l - n /\ n + m = l
  OBVIOUS

\* A read takes the k bytes d from the front of b and leaves r.
Divided(b, d, r, k) ==
  /\ k \in Nat /\ k <= Len(b) /\ d \in Seq(Nat) /\ Len(d) = k
  /\ r \in Seq(Nat) /\ Len(r) + k = Len(b)
  /\ \A i \in 1..k : d[i] = b[i]
  /\ \A i \in 1..Len(r) : r[i] = b[k + i]

LEMMA Split ==
  ASSUME NEW b \in Seq(Nat), NEW n \in Nat, NEW k, k = Min({n, Len(b)}),
         NEW d, d = SubSeq(b, 1, k), NEW r, r = SubSeq(b, n + 1, Len(b))
  PROVE  Divided(b, d, r, k)
<1>1. PICK l \in Nat : l = Len(b)
  OBVIOUS
<1>2. k = IF n <= l THEN n ELSE l
  BY <1>1, OfTwo
<1>3. k \in Nat /\ k <= l /\ 0 + k <= Len(b) /\ 0 \in Nat
  BY <1>1, <1>2
<1>4. d = SubSeq(b, 0 + 1, 0 + k)
  <2>1. 0 + 1 = 1 /\ 0 + k = k
    BY <1>3
  <2> QED
    BY <2>1
<1>5. d \in Seq(Nat) /\ Len(d) = k /\ \A i \in 1..k : d[i] = b[i]
  <2>1. SubSeq(b, 0 + 1, 0 + k) \in Seq(Nat) /\ Len(SubSeq(b, 0 + 1, 0 + k)) = k
    BY <1>3, Piece
  <2>2. \A i \in 1..k : SubSeq(b, 0 + 1, 0 + k)[i] = b[0 + i]
    BY <1>3, PieceElements
  <2>3. \A i \in 1..k : 0 + i = i
    OBVIOUS
  <2> QED
    BY <1>4, <2>1, <2>2, <2>3, Zenon
<1>6. CASE n <= l
  <2>1. k = n /\ r \in Seq(Nat) /\ Len(r) = l - n
    BY <1>1, <1>2, <1>6, Remainder
  <2>2. PICK m \in Nat : m = l - n /\ n + m = l
    BY <1>6, Gap
  <2>3. n + m <= Len(b) /\ n + m = Len(b)
    BY <1>1, <2>2
  <2>4. \A i \in 1..m : SubSeq(b, n + 1, n + m)[i] = b[n + i]
    BY <2>3, PieceElements
  <2>5. \A i \in 1..Len(r) : r[i] = b[k + i]
    BY <2>1, <2>2, <2>3, <2>4
  <2>6. Len(r) + k = Len(b)
    BY <1>1, <1>6, <2>1
  <2> QED
    BY <1>1, <1>3, <1>5, <2>1, <2>5, <2>6, Zenon DEF Divided
<1>7. CASE ~(n <= l)
  <2>1. k = l /\ r = <<>>
    <3>1. r \in Seq(Nat) /\ Len(r) = 0
      <4>1. ~(n + 1 <= Len(b))
        BY <1>1, <1>7
      <4>2. n + 1 \in Int /\ Len(b) \in Int /\ \A i \in (n + 1)..Len(b) : b[i] \in Nat
        BY <1>1, <4>1
      <4>3. SubSeq(b, n + 1, Len(b)) \in Seq(Nat) /\ Len(SubSeq(b, n + 1, Len(b))) = 0
        BY <1>1, <4>1, <4>2, SubSeqProperties
      <4> QED
        BY <4>3
    <3> QED
      BY <1>2, <1>7, <3>1
  <2>2. Len(r) = 0 /\ r \in Seq(Nat) /\ \A i \in 1..0 : r[i] = b[k + i]
    <3>1. Len(<<>>) = 0 /\ <<>> \in Seq(Nat) /\ \A i : i \notin 1..0
      OBVIOUS
    <3> QED
      BY <2>1, <3>1, Zenon
  <2>3. Len(r) + k = Len(b)
    BY <1>1, <1>3, <2>1, <2>2
  <2> QED
    BY <1>1, <1>3, <1>5, <2>2, <2>3, Zenon DEF Divided
<1> QED
  BY <1>6, <1>7

\* The application reads d, and endpoint s and application a become t and c.
ReadBy(s, t, a, c, d) ==
  /\ c.got = a.got \o d /\ c.sent = a.sent /\ c.writing = a.writing /\ c.reading = (s.rbuf # <<>>)
  /\ a.reading = TRUE /\ t.readEnable = (IF s.rbuf = <<>> THEN TRUE ELSE s.readEnable)
  /\ t.shutdown = s.shutdown /\ t.writeEnable = s.writeEnable /\ t.rcv_nxt = s.rcv_nxt
  /\ t.rlist = s.rlist /\ t.ahead = s.ahead /\ t.state = s.state /\ t.snd_una = s.snd_una
  /\ t.sbuf = s.sbuf /\ t.slist = s.slist /\ t.out = s.out

LEMMA ReadFits ==
  ASSUME NEW e, NEW s, NEW t, NEW a \in AppState, NEW c, NEW d, NEW k, s.rbuf \in Seq(Nat),
         Divided(s.rbuf, d, t.rbuf, k), ReadBy(s, t, a, c, d), Fits(e, s, a)
  PROVE  Fits(e, t, c)
<1>0. /\ k \in Nat /\ d \in Seq(Nat) /\ Len(d) = k /\ t.rbuf \in Seq(Nat)
      /\ Len(t.rbuf) + k = Len(s.rbuf) /\ \A i \in 1..k : d[i] = s.rbuf[i]
      /\ \A i \in 1..Len(t.rbuf) : t.rbuf[i] = s.rbuf[k + i]
  BY DEF Divided
<1>1. PICK f, q, m : f = Other(e) /\ q = tcp[f] /\ m = plan.bytes[e]
  OBVIOUS
<1>2. Honest(s, a, m)
  BY <1>1 DEF Fits
<1>3. PICK g \in Nat, l \in Nat, r \in Nat : g = Len(a.got) /\ l = Len(s.rbuf) /\ r = Len(t.rbuf)
  BY <1>0 DEF AppState
<1>4. k \in Nat /\ r + k = l
  BY <1>0, <1>3
<1>5. a.got \in Seq(Nat)
  BY DEF AppState
<1>6. /\ Len(c.got) = g + k
      /\ \A i \in 1..(g + k) : c.got[i] = IF i <= g THEN a.got[i] ELSE d[i - g]
  <2>1. PICK h \in Seq(Nat) : h = a.got
    BY <1>5
  <2>2. /\ Len(h \o d) = Len(h) + Len(d)
        /\ \A i \in 1..(Len(h) + Len(d)) : (h \o d)[i] = IF i <= Len(h) THEN h[i] ELSE d[i - Len(h)]
    BY <1>0, ConcatElements
  <2>3. PICK hd : hd = h \o d
    OBVIOUS
  <2>4. c.got = hd /\ Len(h) = g /\ Len(d) = k
    BY <1>0, <1>3, <2>1, <2>3 DEF ReadBy
  <2>5. Len(hd) = g + k /\ \A i \in 1..(g + k) : hd[i] = IF i <= g THEN h[i] ELSE d[i - g]
    BY <2>2, <2>3, <2>4
  <2> QED
    BY <2>1, <2>4, <2>5
<1>7. Honest(t, c, m)
  <2>1. Marked(t) /\ Ledger(t, c.sent)
    BY <1>2 DEF Honest, Marked, Ledger, Total, ReadBy
  <2>2. RcvBooks(t, Len(c.got))
    <3>1. (g + k) + r = g + l
      BY <1>4
    <3> QED
      BY <1>2, <1>3, <1>6, <3>1 DEF Honest, RcvBooks, ReadBy
  <2>3. t.readEnable <=> ~c.reading
    <3>1. CASE s.rbuf = <<>>
      BY <3>1 DEF ReadBy
    <3>2. CASE s.rbuf # <<>>
      BY <1>2, <3>2 DEF Honest, ReadBy
    <3> QED
      BY <3>1, <3>2
  <2>4. t.rbuf # <<>> => ~t.readEnable
    <3>1. t.rbuf # <<>> => s.rbuf # <<>>
      <4>1. ASSUME t.rbuf # <<>>, s.rbuf = <<>> PROVE FALSE
        <5>1. r # 0 /\ l = 0
          BY <1>0, <1>3, <4>1
        <5> QED
          BY <1>4, <5>1
      <4> QED
        BY <4>1
    <3> QED
      BY <1>2, <3>1 DEF Honest, ReadBy
  <2>5. t.state = "ESTABLISHED" /\ c.sent < m /\ ~c.writing => t.writeEnable /\ Len(t.sbuf) >= Half
    BY <1>2 DEF Honest, ReadBy
  <2> QED
    BY <1>2, <2>1, <2>2, <2>3, <2>4, <2>5 DEF Honest, ReadBy
<1>8. ASSUME Orderly PROVE /\ Verbatim(t, c) /\ Heard(t, q, app[f].sent, f) /\ Heard(q, t, c.sent, e)
  <2>1. Verbatim(s, a) /\ Heard(s, q, app[f].sent, f) /\ Heard(q, s, a.sent, e)
    BY <1>1, <1>8, Zenon DEF Fits
  <2>2. /\ \A i \in 1..g : a.got[i] = i
        /\ \A i \in 1..l : s.rbuf[i] = g + i
    BY <1>3, <2>1 DEF Verbatim, Text
  <2>3. \A i \in 1..(g + k) : c.got[i] = i
    <3> TAKE i \in 1..(g + k)
    <3>1. CASE i <= g
      <4>1. i \in 1..g
        BY <3>1
      <4> QED
        BY <1>6, <2>2, <3>1, <4>1
    <3>2. CASE ~(i <= g)
      <4>1. PICK j \in 1..k : j = i - g /\ i = g + j
        BY <1>4, <3>2
      <4>2. c.got[i] = d[j] /\ d[j] = s.rbuf[j] /\ j \in 1..l
        <5>1. c.got[i] = d[j]
          BY <1>6, <3>2, <4>1
        <5>2. j \in 1..l
          BY <1>4, <4>1
        <5> QED
          BY <1>0, <4>1, <5>1, <5>2
      <4> QED
        BY <2>2, <4>1, <4>2
    <3> QED
      BY <3>1, <3>2
  <2>4. \A i \in 1..r : t.rbuf[i] = (g + k) + i
    <3> TAKE i \in 1..r
    <3>1. k + i \in 1..l /\ t.rbuf[i] = s.rbuf[k + i]
      BY <1>0, <1>3, <1>4
    <3>2. s.rbuf[k + i] = g + (k + i)
      BY <2>2, <3>1
    <3> QED
      BY <1>4, <3>1, <3>2
  <2>5. Text(t, Len(c.got))
    BY <1>3, <1>6, <2>1, <2>4 DEF Verbatim, Text, ReadBy
  <2>6. Verbatim(t, c)
    BY <1>6, <2>3, <2>5 DEF Verbatim
  <2>7. Heard(t, q, app[f].sent, f) /\ Heard(q, t, c.sent, e)
    BY <2>1 DEF Heard, ReadBy
  <2> QED
    BY <2>6, <2>7
<1> QED
  BY <1>1, <1>7, <1>8, Zenon DEF Fits

LEMMA RecvData ==
  ASSUME DataInv, Inv', NEW e \in Peers, NEW n \in Nat, Recv(e, n)
  PROVE  DataInv'
<1>1. Read(e, n) /\ plan' = plan /\ Inv
  BY DEF Recv, DataInv
<1>2. PICK a, f, q, s : a = app[e] /\ f = Other(e) /\ q = tcp[f] /\ s = tcp[e]
  OBVIOUS
<1>3. PICK k, d, r : k = Min({n, Len(s.rbuf)}) /\ d = SubSeq(s.rbuf, 1, k)
                     /\ r = SubSeq(s.rbuf, n + 1, Len(s.rbuf))
  OBVIOUS
<1>4. IsTcp(s) /\ DOMAIN s = Fields /\ a \in AppState /\ s.rbuf \in Seq(Nat)
  BY <1>1, <1>2 DEF Inv, Link, Handling, IsTcp, Counters
<1>5. Divided(s.rbuf, d, r, k)
  BY <1>3, <1>4, Split
<1>6. PICK w, g : w = (s.rbuf # <<>>) /\ g = a.got \o d
  OBVIOUS
<1>7. PICK c : c = [a EXCEPT !.got = g, !.reading = w]
  OBVIOUS
<1>8. app' = [app EXCEPT ![e] = c]
  <2>1. app' = [app EXCEPT ![e].got = @ \o d, ![e].reading = w]
    BY <1>1, <1>2, <1>3, <1>6, Zenon DEF Read
  <2>2. app \in [Peers -> AppState]
    BY <1>1 DEF Inv, Counters
  <2> QED
    BY <1>2, <1>6, <1>7, <2>1, <2>2 DEF AppState
<1>9. c.got = a.got \o d /\ c.sent = a.sent /\ c.writing = a.writing /\ c.reading = (s.rbuf # <<>>)
  <2>1. c.got = g /\ c.sent = a.sent /\ c.writing = a.writing /\ c.reading = w
    BY <1>4, <1>7 DEF AppState
  <2> QED
    BY <1>6, <2>1, Zenon
<1>10. a.reading = TRUE /\ s.state = "ESTABLISHED"
  <2>1. a.reading /\ a.reading \in BOOLEAN
    BY <1>1, <1>2, <1>4 DEF Read, AppState
  <2> QED
    BY <1>1, <1>2, <2>1 DEF Read
<1>11. Fits(e, s, a)
  BY <1>2 DEF DataInv
<1>12. ASSUME s.rbuf = <<>>, tcp' = [tcp EXCEPT ![e].readEnable = TRUE], UNCHANGED <<net, path, fails>>
       PROVE  DataInv'
  <2>1. PICK t : t = [s EXCEPT !.readEnable = TRUE]
    OBVIOUS
  <2>2. tcp' = [tcp EXCEPT ![e] = t]
    BY <1>2, <1>12, <2>1
  <2>3. /\ t.readEnable = TRUE /\ t.state = s.state /\ t.writeEnable = s.writeEnable
        /\ t.shutdown = s.shutdown /\ t.snd_wnd = s.snd_wnd /\ t.snd_nxt = s.snd_nxt
        /\ t.rcv_nxt = s.rcv_nxt /\ t.rlist = s.rlist /\ t.rbuf = s.rbuf /\ t.ahead = s.ahead
        /\ t.snd_una = s.snd_una /\ t.sbuf = s.sbuf /\ t.slist = s.slist /\ t.out = s.out
    BY <1>4, <2>1 DEF Fields
  <2>4. Divided(s.rbuf, d, t.rbuf, k)
    <3>1. Len(s.rbuf) = 0 /\ \A x \in Seq(Nat) : Len(x) = 0 => x = <<>>
      BY <1>12
    <3>2. r = <<>>
      BY <1>5, <3>1 DEF Divided
    <3> QED
      BY <1>5, <1>12, <2>3, <3>2, Zenon
  <2>5. t.readEnable = (IF s.rbuf = <<>> THEN TRUE ELSE s.readEnable)
    BY <1>12, <2>3
  <2>6. ReadBy(s, t, a, c, d)
    BY <1>9, <1>10, <2>3, <2>5, Zenon DEF ReadBy
  <2>7. Fits(e, t, c)
    BY <1>4, <1>11, <2>4, <2>6, ReadFits
  <2>8. t.state = "ESTABLISHED" => Drained(t) \/ fails' > 0
    BY <1>2, <1>12, <2>3 DEF DataInv, Drained
  <2>9. fails <= fails' /\ net' = net
    <3>1. plan.failures \in Nat /\ fails \in 0..plan.failures
      BY PlanIs DEF DataInv, Inv, Counters
    <3> QED
      BY <1>12, <3>1
  <2> QED
    BY <1>1, <1>8, <2>2, <2>7, <2>8, <2>9, Stepped
<1>13. ASSUME s.rbuf # <<>>,
              \E room \in Rooms, late \in BOOLEAN :
              \E x \in {[Enter(e, room) EXCEPT !.rbuf = SubSeq(@, n + 1, Len(@))]} :
              \E t \in {[x EXCEPT !.rcv_wnd = WindowAfterRead(x)]} :
                Leave(e, IF x.rcv_wnd = 0 /\ t.rcv_wnd > 0
                         THEN AttemptSend(t, "immediate", late) ELSE t, net)
       PROVE  DataInv'
  <2>1. PICK room, late, x, t :
          /\ room \in Rooms /\ late \in BOOLEAN
          /\ x = AfterRead(Enter(e, room), n) /\ t = Reopened(x)
          /\ Leave(e, IF x.rcv_wnd = 0 /\ t.rcv_wnd > 0
                      THEN AttemptSend(t, "immediate", late) ELSE t, net)
    BY <1>13, Zenon DEF AfterRead, Reopened
  <2>2. PICK b, u : /\ b = Enter(e, room)
                    /\ u = IF x.rcv_wnd = 0 /\ t.rcv_wnd > 0
                           THEN AttemptSend(t, "immediate", late) ELSE t
    OBVIOUS
  <2>3. Leave(e, u, net)
    BY <2>1, <2>2, Zenon
  <2>4. Handling(b, q) /\ IsTcp(q) /\ SameSnd(s, b) /\ SameRcv(s, b)
    BY <1>1, <1>2, <2>1, <2>2, EnterInv
  <2>5. Keeps(b, x, q)
    BY <2>1, <2>2, <2>4, AfterReadKeeps
  <2>6. Keeps(x, t, q)
    BY <2>1, <2>4, <2>5, ReopenedKeeps DEF Keeps
  <2>7. Keeps(b, t, q) /\ Handling(t, q)
    BY <2>4, <2>5, <2>6, KeepsTrans DEF Keeps
  <2>8. /\ Keeps(t, u, q) /\ Still(t, u) /\ IsTcp(u) /\ DOMAIN u = Fields
        /\ t.snd_nxt <= u.snd_nxt
    <3>1. Keeps(t, u, q)
      BY <2>1, <2>2, <2>4, <2>7, AttemptSendKeeps, KeepsSelf
    <3>2. Still(t, u)
      <4>1. CASE u = t
        BY <4>1, StillSelf
      <4>2. CASE u = AttemptSend(t, "immediate", late)
        BY <2>1, <2>4, <2>7, <4>2, AttemptSendStill
      <4> QED
        BY <2>2, <4>1, <4>2
    <3> QED
      BY <3>1, <3>2 DEF Keeps, Handling, IsTcp, Later
  <2>9. Fits(e, b, a) /\ b.state = s.state /\ Still(s, b)
    BY <1>2, <2>2, EnterFits
  <2>10. b.rbuf = s.rbuf /\ DOMAIN b = Fields /\ b.readEnable = s.readEnable
    BY <2>4, <2>9 DEF SameRcv, Handling, IsTcp, Still, Calm
  <2>11. x = [b EXCEPT !.rbuf = r]
    <3>1. x = [b EXCEPT !.rbuf = SubSeq(b.rbuf, n + 1, Len(b.rbuf))]
      BY <2>1, <2>2 DEF AfterRead
    <3> QED
      BY <1>3, <2>10, <3>1, Zenon
  <2>12. PICK v : v = WindowAfterRead(x)
    OBVIOUS
  <2>13. t = [x EXCEPT !.rcv_wnd = v]
    BY <2>1, <2>12 DEF Reopened
  <2>14. /\ t.rbuf = r /\ t.readEnable = b.readEnable /\ t.state = b.state
         /\ t.writeEnable = b.writeEnable
         /\ t.shutdown = b.shutdown /\ t.snd_wnd = b.snd_wnd /\ t.snd_nxt = b.snd_nxt
         /\ t.rcv_nxt = b.rcv_nxt /\ t.rlist = b.rlist /\ t.ahead = b.ahead
         /\ t.snd_una = b.snd_una /\ t.sbuf = b.sbuf /\ t.slist = b.slist /\ t.out = b.out
    BY <2>10, <2>11, <2>13 DEF Fields
  <2>15. Fits(e, t, c)
    <3>1. t.readEnable = (IF b.rbuf = <<>> THEN TRUE ELSE b.readEnable)
      BY <1>13, <2>10, <2>14
    <3>2. Divided(b.rbuf, d, t.rbuf, k) /\ b.rbuf \in Seq(Nat) /\ c.reading = (b.rbuf # <<>>)
      BY <1>4, <1>5, <1>9, <2>10, <2>14, Zenon
    <3>3. ReadBy(b, t, a, c, d)
      BY <1>9, <1>10, <2>14, <3>1, <3>2, Zenon DEF ReadBy
    <3> QED
      BY <1>4, <2>9, <3>2, <3>3, ReadFits
  <2>16. Fits(e, u, c)
    BY <2>8, <2>15, StillFits
  <2>17. u.state = "ESTABLISHED" => u.room = 0 \/ Drained(u) \/ fails > 0
    <3>1. Drained(s) => Drained(t)
      BY <2>4, <2>14 DEF SameSnd, Drained
    <3>2. Drained(t) => Drained(u)
      BY <2>7, <2>8, DrainedLater DEF Handling
    <3> QED
      BY <1>2, <1>10, <3>1, <3>2 DEF DataInv
  <2>18. net \in SUBSET net
    OBVIOUS
  <2> QED
    BY <1>1, <1>8, <2>3, <2>8, <2>16, <2>17, <2>18, LeaveData
<1> QED
  BY <1>2, <1>12, <1>13, Zenon DEF Recv

\* The callbacks that the change from s to t makes turn application a into c.
CalledBack(s, t, a, c) ==
  /\ c.sent = a.sent /\ c.got = a.got
  /\ c.writing = (\/ a.writing
                  \/ s.state # "ESTABLISHED" /\ t.state = "ESTABLISHED"
                  \/ s.writeEnable /\ ~t.writeEnable)
  /\ c.reading = (a.reading \/ (s.readEnable /\ ~t.readEnable))

LEMMA CalledBackIs ==
  ASSUME Counters, NEW e \in Peers, NEW t, Called(e, t), NEW a, a = app[e]
  PROVE  \E c : CalledBack(tcp[e], t, a, c) /\ app' = [app EXCEPT ![e] = c]
<1>1. app \in [Peers -> AppState] /\ app[e] \in AppState
  BY DEF Counters
<1>2. PICK w, r :
        /\ w = (\/ a.writing
                \/ tcp[e].state # "ESTABLISHED" /\ t.state = "ESTABLISHED"
                \/ tcp[e].writeEnable /\ ~t.writeEnable)
        /\ r = (a.reading \/ (tcp[e].readEnable /\ ~t.readEnable))
  OBVIOUS
<1>3. app' = [app EXCEPT ![e].writing = w, ![e].reading = r]
  BY <1>1, <1>2 DEF Called
<1>4. PICK c : c = [a EXCEPT !.writing = w, !.reading = r]
  OBVIOUS
<1>5. c.sent = a.sent /\ c.got = a.got /\ c.writing = w /\ c.reading = r
  BY <1>1, <1>4 DEF AppState
<1>6. app' = [app EXCEPT ![e] = c]
  BY <1>1, <1>3, <1>4 DEF AppState
<1>7. CalledBack(tcp[e], t, a, c)
  BY <1>2, <1>5, Zenon DEF CalledBack
<1> QED
  BY <1>6, <1>7

\* The application after process().
LEMMA ProcessHonest ==
  ASSUME NEW s, NEW q, Handling(s, q), IsTcp(q), RcvInv(q), NEW p \in Segment, Good(q, p, s),
         Stamped(p), NEW a \in AppState, NEW m, Honest(s, a, m), NEW late \in BOOLEAN,
         NEW t, t = Process(s, p, late), IsTcp(t), NEW c, CalledBack(s, t, a, c)
  PROVE  Honest(t, c, m)
<1>1. PICK b \in Nat : b = Len(a.got)
  BY DEF AppState
<1>2. Marked(s) /\ RcvBooks(s, b) /\ a.sent \in Nat /\ Ledger(s, a.sent)
  BY <1>1 DEF Honest, AppState
<1>3. /\ Marked(t) /\ t.shutdown = s.shutdown /\ Moves(s, t, p)
      /\ \/ t.state = "CLOSED" /\ Kept(s, t)
         \/ /\ Takes(s, t, p, q)
            /\ t.writeEnable = (s.writeEnable /\ Len(t.sbuf) >= Half)
            /\ s.room > 0 => Drained(t)
  BY <1>2, ProcessIs
<1>4. c.sent = a.sent /\ c.got = a.got
  BY DEF CalledBack
<1>5. Ledger(t, c.sent)
  BY <1>2, <1>3, <1>4, MovesLedger
<1>6. RcvBooks(t, b) /\ Len(s.rbuf) <= Len(t.rbuf)
      /\ (t.readEnable => s.readEnable /\ Len(t.rbuf) = Len(s.rbuf))
  <2>1. CASE Kept(s, t)
    <3>1. t.rbuf = s.rbuf /\ t.rcv_nxt = s.rcv_nxt /\ t.readEnable = s.readEnable
      BY <2>1 DEF Kept
    <3>2. Len(s.rbuf) \in Nat
      BY Numbers DEF Handling
    <3> QED
      BY <1>2, <1>3, <3>1, <3>2 DEF RcvBooks
  <2>2. CASE Takes(s, t, p, q)
    <3>1. RcvBooks(t, b) /\ Len(s.rbuf) <= Len(t.rbuf)
      BY <1>2, <1>3, <2>2, TakesBooks
    <3>2. t.readEnable = (s.readEnable /\ Len(t.rbuf) = Len(s.rbuf))
      BY <2>2, Zenon DEF Takes
    <3> QED
      BY <3>1, <3>2
  <2> QED
    BY <1>3, <2>1, <2>2
<1>7. t.readEnable <=> ~c.reading
  <2>1. c.reading = (a.reading \/ (s.readEnable /\ ~t.readEnable))
    BY DEF CalledBack
  <2>2. s.readEnable <=> ~a.reading
    BY DEF Honest
  <2> QED
    BY <1>6, <2>1, <2>2
<1>8. t.rbuf # <<>> => ~t.readEnable
  <2> SUFFICES ASSUME t.readEnable PROVE t.rbuf = <<>>
    OBVIOUS
  <2>1. s.readEnable /\ Len(t.rbuf) = Len(s.rbuf)
    BY <1>6
  <2>2. s.rbuf = <<>>
    BY <2>1 DEF Honest
  <2>3. t.rbuf \in Seq(Nat)
    BY Numbers
  <2> QED
    BY <2>1, <2>2, <2>3
<1>9. ASSUME t.state = "ESTABLISHED", c.sent < m, ~c.writing
      PROVE  t.writeEnable /\ Len(t.sbuf) >= Half
  <2>1. c.writing = (\/ a.writing
                     \/ s.state # "ESTABLISHED" /\ t.state = "ESTABLISHED"
                     \/ s.writeEnable /\ ~t.writeEnable)
    BY DEF CalledBack
  <2>2. ~a.writing /\ s.state = "ESTABLISHED" /\ ~(s.writeEnable /\ ~t.writeEnable)
    BY <1>9, <2>1
  <2>3. s.writeEnable
    BY <1>4, <1>9, <2>2 DEF Honest
  <2>4. t.writeEnable = (s.writeEnable /\ Len(t.sbuf) >= Half)
    BY <1>3, <1>9
  <2> QED
    BY <2>2, <2>3, <2>4
<1>10. c.sent <= m /\ RcvBooks(t, Len(c.got))
  BY <1>1, <1>4, <1>6 DEF Honest
<1> QED
  BY <1>3, <1>5, <1>7, <1>8, <1>9, <1>10 DEF Honest

LEMMA NotifyPacketData ==
  ASSUME DataInv, Inv', NEW p \in net, NotifyPacket(p)
  PROVE  DataInv'
<1>1. PICK e, g : e = p.to /\ g = p.seg
  OBVIOUS
<1>2. e \in Peers /\ g \in Segment /\ Good(tcp[Other(e)], g, tcp[e]) /\ Stamped(g) /\ Inv
      /\ tcp[e].state # "CLOSED"
  BY <1>1 DEF DataInv, Inv, Link, NotifyPacket
<1>3. PICK copy, room, late, t :
        /\ copy \in BOOLEAN /\ room \in Rooms /\ late \in BOOLEAN
        /\ t = Process(Enter(e, room), g, late)
        /\ Leave(e, t, IF copy THEN net ELSE net \ {p})
        /\ Called(e, t)
  BY <1>1, Zenon DEF NotifyPacket
<1>4. PICK f, q, b, a, rest : /\ f = Other(e) /\ q = tcp[f] /\ b = Enter(e, room) /\ a = app[e]
                              /\ rest = IF copy THEN net ELSE net \ {p}
  OBVIOUS
<1>5. rest \in SUBSET net /\ Leave(e, t, rest)
  <2>1. rest \in SUBSET net
    BY <1>4
  <2>2. Leave(e, t, rest)
    BY <1>3, <1>4, Zenon
  <2> QED
    BY <2>1, <2>2
<1>6. Handling(b, q) /\ IsTcp(q) /\ RcvInv(q) /\ Good(q, g, b) /\ SndInv(q)
  <2>1. Handling(b, q) /\ Passes(tcp[e], b, q) /\ IsTcp(q) /\ RcvInv(q)
    BY <1>2, <1>3, <1>4, EnterInv
  <2>2. f \in Peers
    BY <1>2, <1>4, Peer
  <2>3. SndInv(q)
    BY <1>2, <1>4, <2>2 DEF Inv, Link, Handling
  <2> QED
    BY <1>2, <1>4, <2>1, <2>3 DEF Passes
<1>7. Keeps(b, t, q) /\ IsTcp(t) /\ DOMAIN t = Fields
  <2>1. Keeps(b, t, q)
    BY <1>2, <1>3, <1>4, <1>6, ProcessKeeps
  <2> QED
    BY <2>1 DEF Keeps, Handling, IsTcp
<1>8. a \in AppState
  BY <1>2, <1>4 DEF Inv, Counters
<1>9. Fits(e, b, a) /\ Honest(b, a, plan.bytes[e]) /\ Still(tcp[e], b) /\ b.state = tcp[e].state
  BY <1>2, <1>4, EnterFits DEF Fits
<1>10. PICK c : CalledBack(tcp[e], t, a, c) /\ app' = [app EXCEPT ![e] = c]
  BY <1>2, <1>3, <1>4, CalledBackIs DEF Inv
<1>11. CalledBack(b, t, a, c)
  <2>1. b.readEnable = tcp[e].readEnable /\ b.writeEnable = tcp[e].writeEnable
    BY <1>9 DEF Still, Calm
  <2> QED
    BY <1>9, <1>10, <2>1, Zenon DEF CalledBack
<1>12. Honest(t, c, plan.bytes[e])
  BY <1>2, <1>3, <1>4, <1>6, <1>7, <1>8, <1>9, <1>11, ProcessHonest
<1>13. PICK k \in Nat : k = Len(a.got)
  BY <1>8 DEF AppState
<1>14. /\ Marked(t) /\ t.shutdown = b.shutdown /\ Moves(b, t, g)
       /\ \/ t.state = "CLOSED" /\ Kept(b, t)
          \/ Takes(b, t, g, q) /\ (b.room > 0 => Drained(t))
  <2>1. Marked(b) /\ RcvBooks(b, k)
    BY <1>9, <1>13 DEF Honest
  <2> QED
    BY <1>2, <1>3, <1>4, <1>6, <2>1, ProcessIs
<1>15. ASSUME Orderly PROVE /\ Verbatim(t, c) /\ Heard(t, q, app[f].sent, f) /\ Heard(q, t, c.sent, e)
  <2>1. Verbatim(b, a) /\ Heard(b, q, app[f].sent, f) /\ Heard(q, b, a.sent, e)
    BY <1>4, <1>9, <1>15, Zenon DEF Fits
  <2>2. b.state # "CLOSED" /\ c.sent = a.sent /\ c.got = a.got
    BY <1>2, <1>9, <1>11 DEF CalledBack
  <2>3. PICK sq \in Nat, l \in Nat, sn \in Nat : sq = g.seq /\ l = Len(g.data) /\ sn = q.snd_nxt
    BY <1>2, <1>6, Numbers DEF Segment
  <2>4. /\ g.data # <<>> => sq + l <= sn /\ l > 0
        /\ g.ctl => sq = 0 /\ l = 1
        /\ ~g.ctl /\ g.data # <<>> => sq > 0
        /\ g.ctl \in BOOLEAN
    <3>1. g.data # <<>> => l > 0
      BY <1>2, <2>3 DEF Segment
    <3> QED
      BY <1>2, <1>6, <2>3, <3>1 DEF Good, Stamped, Segment
  <2>5. g.ctl => g.data # <<>>
    <3>1. Len(<<>>) = 0
      OBVIOUS
    <3>2. g.data = <<>> => l = 0
      BY <2>3, <3>1, Zenon
    <3> QED
      BY <2>4, <3>2
  <2>6. b.rcv_nxt = 0 /\ ~g.ctl => g.data = <<>>
    <3> SUFFICES ASSUME b.rcv_nxt = 0, ~g.ctl, g.data # <<>> PROVE FALSE
      OBVIOUS
    <3>1. app[f].sent = 0
      BY <2>1, <2>2 DEF Heard
    <3>2. Total(q) <= 1
      <4>1. Fits(f, q, app[f])
        BY <1>2, <1>4, Peer DEF DataInv
      <4>2. Ledger(q, app[f].sent)
        BY <4>1 DEF Fits, Honest
      <4> QED
        BY <3>1, <4>2 DEF Ledger
    <3>3. sn <= Total(q) /\ Total(q) \in Nat
      BY <1>6, <2>3, Numbers DEF SndInv, Total
    <3> QED
      BY <2>4, <3>2, <3>3
  <2>7. Verbatim(t, c)
    <3>1. Text(b, k) /\ \A i \in 1..k : a.got[i] = i
      BY <1>13, <2>1 DEF Verbatim
    <3>2. Text(t, k)
      <4>1. CASE Kept(b, t)
        BY <1>14, <3>1, <4>1 DEF Kept, Text
      <4>2. CASE Takes(b, t, g, q)
        <5>1. RcvBooks(b, k)
          BY <1>9, <1>13 DEF Honest
        <5> QED
          BY <1>2, <1>6, <1>14, <2>6, <3>1, <4>2, <5>1, TakesText
      <4> QED
        BY <1>14, <4>1, <4>2
    <3> QED
      BY <1>13, <2>2, <3>1, <3>2 DEF Verbatim
  <2>8. Heard(t, q, app[f].sent, f)
    <3> SUFFICES ASSUME t.rcv_nxt = 0, t.state # "CLOSED"
                 PROVE  /\ ~plan.open /\ app[f].sent = 0
                        /\ plan.connect = {f} => t.state = "LISTEN" /\ q.state \in {"LISTEN", "SYN_SENT", "CLOSED"}
      BY DEF Heard
    <3>1. b.rcv_nxt = 0
      <4>1. b.rcv_nxt \in Nat /\ b.rcv_nxt <= t.rcv_nxt
        BY <1>6, <1>7, Numbers DEF Handling, Keeps, Later
      <4> QED
        BY <4>1
    <3>2. ~g.ctl
      <4>1. Takes(b, t, g, q) /\ RcvBooks(b, k)
        BY <1>9, <1>13, <1>14 DEF Honest
      <4>2. g.ctl => t.rcv_nxt > 0
        BY <1>2, <1>6, <1>14, <4>1, TakesBooks
      <4> QED
        BY <4>2
    <3>3. b.state = "LISTEN" => t.state = "LISTEN"
      BY <1>14, <3>2 DEF Moves
    <3> QED
      BY <2>1, <2>2, <3>1, <3>3 DEF Heard
  <2>9. Heard(q, t, c.sent, e)
    <3> SUFFICES ASSUME q.rcv_nxt = 0, q.state # "CLOSED"
                 PROVE  /\ ~plan.open /\ c.sent = 0
                        /\ plan.connect = {e} => q.state = "LISTEN" /\ t.state \in {"LISTEN", "SYN_SENT", "CLOSED"}
      BY DEF Heard
    <3>1. /\ ~plan.open /\ a.sent = 0
          /\ plan.connect = {e} => q.state = "LISTEN" /\ b.state \in {"LISTEN", "SYN_SENT", "CLOSED"}
      BY <2>1 DEF Heard
    <3>2. q.state = "LISTEN" => ~g.ctl
      <4>1. q.state = "LISTEN" => sn = 0
        BY <1>6, <2>3 DEF SndInv
      <4> QED
        BY <2>4, <2>5, <4>1
    <3>3. ~g.ctl /\ b.state \in {"LISTEN", "SYN_SENT", "CLOSED"} => t.state \in {"LISTEN", "SYN_SENT", "CLOSED"}
      BY <1>14 DEF Moves
    <3> QED
      BY <2>2, <3>1, <3>2, <3>3
  <2> QED
    BY <2>7, <2>8, <2>9
<1>16. Fits(e, t, c)
  BY <1>4, <1>12, <1>15, Zenon DEF Fits
<1>17. t.state = "ESTABLISHED" => t.room = 0 \/ Drained(t)
  <2>1. t.room = b.room /\ b.room \in MssLevels \cup {0}
    BY <1>6, <1>7 DEF Keeps, Later, Handling, IsTcp
  <2>2. b.room = 0 \/ b.room > 0
    BY <2>1, Constants
  <2> QED
    BY <1>14, <2>1, <2>2
<1>18. plan' = plan
  BY DEF NotifyPacket
<1> QED
  BY <1>2, <1>5, <1>7, <1>10, <1>16, <1>17, <1>18, LeaveData

LEMMA ShrinkPathData ==
  ASSUME DataInv, Inv', UNCHANGED <<plan, tcp, app, net, fails>>
  PROVE  DataInv'
<1>1. (Orderly' <=> Orderly) /\ \A r, s, n, h : Heard(r, s, n, h)' <=> Heard(r, s, n, h)
  BY Zenon DEF Orderly, Heard
<1>2. \A e : Fits(e, tcp[e], app[e])' <=> Fits(e, tcp[e], app[e])
  BY <1>1 DEF Fits, Heard
<1> QED
  BY <1>2 DEF DataInv

LEMMA DataStep == DataInv /\ [Next]_vars => DataInv'
<1> SUFFICES ASSUME DataInv, [Next]_vars PROVE DataInv'
  OBVIOUS
<1>1. Inv'
  BY InvStep DEF DataInv
<1>2. CASE Next
  <2>1. ASSUME NEW e \in Peers, Connect(e) PROVE DataInv'
    BY <1>1, <2>1, ConnectData
  <2>2. ASSUME NEW e \in Peers, Send(e) PROVE DataInv'
    BY <1>1, <2>2, SendData
  <2>3. ASSUME NEW e \in Peers, NotifyMTU(e) PROVE DataInv'
    BY <1>1, <2>3, NotifyMTUData
  <2>4. ASSUME NEW e \in Peers, NEW n \in {1, RcvBufLen}, Recv(e, n) PROVE DataInv'
    <3>1. n \in Nat
      BY <2>4, Constants
    <3> QED
      BY <1>1, <2>4, <3>1, RecvData
  <2>5. ASSUME NEW e \in Peers, NEW mode \in Modes, Close(e, mode) PROVE DataInv'
    BY <1>1, <2>5, CloseData
  <2>6. ASSUME NEW p \in net, NotifyPacket(p) PROVE DataInv'
    BY <1>1, <2>6, NotifyPacketData
  <2>7. ASSUME NEW e \in Peers, NEW due \in SUBSET Armed(tcp[e]), NotifyClock(e, due) PROVE DataInv'
    BY <1>1, <2>7, NotifyClockData
  <2>8. CASE ShrinkPath
    BY <1>1, <2>8, ShrinkPathData DEF ShrinkPath
  <2> QED
    BY <1>2, <2>1, <2>2, <2>3, <2>4, <2>5, <2>6, <2>7, <2>8, Zenon DEF Next
<1>3. CASE UNCHANGED vars
  BY <1>1, <1>3, ShrinkPathData DEF vars
<1> QED
  BY <1>2, <1>3


----------------------------------------------------------------------------
(* The data at the beginning                                               *)

\* A connect message is answered with a connect message: the packets that process()
\* writes then have data.
LEMMA ConnectAnswer ==
  ASSUME NEW s, NEW q, Handling(s, q), IsTcp(q), RcvInv(q), NEW p \in Segment, Good(q, p, s),
         Stamped(p), p.ctl, p.ack = 0, RcvBooks(s, 0), Marked(s), s.rcv_nxt = 0, s.rbuf = <<>>,
         s.out = {}, s.t_ack = FALSE, q.snd_nxt <= 1, NEW late \in BOOLEAN,
         NEW t, t = Process(s, p, late)
  PROVE  \A g \in t.out : g.data # <<>>
<1>1. Keeps(s, s, q) /\ Sound(s) /\ DOMAIN s = Fields
  BY KeepsSelf, KeepsSound DEF Handling, IsTcp
<1>2. PICK s0 : s0 = [s EXCEPT !.probes = 0]
  OBVIOUS
<1>3. AsideOf(s, s0)
  <2>1. 0 \in Nat
    OBVIOUS
  <2> QED
    BY <1>1, <1>2, <2>1, ProbesAside, Zenon
<1>4. Keeps(s, s0, q)
  BY <1>1, <1>3, ThenAside
<1>5. Moved(s, s0) /\ s0.out = {} /\ s0.t_ack = FALSE
  <2>1. Beside(s, s0)
    BY <1>1, <1>2, OtherBeside, Zenon
  <2>2. s0.out = {} /\ s0.t_ack = FALSE
    BY <1>1, <1>2 DEF Fields
  <2> QED
    BY <2>1, <2>2, BesideStill, StillMoved
<1>6. PICK s1 : s1 = ProcessControl(s0, p)
  OBVIOUS
<1>7. Keeps(s, s1, q) /\ Handling(s1, q)
  <2>1. Keeps(s0, s1, q)
    BY <1>4, <1>6, ProcessControlKeeps DEF Keeps
  <2> QED
    BY <1>4, <2>1, KeepsTrans DEF Keeps
<1>8. Good(q, p, s1)
  BY <1>7, GoodPeerLater DEF Keeps
<1>9. Kept(s0, s1) /\ Marked(s1) /\ s1.out = {} /\ s1.t_ack = FALSE
  <2>1. IsTcp(s0) /\ SndInv(s0) /\ Marked(s0)
    BY <1>4, <1>5 DEF Keeps, Handling, Moved
  <2> QED
    BY <1>5, <1>6, <2>1, ProcessControlIs
<1>10. PICK s2 : s2 = ProcessAck(s1, p)
  OBVIOUS
<1>11. Keeps(s1, s2, q) /\ Moved(s1, s2)
  BY <1>7, <1>8, <1>10, ProcessAckKeeps, ProcessAckMoved
<1>12. Keeps(s, s2, q) /\ Good(q, p, s2) /\ Handling(s2, q)
  <2>1. Keeps(s, s2, q)
    BY <1>7, <1>11, KeepsTrans
  <2> QED
    BY <2>1, GoodPeerLater DEF Keeps
<1>13. s2.out = {} /\ s2.t_ack = FALSE
  <2>1. s1.snd_una \in Nat /\ DOMAIN s1 = Fields
    BY <1>7, Numbers DEF Handling, IsTcp
  <2>2. ~(s1.snd_una < p.ack)
    BY <2>1
  <2>3. PICK w, c : w = p.wnd * s1.unit /\ c = [s1 EXCEPT !.snd_wnd = w]
    OBVIOUS
  <2>4. c.out = {} /\ c.t_ack = FALSE
    BY <1>9, <2>1, <2>3 DEF Fields
  <2>5. p.data # <<>>
    <3>1. Len(p.data) = 1 /\ Len(<<>>) = 0 /\ 0 # 1
      BY DEF Stamped
    <3> QED
      BY <3>1, Zenon
  <2>6. s2 = c \/ s2 = s1
    <3>1. CASE p.ack = s1.snd_una
      <4>1. s2 = ProcessSameAck(c, p)
        BY <1>10, <2>2, <2>3, <3>1, Zenon DEF ProcessAck
      <4> QED
        BY <2>5, <4>1 DEF ProcessSameAck
    <3>2. CASE p.ack # s1.snd_una
      BY <1>10, <2>2, <3>2, Zenon DEF ProcessAck
    <3> QED
      BY <3>1, <3>2
  <2> QED
    BY <1>9, <2>4, <2>6
<1>14. Kept(s, s2) /\ Marked(s2)
  <2>1. Kept(s, s0) /\ Kept(s1, s2)
    BY <1>5, <1>11, CalmKept DEF Moved
  <2> QED
    BY <1>9, <1>11, <2>1, KeptTrans DEF Moved
<1>15. t = Acknowledged(s2, p, late)
  BY <1>2, <1>6, <1>10, Zenon DEF Process
<1>16. CASE s2.state = "CLOSED"
  <2>1. t = s2
    BY <1>15, <1>16 DEF Acknowledged
  <2> QED
    BY <1>13, <2>1
<1>17. CASE s2.state # "CLOSED"
  <2>1. PICK o, u : o = Opened(s2, p) /\ u = Ready(s2, p)
    OBVIOUS
  <2>2. Keeps(s2, o, q)
    BY <1>12, <2>1, OpenedKeeps
  <2>3. AsideOf(o, u)
    BY <2>1, <2>2, KeepsSound, WriteableAside DEF Ready
  <2>4. Keeps(s2, u, q) /\ Handling(u, q)
    BY <1>12, <2>2, <2>3, ThenAside DEF Keeps
  <2>5. Good(q, p, u)
    BY <1>12, <2>4, GoodPeerLater DEF Keeps
  <2>6. t = TakeData(u, p, late)
    BY <1>15, <1>17, <2>1, Zenon DEF Acknowledged, Ready
  <2>7. /\ u.shutdown = s2.shutdown /\ u.rcv_nxt = s2.rcv_nxt /\ u.rlist = s2.rlist
        /\ u.rbuf = s2.rbuf /\ u.ahead = s2.ahead /\ u.out = s2.out /\ u.t_ack = s2.t_ack
    <3>1. DOMAIN s2 = Fields
      BY <1>12 DEF Handling, IsTcp
    <3> QED
      BY <2>1, <3>1, ReadyIs
  <2>8. Unread(s, u) /\ u.shutdown = s.shutdown /\ u.out = {} /\ u.t_ack = FALSE
    BY <1>13, <1>14, <2>7, Zenon DEF Kept, Unread
  <2>9. RcvBooks(u, 0) /\ u.rcv_nxt = 0 /\ u.rbuf = <<>>
    BY <2>8, BooksSame DEF Unread
  <2>10. PICK v : v = ProcessData(u, p)
    OBVIOUS
  <2>11. Keeps(u, v, q) /\ Handling(v, q) /\ SndAlone(u, v)
    BY <2>4, <2>5, <2>9, <2>10, ProcessDataKeeps, ProcessDataBooks DEF Keeps
  <2>12. v.out = {} /\ v.t_ack = FALSE
    BY <2>8, <2>11 DEF SndAlone
  <2>13. AckFlags(u, v, p) = "delayed"
    <3>1. p.seq = 0 /\ Len(p.data) = 1
      BY DEF Stamped
    <3>2. p.data # <<>>
      <4>1. Len(<<>>) = 0 /\ 0 # 1
        OBVIOUS
      <4> QED
        BY <3>1, <4>1, Zenon
    <3>3. PICK x \in Nat : x = v.rcv_nxt
      BY <2>11, Numbers DEF Handling
    <3>4. x <= 1
      <4>1. v.rcv_nxt <= q.snd_nxt /\ q.snd_nxt \in Nat
        BY <2>11, Numbers DEF Handling, Pair
      <4> QED
        BY <3>3, <4>1
    <3>5. PICK z : z = RcvSpace(u)
      OBVIOUS
    <3>6. z \in Nat /\ z >= 1
      <4>1. Len(u.rbuf) = 0
        BY <2>9
      <4> QED
        BY <3>5, <4>1, Constants DEF RcvSpace
    <3>7. Min({Len(p.data), RcvSpace(u)}) = 1
      <4>1. Min({1, z}) = 1
        BY <3>6, OfTwo
      <4> QED
        BY <3>1, <3>5, <4>1, Zenon
    <3>8. ~(v.rcv_nxt > u.rcv_nxt + Min({Len(p.data), RcvSpace(u)}))
      BY <2>9, <3>3, <3>4, <3>7
    <3>9. p.seq = u.rcv_nxt
      BY <2>9, <3>1
    <3> QED
      BY <3>2, <3>8, <3>9, Zenon DEF AckFlags
  <2>14. PICK x : x = AttemptSend(v, AckFlags(u, v, p), late)
    OBVIOUS
  <2>15. \A g \in x.out : g.data # <<>>
    <3>1. x = AttemptSend(v, "delayed", late)
      BY <2>13, <2>14, Zenon
    <3>2. \A g \in v.out : g.data # <<>>
      BY <2>12
    <3> QED
      BY <2>11, <2>12, <3>1, <3>2, AttemptSendStill
  <2>16. DOMAIN x = Fields
    <3>1. Keeps(v, x, q)
      BY <2>11, <2>14, AttemptSendKeeps
    <3> QED
      BY <3>1 DEF Keeps, Handling, IsTcp
  <2>17. PICK w : w = (x.readEnable /\ Len(v.rbuf) = Len(u.rbuf))
    OBVIOUS
  <2>18. t = [x EXCEPT !.readEnable = w]
    BY <2>6, <2>10, <2>14, <2>17, Zenon DEF TakeData, Answer
  <2>19. t.out = x.out
    BY <2>16, <2>18 DEF Fields
  <2> QED
    BY <2>15, <2>19
<1> QED
  BY <1>16, <1>17

\* An endpoint that has exchanged connect messages at most.
Begun(s) ==
  /\ Marked(s) /\ Ledger(s, 0) /\ RcvBooks(s, 0) /\ Text(s, 0)
  /\ s.readEnable /\ s.rbuf = <<>>

LEMMA StillBegun ==
  ASSUME NEW s, NEW t, Still(s, t), Begun(s)
  PROVE  Begun(t)
<1>1. Calm(s, t) /\ Total(t) = Total(s) /\ (Marked(s) => Marked(t))
  BY StillMoved DEF Moved
<1>2. Ledger(t, 0) /\ Marked(t)
  BY <1>1, MovedLedger DEF Begun
<1>3. RcvBooks(t, 0) /\ Text(t, 0) /\ t.readEnable /\ t.rbuf = <<>>
  BY <1>1 DEF Begun, Calm, RcvBooks, Text
<1> QED
  BY <1>2, <1>3 DEF Begun

LEMMA BegunTotal ==
  ASSUME NEW s, IsTcp(s), SndInv(s), Begun(s)
  PROVE  s.snd_nxt <= 1
<1>1. Total(s) <= 1
  BY DEF Begun, Ledger
<1>2. s.snd_nxt <= Total(s) /\ s.snd_nxt \in Nat /\ Total(s) \in Nat
  BY Numbers DEF SndInv, Total
<1> QED
  BY <1>1, <1>2

\* A packet with data, of such an endpoint, is a connect message.
LEMMA BegunPacket ==
  ASSUME NEW s, IsTcp(s), SndInv(s), Begun(s), NEW p \in Segment, Stamped(p), NEW q, Good(s, p, q),
         p.data # <<>>
  PROVE  p.ctl
<1>1. s.snd_nxt <= 1 /\ s.snd_nxt \in Nat
  BY BegunTotal, Numbers
<1>2. PICK sq \in Nat, l \in Nat : sq = p.seq /\ l = Len(p.data) /\ l > 0
  BY DEF Segment
<1>3. sq + l <= s.snd_nxt
  BY <1>2 DEF Good
<1>4. sq = 0
  BY <1>1, <1>2, <1>3
<1> QED
  BY <1>2, <1>4 DEF Stamped

LEMMA ProcessBegun ==
  ASSUME NEW s, NEW q, Handling(s, q), IsTcp(q), SndInv(q), RcvInv(q), Begun(s), Begun(q),
         NEW p \in Segment, Stamped(p), Good(q, p, s), NEW t, t = Process(s, p, FALSE)
  PROVE  /\ Begun(t) /\ (s.room > 0 /\ t.state = "ESTABLISHED" => Drained(t))
         /\ s.rcv_nxt <= t.rcv_nxt /\ (s.state = "CLOSED" => t.state = "CLOSED")
         /\ p.ctl /\ t.state # "CLOSED" => t.rcv_nxt > 0
<1>1. Marked(s) /\ Ledger(s, 0) /\ RcvBooks(s, 0) /\ Text(s, 0) /\ s.readEnable /\ s.rbuf = <<>>
      /\ FALSE \in BOOLEAN /\ 0 \in Nat
  BY DEF Begun
<1>2. /\ Marked(t) /\ t.shutdown = s.shutdown /\ Moves(s, t, p)
      /\ \/ t.state = "CLOSED" /\ Kept(s, t)
         \/ Takes(s, t, p, q) /\ (s.room > 0 => Drained(t))
  <2>1. PICK b \in Nat, late \in BOOLEAN : b = 0 /\ late = FALSE
    OBVIOUS
  <2>2. RcvBooks(s, b) /\ Marked(s) /\ t = Process(s, p, late)
    BY <1>1, <2>1, Zenon
  <2>3. /\ Marked(t) /\ t.shutdown = s.shutdown /\ Moves(s, t, p)
        /\ \/ t.state = "CLOSED" /\ Kept(s, t)
           \/ /\ Takes(s, t, p, q)
              /\ t.writeEnable = (s.writeEnable /\ Len(t.sbuf) >= Half)
              /\ s.room > 0 => Drained(t)
    BY <2>2, ProcessIs
  <2> QED
    BY <2>3, Zenon
<1>3. Ledger(t, 0)
  BY <1>1, <1>2, MovesLedger
<1>4. Keeps(s, t, q)
  BY <1>1, ProcessKeeps
<1>5. s.rcv_nxt <= t.rcv_nxt /\ IsTcp(t)
  BY <1>4 DEF Keeps, Later, Handling
<1>6. s.state = "CLOSED" => t.state = "CLOSED"
  BY <1>2 DEF Moves
<1>7. CASE Kept(s, t) /\ t.state = "CLOSED"
  <2>1. RcvBooks(t, 0) /\ Text(t, 0) /\ t.readEnable /\ t.rbuf = <<>>
    BY <1>1, <1>7 DEF Kept, RcvBooks, Text
  <2> QED
    BY <1>2, <1>3, <1>5, <1>7, <1>6, <2>1 DEF Begun
<1>8. CASE Takes(s, t, p, q) /\ (s.room > 0 => Drained(t))
  <2>1. RcvBooks(t, 0) /\ (p.ctl => t.rcv_nxt > 0)
    BY <1>1, <1>2, <1>8, TakesBooks
  <2>2. ~p.ctl => p.data = <<>>
    BY BegunPacket
  <2>3. Text(t, 0)
    BY <1>1, <1>2, <1>8, <2>2, TakesText
  <2>4. t.rbuf = <<>>
    <3>1. PICK l \in Nat, x \in Nat : l = Len(t.rbuf) /\ x = t.rcv_nxt
      BY <1>5, Numbers
    <3>2. x <= q.snd_nxt /\ q.snd_nxt <= 1 /\ q.snd_nxt \in Nat
      BY <1>4, <3>1, BegunTotal, Numbers DEF Keeps, Handling, Pair
    <3>3. l = 0
      <4>1. 0 + l = 0 \/ 0 + l < x
        BY <2>1, <3>1 DEF RcvBooks
      <4> QED
        BY <3>2, <4>1
    <3>4. t.rbuf \in Seq(Nat)
      BY <1>5, Numbers
    <3>5. PICK d \in Seq(Nat) : d = t.rbuf
      BY <3>4
    <3>6. Len(d) = 0
      BY <3>1, <3>3, <3>5
    <3>7. d = <<>>
      BY <3>6
    <3> QED
      BY <3>5, <3>7
  <2>5. t.readEnable
    BY <1>1, <1>8, <2>4 DEF Takes
  <2>6. Begun(t)
    BY <1>2, <1>3, <2>1, <2>3, <2>4, <2>5, Zenon DEF Begun
  <2> QED
    BY <1>5, <1>8, <1>6, <2>1, <2>6
<1> QED
  BY <1>2, <1>7, <1>8

LEMMA NewTcpBegun ==
  ASSUME NEW m \in MssLevels, NEW s, s = NewTcp(m)
  PROVE  Begun(s) /\ s.rcv_nxt = 0 /\ s.t_ack = FALSE /\ s.state = "LISTEN"
<1>1. /\ s.state = "LISTEN" /\ s.shutdown = "NONE" /\ s.snd_una = 0 /\ s.slist = <<>>
      /\ s.sbuf = <<>> /\ s.rcv_nxt = 0 /\ s.rlist = {} /\ s.rbuf = <<>> /\ s.out = {}
      /\ s.t_ack = FALSE /\ s.readEnable = TRUE
  BY DEF NewTcp
<1>2. Len(<<>>) = 0 /\ \A i : i \notin 1..0
  OBVIOUS
<1>3. Marked(s)
  BY <1>1, <1>2, Zenon DEF Marked, Filled, Marks
<1>4. Total(s) = 0
  BY <1>1 DEF Total
<1>5. Ledger(s, 0) /\ RcvBooks(s, 0)
  BY <1>1, <1>4 DEF Ledger, RcvBooks
<1>6. Text(s, 0)
  BY <1>1 DEF Text
<1> QED
  BY <1>1, <1>3, <1>5, <1>6 DEF Begun

\* Both endpoints of a connection that is open from the start have seen the connect
\* message of the other, or are closed.
LEMMA HandshakeData ==
  ASSUME NEW m \in MssLevels, Handshake(m)
  PROVE  \E s, t : /\ tcp = [local |-> s, remote |-> t] /\ Begun(s) /\ Begun(t)
                   /\ s.state = "CLOSED" \/ s.rcv_nxt > 0
                   /\ t.state = "CLOSED" \/ t.rcv_nxt > 0
                   /\ s.state = "ESTABLISHED" => Drained(s)
                   /\ t.state = "ESTABLISHED" => Drained(t)
<1>1. PICK new, syn : new = NewTcp(m) /\ syn = [Fresh(new, m) EXCEPT !.state = "SYN_SENT"]
  OBVIOUS
<1>2. PICK x, p, y, q, x1, x2, r, y1 :
        /\ x = AttemptSend(QueueConnect(syn), "none", FALSE) /\ p \in x.out
        /\ y = Process(Fresh(new, m), p, FALSE) /\ q \in y.out
        /\ x1 = Process(Fresh(x, m), q, FALSE)
        /\ x2 = Packet(x1, x1.snd_nxt, FALSE, <<>>) /\ r \in x2.out
        /\ y1 = Process(Fresh(y, m), r, FALSE)
        /\ tcp = [local |-> Fresh(x2, 0), remote |-> Fresh(y1, 0)]
  BY <1>1, Zenon DEF Handshake, Fresh
<1>3. IsTcp(new) /\ SndInv(new) /\ RcvInv(new) /\ Handling(new, new) /\ new.state = "LISTEN"
  BY <1>1, NewTcpIs
<1>4. /\ m \in MssLevels \cup {0} /\ 0 \in MssLevels \cup {0} /\ FALSE \in BOOLEAN /\ 0 \in Nat
      /\ m > 0
  BY Constants
<1>5. PICK b, u : b = Fresh(new, m) /\ u = QueueConnect(syn)
  OBVIOUS
<1>6. Handling(b, new) /\ Sound(b) /\ SameSnd(new, b) /\ b.out = {} /\ b.room = m
  BY <1>3, <1>4, <1>5, FreshHandling, FreshIs DEF Handling, Sound
<1>7. Begun(b) /\ b.rcv_nxt = 0 /\ b.t_ack = FALSE /\ b.rbuf = <<>> /\ DOMAIN b = Fields
  <2>1. Begun(new) /\ new.rcv_nxt = 0 /\ new.t_ack = FALSE /\ DOMAIN new = Fields
    BY <1>1, <1>3, NewTcpBegun DEF IsTcp
  <2>2. Still(new, b)
    BY <1>5, <2>1, FreshStill
  <2>3. b.t_ack = new.t_ack /\ DOMAIN b = Fields
    BY <1>5, <2>1 DEF Fresh, Fields
  <2>4. Begun(b)
    BY <2>1, <2>2, StillBegun
  <2> QED
    BY <2>1, <2>2, <2>3, <2>4 DEF Still, Calm, Begun
<1>8. syn = [b EXCEPT !.state = "SYN_SENT"]
  BY <1>1, <1>5, Zenon
<1>9. Handling(syn, new) /\ syn.state # "LISTEN" /\ syn.snd_nxt = 0 /\ syn.sbuf = <<>>
  <2>1. AsideOf(b, syn)
    BY <1>6, <1>8, StateAside
  <2>2. Handling(syn, new)
    BY <1>6, <2>1, AsideKeeps DEF Keeps
  <2>3. syn.state = "SYN_SENT"
    BY <1>6, <1>8 DEF Sound, IsTcp, Fields
  <2>4. new.snd_nxt = 0 /\ new.sbuf = <<>>
    BY <1>3 DEF SndInv
  <2> QED
    BY <1>6, <2>1, <2>2, <2>3, <2>4 DEF AsideOf, SameSnd
<1>10. Handling(u, new)
  BY <1>3, <1>5, <1>9, QueueConnectKeeps DEF Keeps
<1>11. Begun(u) /\ u.out = {} /\ u.rcv_nxt = 0
  <2>1. Kept(b, syn) /\ syn.state = "SYN_SENT" /\ syn.out = {} /\ Marked(syn)
    <3>1. DOMAIN b = Fields /\ Marked(b)
      BY <1>7 DEF Begun
    <3>2. /\ Kept(b, syn) /\ syn.state = "SYN_SENT" /\ syn.out = b.out
          /\ (Marked(b) => Marked(syn))
      BY <1>8, <3>1, StateIs
    <3> QED
      BY <1>6, <3>1, <3>2
  <2>2. Given(syn, u, 1) /\ Total(u) = 1
    BY <1>5, <1>9, <2>1, QueueConnectGiven DEF Handling
  <2>3. Calm(syn, u) /\ u.state = "SYN_SENT" /\ u.out = {} /\ Marked(u)
    BY <2>1, <2>2 DEF Given
  <2>4. Kept(b, u)
    BY <2>1, <2>3, CalmKept, KeptTrans
  <2>5. Ledger(u, 0)
    BY <2>2, <2>3 DEF Ledger
  <2>6. RcvBooks(u, 0) /\ Text(u, 0) /\ u.readEnable /\ u.rbuf = <<>> /\ u.rcv_nxt = 0
    BY <1>7, <2>4 DEF Kept, Begun, RcvBooks, Text
  <2> QED
    BY <2>3, <2>5, <2>6 DEF Begun
<1>12. /\ Handling(x, new) /\ Still(u, x) /\ Begun(x) /\ x.rcv_nxt = 0
       /\ \A g \in x.out : g.data # <<>>
  <2>1. x = AttemptSend(u, "none", FALSE)
    BY <1>2, <1>5, Zenon
  <2>2. Handling(x, new)
    BY <1>3, <1>4, <1>10, <2>1, AttemptSendKeeps DEF Keeps
  <2>3. \A g \in u.out : g.data # <<>>
    BY <1>11
  <2>4. Still(u, x) /\ \A g \in x.out : g.data # <<>>
    BY <1>3, <1>4, <1>10, <2>1, <2>3, AttemptSendStill
  <2>5. Begun(x) /\ x.rcv_nxt = 0
    BY <1>11, <2>4, StillBegun DEF Still, Calm
  <2> QED
    BY <2>2, <2>4, <2>5
<1>13. /\ Handling(b, x) /\ p \in Segment /\ Good(x, p, b)
       /\ IsTcp(x) /\ SndInv(x) /\ RcvInv(x)
  BY <1>2, <1>3, <1>4, <1>5, <1>12, Turnover
<1>14. Stamped(p) /\ p.ctl /\ p.ack = 0
  <2>1. Stamped(p) /\ p.data # <<>>
    BY <1>2, <1>12 DEF Begun, Marked
  <2>2. p.ctl
    BY <1>12, <1>13, <2>1, BegunPacket
  <2>3. p.ack \in Nat /\ p.ack <= x.rcv_nxt
    BY <1>13 DEF Segment, Good
  <2> QED
    BY <1>12, <2>1, <2>2, <2>3
<1>15. y = Process(b, p, FALSE)
  BY <1>2, <1>5, Zenon
<1>16. Handling(y, x)
  BY <1>4, <1>13, <1>15, ProcessKeeps DEF Keeps
<1>17. Begun(y) /\ (y.state # "CLOSED" => y.rcv_nxt > 0)
  BY <1>7, <1>12, <1>13, <1>14, <1>15, ProcessBegun
<1>18. q.data # <<>>
  <2>1. x.snd_nxt <= 1 /\ RcvBooks(b, 0) /\ Marked(b)
    BY <1>7, <1>12, <1>13, BegunTotal DEF Begun
  <2>2. \A g \in y.out : g.data # <<>>
    BY <1>4, <1>6, <1>7, <1>13, <1>14, <1>15, <2>1, ConnectAnswer
  <2> QED
    BY <1>2, <2>2
<1>19. PICK xf : xf = Fresh(x, m)
  OBVIOUS
<1>20. /\ Handling(xf, y) /\ q \in Segment /\ Good(y, q, xf)
       /\ IsTcp(y) /\ SndInv(y) /\ RcvInv(y)
  BY <1>2, <1>4, <1>13, <1>16, <1>19, Turnover
<1>21. Begun(xf) /\ xf.room = m
  <2>1. Still(x, xf)
    BY <1>13, <1>19, FreshStill DEF IsTcp
  <2>2. xf.room = m
    BY <1>4, <1>13, <1>19, FreshIs
  <2> QED
    BY <1>12, <2>1, <2>2, StillBegun
<1>22. Stamped(q) /\ q.ctl
  <2>1. Stamped(q)
    BY <1>2, <1>17 DEF Begun, Marked
  <2> QED
    BY <1>17, <1>18, <1>20, <2>1, BegunPacket
<1>23. x1 = Process(xf, q, FALSE)
  BY <1>2, <1>19, Zenon
<1>24. Handling(x1, y)
  BY <1>4, <1>20, <1>23, ProcessKeeps DEF Keeps
<1>25. /\ Begun(x1) /\ (x1.state # "CLOSED" => x1.rcv_nxt > 0)
       /\ (x1.state = "ESTABLISHED" => Drained(x1))
  BY <1>4, <1>17, <1>20, <1>21, <1>22, <1>23, ProcessBegun
<1>26. Handling(x2, y)
  <2>1. x1.snd_nxt \in Nat
    BY <1>24, Numbers DEF Handling
  <2> QED
    BY <1>2, <1>24, <2>1, PacketKeeps
<1>27. Begun(x2) /\ (x2.state = "CLOSED" \/ x2.rcv_nxt > 0) /\ (x2.state = "ESTABLISHED" => Drained(x2))
  <2>1. DOMAIN x1 = Fields
    BY <1>24 DEF Handling, IsTcp
  <2>2. Still(x1, x2)
    BY <1>2, <2>1, PacketStill
  <2>3. x2.snd_nxt = x1.snd_nxt
    BY <1>2, <2>1 DEF Packet, Fields
  <2>4. Drained(x1) => Drained(x2)
    BY <2>2, <2>3 DEF Still, Drained
  <2>5. Begun(x2)
    BY <1>25, <2>2, StillBegun
  <2> QED
    BY <1>25, <2>2, <2>4, <2>5 DEF Still, Calm
<1>28. PICK yf : yf = Fresh(y, m)
  OBVIOUS
<1>29. /\ Handling(yf, x2) /\ r \in Segment /\ Good(x2, r, yf)
       /\ IsTcp(x2) /\ SndInv(x2) /\ RcvInv(x2)
  BY <1>2, <1>4, <1>20, <1>26, <1>28, Turnover
<1>30. Begun(yf) /\ yf.room = m /\ (yf.state # "CLOSED" => yf.rcv_nxt > 0)
  <2>1. Still(y, yf) /\ yf.state = y.state
    BY <1>20, <1>28, FreshStill DEF IsTcp
  <2>2. yf.room = m
    BY <1>4, <1>20, <1>28, FreshIs
  <2>3. Begun(yf)
    BY <1>17, <2>1, StillBegun
  <2> QED
    BY <1>17, <2>1, <2>2, <2>3 DEF Still, Calm
<1>31. Stamped(r)
  BY <1>2, <1>27 DEF Begun, Marked
<1>32. y1 = Process(yf, r, FALSE)
  BY <1>2, <1>28, Zenon
<1>33. IsTcp(y1)
  BY <1>4, <1>29, <1>32, ProcessKeeps DEF Keeps, Handling
<1>34. /\ Begun(y1) /\ (y1.state = "CLOSED" \/ y1.rcv_nxt > 0)
       /\ (y1.state = "ESTABLISHED" => Drained(y1))
  <2>1. /\ Begun(y1) /\ (yf.room > 0 /\ y1.state = "ESTABLISHED" => Drained(y1))
        /\ yf.rcv_nxt <= y1.rcv_nxt /\ (yf.state = "CLOSED" => y1.state = "CLOSED")
    BY <1>27, <1>29, <1>30, <1>31, <1>32, ProcessBegun
  <2>2. yf.rcv_nxt \in Nat /\ y1.rcv_nxt \in Nat
    BY <1>29, <1>33, Numbers DEF Handling
  <2> QED
    BY <1>4, <1>30, <2>1, <2>2
<1>35. PICK s, t : s = Fresh(x2, 0) /\ t = Fresh(y1, 0)
  OBVIOUS
<1>36. /\ Still(x2, s) /\ (Drained(x2) <=> Drained(s)) /\ s.state = x2.state
       /\ Still(y1, t) /\ (Drained(y1) <=> Drained(t)) /\ t.state = y1.state
  BY <1>29, <1>33, <1>35, FreshStill DEF IsTcp
<1>37. Begun(s) /\ Begun(t) /\ s.rcv_nxt = x2.rcv_nxt /\ t.rcv_nxt = y1.rcv_nxt
  BY <1>27, <1>34, <1>36, StillBegun DEF Still, Calm
<1>38. tcp = [local |-> s, remote |-> t]
  BY <1>2, <1>35, Zenon
<1> QED
  BY <1>27, <1>34, <1>36, <1>37, <1>38

\* An application that has done nothing yet fits such an endpoint.
LEMMA BegunFits ==
  ASSUME NEW e \in Peers, NEW s, Begun(s), NEW a, a = app[e], plan.bytes[e] \in Nat,
         a.sent = 0, a.got = <<>>, a.reading = FALSE, s.state = "ESTABLISHED" => a.writing,
         NEW f, f = Other(e), app[f].sent = 0, NEW q, q = tcp[f],
         Heard(s, q, 0, f), Heard(q, s, 0, e)
  PROVE  Fits(e, s, a)
<1>1. Len(a.got) = 0 /\ \A i : i \notin 1..0
  OBVIOUS
<1>2. Honest(s, a, plan.bytes[e])
  BY <1>1 DEF Honest, Begun
<1>3. Verbatim(s, a)
  BY <1>1 DEF Verbatim, Begun
<1> QED
  BY <1>2, <1>3 DEF Fits

LEMMA InitData == Init => DataInv
<1> SUFFICES ASSUME Init PROVE DataInv
  OBVIOUS
<1>1. Inv /\ plan \in Plans /\ net = {}
  BY InitInv DEF Init
<1>2. plan.open \in BOOLEAN /\ plan.mtu \in MssLevels /\ \A e \in Peers : plan.bytes[e] \in Nat
  BY <1>1, PlanIs
<1>3. ASSUME NEW e \in Peers
      PROVE  /\ app[e].sent = 0 /\ app[e].got = <<>> /\ app[e].reading = FALSE
             /\ app[e].writing = plan.open
  BY DEF Init, NewApp
<1>4. \A e \in Peers : tcp[e].state = "ESTABLISHED" => Drained(tcp[e])
  <2>1. CASE plan.open
    <3>1. PICK s, t : /\ tcp = [local |-> s, remote |-> t]
                      /\ s.state = "ESTABLISHED" => Drained(s)
                      /\ t.state = "ESTABLISHED" => Drained(t)
      BY <1>2, <2>1, HandshakeData DEF Init
    <3> QED
      BY <3>1 DEF Peers
  <2>2. CASE ~plan.open
    <3>1. PICK s : s = NewTcp(plan.mtu)
      OBVIOUS
    <3>2. tcp = [e \in Peers |-> s]
      BY <2>2, <3>1 DEF Init
    <3>3. s.state = "LISTEN"
      BY <1>2, <3>1, NewTcpBegun
    <3> QED
      BY <3>2, <3>3
  <2> QED
    BY <1>2, <2>1, <2>2
<1>5. ASSUME NEW e \in Peers PROVE Fits(e, tcp[e], app[e])
  <2>1. PICK f, s, q, a : f = Other(e) /\ s = tcp[e] /\ q = tcp[f] /\ a = app[e]
    OBVIOUS
  <2>2. f \in Peers
    BY <2>1, Peer
  <2>3. Begun(s) /\ (s.state = "ESTABLISHED" => plan.open) /\ Heard(s, q, 0, f) /\ Heard(q, s, 0, e)
    <3>1. CASE plan.open
      <4>1. PICK x, y : /\ tcp = [local |-> x, remote |-> y] /\ Begun(x) /\ Begun(y)
                        /\ x.state = "CLOSED" \/ x.rcv_nxt > 0
                        /\ y.state = "CLOSED" \/ y.rcv_nxt > 0
        BY <1>2, <3>1, HandshakeData DEF Init
      <4>2. /\ Begun(s) /\ (s.state = "CLOSED" \/ s.rcv_nxt > 0)
            /\ (q.state = "CLOSED" \/ q.rcv_nxt > 0)
        BY <2>1, <4>1 DEF Peers, Other
      <4>3. (s.state = "CLOSED" \/ s.rcv_nxt # 0) /\ (q.state = "CLOSED" \/ q.rcv_nxt # 0)
        BY <4>2
      <4> QED
        BY <3>1, <4>2, <4>3 DEF Heard
    <3>2. CASE ~plan.open
      <4>1. PICK x : x = NewTcp(plan.mtu)
        OBVIOUS
      <4>2. tcp = [h \in Peers |-> x]
        BY <3>2, <4>1 DEF Init
      <4>3. s = x /\ q = x /\ Begun(x) /\ x.state = "LISTEN"
        BY <1>2, <2>1, <2>2, <4>1, <4>2, NewTcpBegun
      <4> QED
        BY <3>2, <4>3 DEF Heard
    <3> QED
      BY <1>2, <3>1, <3>2
  <2>4. /\ a.sent = 0 /\ a.got = <<>> /\ a.reading = FALSE /\ a.writing = plan.open
        /\ app[f].sent = 0 /\ plan.bytes[e] \in Nat
    BY <1>2, <1>3, <2>1, <2>2
  <2>5. s.state = "ESTABLISHED" => a.writing
    BY <2>3, <2>4
  <2> QED
    BY <2>1, <2>3, <2>4, <2>5, BegunFits
<1> QED
  BY <1>1, <1>4, <1>5 DEF DataInv


\* The inductive invariant of the data: both byte counts agree with the sequence
\* numbers, the wakeups with the flags, and, in an orderly connection, every
\* byte with its place.
THEOREM DataInvariant == Spec => []DataInv
  BY InitData, DataStep, PTL DEF Spec

LEMMA DataStalls == DataInv => NoStall
<1> SUFFICES ASSUME DataInv, NEW e \in Peers, NEW s, s = tcp[e], s.state = "ESTABLISHED", s.sbuf # <<>>
             PROVE  s.rto \/ s.snd_wnd = 0 \/ fails > 0
  BY DEF NoStall
<1>1. Drained(s) \/ fails > 0
  BY DEF DataInv
<1>2. s.rto = (s.snd_una < s.snd_nxt)
  BY DEF DataInv, Inv, Link, Handling, SndInv
<1> QED
  BY <1>1, <1>2 DEF Drained

\* attemptSend() never leaves bytes behind with nothing in flight and no probe to
\* come: whatever Nagle's algorithm, the windows and the path have held back,
\* an open connection with bytes to send has a timer armed, unless a write
\* was refused.
THEOREM NoStallHolds == Spec => []NoStall
  BY DataInvariant, DataStalls, PTL

LEMMA DataWakes == DataInv => NoLostWakeup
<1> SUFFICES ASSUME DataInv, NEW e \in Peers, NEW s, s = tcp[e]
             PROVE  /\ s.rbuf # <<>> => app[e].reading
                    /\ s.state = "ESTABLISHED" /\ app[e].sent < plan.bytes[e] /\ ~app[e].writing
                         => s.writeEnable /\ Len(s.sbuf) >= Half
  BY Zenon DEF NoLostWakeup, Half
<1>1. Honest(s, app[e], plan.bytes[e])
  BY DEF DataInv, Fits
<1> QED
  BY <1>1, Zenon DEF Honest

\* m_bReadEnable and m_bWriteEnable are cleared exactly when the callback is made
\* and set exactly when a call is refused: bytes are never left unread by an
\* application that waits for OnTcpReadable, nor room unused by one that
\* waits for OnTcpWriteable.
THEOREM NoLostWakeupHolds == Spec => []NoLostWakeup
  BY DataInvariant, DataWakes, PTL

\* The bytes an endpoint has passed on, or holds, were sent.
LEMMA ReceivedWasSent ==
  ASSUME DataInv, NEW e \in Peers, NEW f, f = Other(e), NEW s, s = tcp[e], NEW q, q = tcp[f]
  PROVE  /\ Len(app[e].got) + Len(s.rbuf) <= app[f].sent
         /\ /\ q.state = "ESTABLISHED" /\ q.sbuf = <<>> /\ s.shutdown = "NONE"
            => Len(app[e].got) + Len(s.rbuf) = app[f].sent
<1>1. f \in Peers /\ Other(f) = e
  BY Peer
<1>2. Handling(s, q) /\ IsTcp(s) /\ IsTcp(q) /\ SndInv(q) /\ Pair(q, s)
  BY <1>1 DEF DataInv, Inv, Link, Handling
<1>3. Honest(s, app[e], plan.bytes[e]) /\ Honest(q, app[f], plan.bytes[f])
  BY <1>1 DEF DataInv, Fits
<1>4. app[e] \in AppState /\ app[f] \in AppState
  BY <1>1 DEF DataInv, Inv, Counters
<1>5. PICK g \in Nat, l \in Nat, n \in Nat, una \in Nat, nxt \in Nat, b \in Nat, r \in Nat :
        /\ g = Len(app[e].got) /\ l = Len(s.rbuf) /\ n = app[f].sent /\ una = q.snd_una
        /\ nxt = q.snd_nxt /\ b = Len(q.sbuf) /\ r = s.rcv_nxt
  <2>1. app[e].got \in Seq(Nat) /\ app[f].sent \in Nat
    BY <1>4 DEF AppState
  <2>2. Len(app[e].got) \in Nat
    BY <2>1
  <2>3. /\ Len(s.rbuf) \in Nat /\ q.snd_una \in Nat /\ q.snd_nxt \in Nat /\ Len(q.sbuf) \in Nat
        /\ s.rcv_nxt \in Nat
    BY <1>2, Numbers
  <2> QED
    BY <2>1, <2>2, <2>3
<1>6. una <= r /\ r <= nxt /\ nxt <= una + b
  BY <1>2, <1>5 DEF Pair, SndInv
<1>7. /\ una + b <= n + 1
      /\ q.state = "ESTABLISHED" => una + b = n + 1
  BY <1>3, <1>5 DEF Honest, Ledger, Total
<1>8. /\ g + l = 0 \/ g + l < r
      /\ s.shutdown = "NONE" => (g + l = 0 /\ r = 0) \/ g + l + 1 = r
  BY <1>3, <1>5 DEF Honest, RcvBooks
<1>9. g + l <= n
  BY <1>6, <1>7, <1>8
<1>10. ASSUME q.state = "ESTABLISHED", q.sbuf = <<>>, s.shutdown = "NONE" PROVE g + l = n
  <2>1. b = 0
    BY <1>5, <1>10
  <2> QED
    BY <1>6, <1>7, <1>8, <1>10, <2>1
<1> QED
  BY <1>5, <1>9, <1>10

LEMMA DataCloses == DataInv => GracefulClose
<1> SUFFICES ASSUME DataInv, NEW e \in Peers, NEW f, f = Other(e), tcp[e].shutdown = "GRACEFUL",
                    tcp[e].state = "ESTABLISHED", ~ClockCheck(tcp[e]), tcp[f].shutdown = "NONE"
             PROVE  Len(app[f].got) + Len(tcp[f].rbuf) = app[e].sent
  BY Zenon DEF GracefulClose
<1>1. tcp[e].sbuf = <<>>
  BY DEF ClockCheck
<1>2. f \in Peers /\ Other(f) = e
  BY Peer
<1> QED
  BY <1>1, <1>2, ReceivedWasSent

\* An endpoint that Close() was told to end gracefully reports that it may be
\* destroyed (GetNextClock) only when every byte Send took has been
\* acknowledged, and then its peer holds them all.
THEOREM GracefulCloseHolds == Spec => []GracefulClose
  BY DataInvariant, DataCloses, PTL

\* The streams of ByteStream, as the applications make them.
Sent == [e \in Peers |-> app[e].sent]
Got == [e \in Peers |-> app[Other(e)].got]

LEMMA StreamInit == Init => Stream!Init
<1> SUFFICES ASSUME Init PROVE Stream!Init
  OBVIOUS
<1>1. \A e \in Peers : app[e].sent = 0 /\ app[e].got = <<>>
  BY DEF Init, NewApp
<1>2. \A e \in Peers : Other(e) \in Peers
  BY Peer
<1> QED
  BY <1>1, <1>2 DEF Stream!Init

\* An application that neither sends nor reads leaves the streams alone.
LEMMA StreamSame ==
  ASSUME Inv, NEW e \in Peers, NEW c, app' = [app EXCEPT ![e] = c],
         c.sent = app[e].sent, c.got = app[e].got
  PROVE  Sent' = Sent /\ Got' = Got
<1>1. DOMAIN app = Peers
  BY DEF Inv, Counters
<1>2. \A h \in Peers : app'[h].sent = app[h].sent /\ app'[h].got = app[h].got
  BY <1>1
<1>3. \A h \in Peers : Other(h) \in Peers
  BY Peer
<1> QED
  BY <1>2, <1>3 DEF Sent, Got

LEMMA StreamSend ==
  ASSUME DataInv, NEW e \in Peers, Write(e)
  PROVE  Stream!Next \/ (Sent' = Sent /\ Got' = Got)
<1>1. PICK n, a : n = WriteSize(e) /\ a = app[e]
  OBVIOUS
<1>2. /\ n \in Nat /\ a.sent \in Nat
      /\ app' = [app EXCEPT ![e] = [a EXCEPT !.sent = a.sent + n, !.writing = n > 0]]
  BY <1>1, WriteFits DEF DataInv
<1>3. PICK m \in Nat, k \in Nat : m = a.sent /\ k = a.sent + n /\ k = m + n
  <2>1. PICK m \in Nat : m = a.sent
    BY <1>2
  <2>2. m + n \in Nat
    BY <1>2
  <2> QED
    BY <2>1, <2>2
<1>4. PICK c : c = [a EXCEPT !.sent = k, !.writing = n > 0]
  OBVIOUS
<1>5. a \in AppState /\ DOMAIN app = Peers
  BY <1>1 DEF DataInv, Inv, Counters
<1>6. c.sent = k /\ c.got = a.got
  BY <1>4, <1>5 DEF AppState
<1>7. app' = [app EXCEPT ![e] = c]
  BY <1>2, <1>3, <1>4
<1>8. k >= m
  BY <1>2, <1>3
<1>9. \A h \in Peers : Other(h) \in Peers
  BY Peer
<1>10. \A h \in Peers : app'[h].sent = (IF h = e THEN k ELSE app[h].sent) /\ app'[h].got = app[h].got
  BY <1>1, <1>5, <1>6, <1>7
<1>11. Got' = Got
  BY <1>9, <1>10 DEF Got
<1>12. Sent' = [Sent EXCEPT ![e] = k] /\ Sent[e] = m /\ Sent'[e] = k
  BY <1>1, <1>3, <1>10 DEF Sent
<1>13. CASE k = m
  <2>1. Sent' = Sent
    BY <1>12, <1>13 DEF Sent
  <2> QED
    BY <1>11, <2>1
<1>14. CASE k > m
  <2>1. m + (k - m) = k
    OBVIOUS
  <2>2. Sent'[e] > Sent[e] /\ Sent' = [Sent EXCEPT ![e] = Sent[e] + (Sent'[e] - Sent[e])]
    BY <1>12, <1>14, <2>1
  <2>3. Sent'[e] > Sent[e] /\ Stream!Send(e, Sent'[e] - Sent[e])
    BY <1>11, <2>2 DEF Stream!Send, Sent, Got
  <2> QED
    BY <2>3 DEF Stream!Next, Sent
<1> QED
  BY <1>8, <1>13, <1>14

\* What Recv returns are the next bytes of the stream.
LEMMA StreamRead ==
  ASSUME DataInv, Orderly, NEW e \in Peers, NEW n \in Nat, Read(e, n)
  PROVE  Stream!Next \/ (Sent' = Sent /\ Got' = Got)
<1>1. PICK a, f, s : a = app[e] /\ f = Other(e) /\ s = tcp[e]
  OBVIOUS
<1>2. f \in Peers /\ Other(f) = e /\ f # e /\ \A h \in Peers : h = e \/ h = f
  BY <1>1, Peer
<1>3. PICK k, d, r : k = Min({n, Len(s.rbuf)}) /\ d = SubSeq(s.rbuf, 1, k)
                     /\ r = SubSeq(s.rbuf, n + 1, Len(s.rbuf))
  OBVIOUS
<1>4. IsTcp(s) /\ a \in AppState /\ s.rbuf \in Seq(Nat) /\ app \in [Peers -> AppState]
  BY <1>1 DEF DataInv, Inv, Link, Handling, IsTcp, Counters
<1>5. Divided(s.rbuf, d, r, k)
  BY <1>3, <1>4, Split
<1>6. /\ k \in Nat /\ d \in Seq(Nat) /\ Len(d) = k /\ Len(r) \in Nat /\ Len(r) + k = Len(s.rbuf)
      /\ \A i \in 1..k : d[i] = s.rbuf[i]
  BY <1>5 DEF Divided
<1>7. PICK w, c : w = (s.rbuf # <<>>) /\ c = [a EXCEPT !.got = a.got \o d, !.reading = w]
  OBVIOUS
<1>8. app' = [app EXCEPT ![e] = c]
  <2>1. app' = [app EXCEPT ![e].got = @ \o d, ![e].reading = w]
    BY <1>1, <1>3, <1>7, Zenon DEF Read
  <2> QED
    BY <1>1, <1>4, <1>7, <2>1 DEF AppState
<1>9. c.sent = a.sent /\ c.got = a.got \o d
  BY <1>4, <1>7 DEF AppState
<1>10. PICK G \in Seq(Nat), g \in Nat : G = a.got /\ g = Len(G)
  BY <1>4 DEF AppState
<1>11. Sent' = Sent
  BY <1>1, <1>4, <1>8, <1>9 DEF Sent
<1>12. Got' = [Got EXCEPT ![f] = G \o d] /\ Got[f] = G /\ Got'[f] = G \o d
  <2>1. app'[e].got = G \o d /\ app'[f] = app[f] /\ app[e].got = G
    BY <1>1, <1>2, <1>4, <1>8, <1>9, <1>10
  <2>2. PICK x : x = G \o d
    OBVIOUS
  <2>3. \A h \in Peers : app'[Other(h)].got = IF h = f THEN x ELSE app[Other(h)].got
    BY <1>1, <1>2, <2>1, <2>2
  <2>4. Got[f] = G
    BY <1>2, <2>1 DEF Got
  <2> QED
    BY <1>2, <2>2, <2>3, <2>4 DEF Got
<1>13. d = [i \in 1..k |-> g + i]
  <2>1. \A i \in 1..Len(s.rbuf) : s.rbuf[i] = g + i
    <3>1. Verbatim(s, a)
      BY <1>1, Zenon DEF DataInv, Fits
    <3> QED
      BY <1>10, <3>1 DEF Verbatim, Text
  <2>2. \A i \in 1..k : d[i] = g + i
    <3> TAKE i \in 1..k
    <3>1. i \in 1..Len(s.rbuf)
      <4>1. PICK l \in Nat, j \in Nat : l = Len(s.rbuf) /\ j = Len(r) /\ j + k = l
        BY <1>4, <1>6
      <4> QED
        BY <1>6, <4>1
    <3> QED
      BY <1>6, <2>1, <3>1
  <2> QED
    BY <1>6, <2>2
<1>14. g + k <= app[f].sent
  <2>1. Len(app[e].got) + Len(s.rbuf) <= app[f].sent
    BY <1>1, ReceivedWasSent
  <2>2. PICK l \in Nat, j \in Nat, m \in Nat : l = Len(s.rbuf) /\ j = Len(r) /\ j + k = l /\ m = app[f].sent
    <3>1. app[f].sent \in Nat /\ Len(s.rbuf) \in Nat
      BY <1>2, <1>4 DEF AppState
    <3> QED
      BY <1>6, <3>1
  <2>3. g + l <= m
    BY <1>1, <1>10, <2>1, <2>2
  <2> QED
    BY <1>6, <2>2, <2>3
<1>15. Len(G \o d) = g + k
  BY <1>6, <1>10, ConcatElements
<1>16. CASE k = 0
  <2>1. \A i \in 1..(g + k) : (G \o d)[i] = G[i]
    BY <1>6, <1>10, <1>16, ConcatElements
  <2>2. G \o d = G
    <3>1. \A x \in Seq(Nat) : Len(x) = 0 => G \o x = G
      OBVIOUS
    <3> QED
      BY <1>6, <1>16, <3>1
  <2>3. Got' = Got
    BY <1>12, <2>2 DEF Got
  <2> QED
    BY <1>11, <2>3
<1>17. CASE k > 0
  <2>1. Len(Got[f]) = g /\ Len(Got'[f]) = g + k /\ (g + k) - g = k /\ g + k > g
    BY <1>6, <1>10, <1>12, <1>15, <1>17
  <2>2. PICK m : m = Len(Got'[f]) - Len(Got[f])
    OBVIOUS
  <2>3. m = k /\ Len(Got'[f]) > Len(Got[f])
    BY <2>1, <2>2
  <2>4. Len(Got[f]) + m <= Sent[f]
    BY <1>2, <1>14, <2>1, <2>3 DEF Sent
  <2>5. Got' = [Got EXCEPT ![f] = Got[f] \o [i \in 1..m |-> Len(Got[f]) + i]]
    BY <1>12, <1>13, <2>1, <2>3
  <2>6. Stream!Receive(f, m)
    BY <1>11, <2>4, <2>5 DEF Stream!Receive, Sent, Got
  <2> QED
    BY <1>2, <2>2, <2>3, <2>6 DEF Stream!Next, Got
<1> QED
  BY <1>6, <1>16, <1>17

\* Every step but a Send or a Recv leaves the streams alone.
LEMMA StreamStep ==
  ASSUME DataInv, Orderly, [Next]_vars
  PROVE  Stream!Next \/ (Sent' = Sent /\ Got' = Got)
<1>1. ASSUME app' = app PROVE Sent' = Sent /\ Got' = Got
  BY <1>1 DEF Sent, Got
<1>2. CASE Next
  <2>1. ASSUME NEW e \in Peers, Connect(e) PROVE app' = app
    BY <2>1 DEF Connect
  <2>2. ASSUME NEW e \in Peers, Send(e) PROVE Stream!Next \/ (Sent' = Sent /\ Got' = Got)
    <3>1. Write(e)
      BY <2>2, Zenon DEF Send
    <3> QED
      BY <2>2, <3>1, StreamSend
  <2>3. ASSUME NEW e \in Peers, NotifyMTU(e) PROVE app' = app
    BY <2>3 DEF NotifyMTU
  <2>4. ASSUME NEW e \in Peers, NEW n \in {1, RcvBufLen}, Recv(e, n)
        PROVE  Stream!Next \/ (Sent' = Sent /\ Got' = Got)
    <3>1. n \in Nat
      BY <2>4, Constants
    <3>2. Read(e, n)
      BY <2>4, Zenon DEF Recv
    <3> QED
      BY <2>4, <3>1, <3>2, StreamRead
  <2>5. ASSUME NEW e \in Peers, NEW mode \in Modes, Close(e, mode) PROVE app' = app
    BY <2>5 DEF Close
  <2>6. ASSUME NEW p \in net, NotifyPacket(p) PROVE Sent' = Sent /\ Got' = Got
    <3>1. PICK e : e = p.to
      OBVIOUS
    <3>2. e \in Peers /\ Inv /\ Counters
      BY <2>6, <3>1 DEF DataInv, Inv, Link
    <3>3. PICK t : Called(e, t)
      BY <2>6, <3>1, Zenon DEF NotifyPacket
    <3>4. PICK c : CalledBack(tcp[e], t, app[e], c) /\ app' = [app EXCEPT ![e] = c]
      BY <3>2, <3>3, CalledBackIs
    <3>5. c.sent = app[e].sent /\ c.got = app[e].got
      BY <3>4 DEF CalledBack
    <3> QED
      BY <3>2, <3>4, <3>5, StreamSame
  <2>7. ASSUME NEW e \in Peers, NEW due \in SUBSET Armed(tcp[e]), NotifyClock(e, due) PROVE app' = app
    BY <2>7, Zenon DEF NotifyClock
  <2>8. CASE ShrinkPath
    BY <1>1, <2>8 DEF ShrinkPath
  <2> QED
    BY <1>1, <1>2, <2>1, <2>2, <2>3, <2>4, <2>5, <2>6, <2>7, <2>8, Zenon DEF Next
<1>3. CASE UNCHANGED vars
  BY <1>1, <1>3 DEF vars
<1> QED
  BY <1>2, <1>3

\* Nothing changes the plan.
LEMMA OrderlyStep == Orderly /\ [Next]_vars => Orderly'
<1> SUFFICES ASSUME Orderly, [Next]_vars PROVE plan' = plan
  BY Zenon DEF Orderly
<1>1. CASE Next
  BY <1>1, Zenon DEF Next, Connect, Send, NotifyMTU, Recv, Close, NotifyPacket, NotifyClock, ShrinkPath
<1>2. CASE UNCHANGED vars
  BY <1>2 DEF vars
<1> QED
  BY <1>1, <1>2

\* PseudoTcp implements the byte stream: for any buffers, segment sizes, windows,
\* losses, copies and orders of arrival, retransmissions, path changes and
\* closes, each Send adds to a stream and each Recv returns its next bytes.
\* The connection is open from the start, or one application connects and
\* the other has nothing to send: data that arrives before the connect
\* message of its sender is read from the wrong place (process(), the run
\* PseudoTcp_open).
THEOREM StreamHolds == Spec /\ Orderly => StreamSpec
<1>1. Init => Stream!Init
  BY StreamInit
<1>2. DataInv /\ Orderly /\ [Next]_vars
        => [Stream!Next]_<<[e \in Peers |-> app[e].sent], [e \in Peers |-> app[Other(e)].got]>>
  <2> SUFFICES ASSUME DataInv, Orderly, [Next]_vars
               PROVE  Stream!Next \/ (Sent' = Sent /\ Got' = Got)
    BY Zenon DEF Sent, Got
  <2> QED
    BY StreamStep
<1>3. Orderly /\ [Next]_vars => Orderly'
  BY OrderlyStep
<1> QED
  BY <1>1, <1>2, <1>3, DataInvariant, PTL DEF Spec, StreamSpec, Stream!Spec, Stream!streams

LEMMA DataInOrder == DataInv /\ Orderly => InOrder
<1> SUFFICES ASSUME DataInv, Orderly, NEW e \in Peers
             PROVE  app[e].got = [i \in 1..Len(app[e].got) |-> i]
  BY DEF InOrder
<1>1. Verbatim(tcp[e], app[e]) /\ app[e] \in AppState
  BY DEF DataInv, Fits, Inv, Counters
<1>2. PICK g \in Seq(Nat) : g = app[e].got
  BY <1>1 DEF AppState
<1>3. \A i \in 1..Len(g) : g[i] = i
  BY <1>1, <1>2 DEF Verbatim
<1>4. g = [i \in 1..Len(g) |-> g[i]]
  OBVIOUS
<1>5. [i \in 1..Len(g) |-> g[i]] = [i \in 1..Len(g) |-> i]
  BY <1>3
<1> QED
  BY <1>2, <1>4, <1>5, Zenon

\* In an orderly connection the bytes that process() saves ahead of a gap are found
\* where they were left, and every byte that Recv returned is the one Send
\* took at that place; the fault that PseudoTcp_open shows needs the other
\* kind of connection.
THEOREM InOrderHolds == Spec /\ Orderly => []InOrder
<1>1. Orderly /\ [Next]_vars => Orderly'
  BY OrderlyStep
<1> QED
  BY <1>1, DataInvariant, DataInOrder, PTL DEF Spec
============================================================================
