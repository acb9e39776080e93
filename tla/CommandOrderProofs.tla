-------------------------- MODULE CommandOrderProofs --------------------------
(* What the ground sends arrives in order, once, and is counted: the proofs of *)
(* InUplinkOrder and CounterCountsQueued, for all visits, systems, decks,      *)
(* sizes and bounds.                                                           *)
EXTENDS CommandUplinkProofs, FiniteSetTheorems

-----------------------------------------------------------------------------
(* The place of a pair among those for its system.                            *)

PairsFor(u, s, i) == {j \in 1 .. i : u[j][1] = s}
RankIn(u, s, i)   == Cardinality(PairsFor(u, s, i))

LEMMA RankFinite ==
  ASSUME NEW u, NEW s, NEW i \in Int
  PROVE  IsFiniteSet(PairsFor(u, s, i)) /\ RankIn(u, s, i) \in Nat
<1>1. IsFiniteSet(1 .. i) /\ PairsFor(u, s, i) \in SUBSET (1 .. i)
  BY FS_Interval DEF PairsFor
<1>2. IsFiniteSet(PairsFor(u, s, i))
  BY <1>1, FS_Subset
<1> QED
  BY <1>2, FS_CardinalityType DEF RankIn

LEMMA RankNone == ASSUME NEW u, NEW s PROVE RankIn(u, s, 0) = 0
<1>1. PairsFor(u, s, 0) = {}
  BY DEF PairsFor
<1> QED
  BY <1>1, FS_EmptySet DEF RankIn

\* One more pair: a new place if it is for the system.
LEMMA RankNext ==
  ASSUME NEW u, NEW s, NEW i \in Nat
  PROVE  RankIn(u, s, i + 1) = RankIn(u, s, i) + (IF u[i + 1][1] = s THEN 1 ELSE 0)
<1>1. IsFiniteSet(PairsFor(u, s, i)) /\ RankIn(u, s, i) \in Nat
  BY RankFinite
<1>2. CASE u[i + 1][1] = s
  <2>1. PairsFor(u, s, i + 1) = PairsFor(u, s, i) \cup {i + 1} /\ i + 1 \notin PairsFor(u, s, i)
    BY <1>2 DEF PairsFor
  <2>2. RankIn(u, s, i + 1) = RankIn(u, s, i) + 1
    BY <1>1, <2>1, FS_AddElement DEF RankIn
  <2> QED
    BY <1>2, <2>2
<1>3. CASE u[i + 1][1] # s
  <2>1. PairsFor(u, s, i + 1) = PairsFor(u, s, i)
    BY <1>3 DEF PairsFor
  <2>2. RankIn(u, s, i + 1) = RankIn(u, s, i)
    BY <2>1 DEF RankIn
  <2> QED
    BY <1>1, <1>3, <2>2
<1> QED
  BY <1>2, <1>3

\* A pair has a place among those that were read with it.
LEMMA RankBounds ==
  ASSUME NEW u, NEW s, NEW n \in Nat, NEW i \in 1 .. n, u[i][1] = s
  PROVE  RankIn(u, s, i) \in 1 .. RankIn(u, s, n)
<1>1. i \in Int /\ n \in Int
  OBVIOUS
<1>2. /\ IsFiniteSet(PairsFor(u, s, i)) /\ IsFiniteSet(PairsFor(u, s, n))
      /\ RankIn(u, s, i) \in Nat /\ RankIn(u, s, n) \in Nat
  BY <1>1, RankFinite
<1>3. PairsFor(u, s, i) \in SUBSET PairsFor(u, s, n) /\ i \in PairsFor(u, s, i)
  BY DEF PairsFor
<1>4. RankIn(u, s, i) <= RankIn(u, s, n)
  BY <1>2, <1>3, FS_Subset DEF RankIn
<1>5. RankIn(u, s, i) # 0
  BY <1>2, <1>3, FS_EmptySet DEF RankIn
<1> QED
  BY <1>2, <1>4, <1>5

LEMMA RankSame ==
  ASSUME NEW u, NEW v, NEW s, NEW n, NEW i \in Nat, i <= n, n \in Nat,
         \A j \in 1 .. n : v[j] = u[j]
  PROVE  RankIn(v, s, i) = RankIn(u, s, i)
<1>1. PairsFor(v, s, i) = PairsFor(u, s, i)
  BY DEF PairsFor
<1> QED
  BY <1>1 DEF RankIn

-----------------------------------------------------------------------------
(* The serial line in step with the pairs that were sent.                     *)

\* Pairs of which a byte is on the line, and bytes of them that are not sent.
Unread == (Len(uart) + 1) \div 2
Owed   == IF half THEN 1 ELSE 0

\* The line holds the bytes of the last pairs the ground sent, but for the byte
\* that is still to come, and the connection was never lost.
InStep ==
  /\ ~closed
  /\ Unread <= Len(uplinked)
  /\ Len(uart) = 2 * Unread - Owed
  /\ \A k \in 1 .. Unread :
       /\ uart[2 * k - 1] = uplinked[PairsRead + k][1]
       /\ 2 * k <= Len(uart) => uart[2 * k] = uplinked[PairsRead + k][2]

\* The codes for a system are those of the pairs that were read, in their places.
Ordered ==
  \A s \in Queued :
    /\ Len(Codes(s)) = RankIn(uplinked, s, PairsRead)
    /\ \A i \in 1 .. PairsRead :
         uplinked[i][1] = s => Codes(s)[RankIn(uplinked, s, i)] = uplinked[i][2]

Counted == IsFiniteSet(EverQueued) /\ counter = Cardinality(EverQueued) % CounterMod

Tidy      == InStep /\ Ordered /\ Counted
TidyUntilTorn == torn = 0 => Tidy

LEMMA Halves ==
  ASSUME NEW l \in Nat
  PROVE  /\ (l + 1) \div 2 \in Nat /\ (l + 1 + 1) \div 2 \in Nat
         /\ l = 2 * ((l + 1) \div 2) \/ l = 2 * ((l + 1) \div 2) - 1
         /\ l = 2 * ((l + 1) \div 2) => (l + 1 + 1) \div 2 = (l + 1) \div 2 + 1
         /\ l = 2 * ((l + 1) \div 2) - 1 => (l + 1 + 1) \div 2 = (l + 1) \div 2
         /\ l >= 2 => (l - 2 + 1) \div 2 = (l + 1) \div 2 - 1
OBVIOUS

LEMMA CodesType ==
  ASSUME QueuesOK, NEW s \in Queued
  PROVE  Codes(s) \in Seq(Bytes) /\ Len(Codes(s)) \in Nat
<1>1. dispatched[s] \in Seq(Bytes) /\ uplink_buffer[s] \in Seq(Bytes)
  BY DEF QueuesOK
<1>2. Codes(s) \in Seq(Bytes)
  BY <1>1, ConcatProperties DEF Codes
<1> QED
  BY <1>2, LenProperties

\* Quotient and remainder are unique.
LEMMA Quotient ==
  ASSUME NEW m \in Nat \ {0}, NEW q \in Int, NEW r \in 0 .. m - 1
  PROVE  (q * m + r) % m = r /\ (q * m + r) \div m = q
<1> DEFINE x == q * m + r
           d == x \div m
           e == x % m
<1>1. q * m \in Int /\ x \in Int
  OBVIOUS
<1>2. d \in Int /\ e \in 0 .. m - 1 /\ x = d * m + e
  BY <1>1
<1>3. x = q * m + r
  OBVIOUS
<1> HIDE DEF x, d, e
<1>4. d * m \in Int /\ q * m - d * m = e - r
  BY <1>1, <1>2, <1>3
<1>5. ASSUME q - d >= 1 PROVE FALSE
  <2>1. q - d - 1 \in Nat
    BY <1>2, <1>5
  <2>2. (q - d - 1) * m \in Nat
    BY <2>1
  <2>3. (q - d - 1) * m = q * m - d * m - m
    BY <1>2
  <2> QED
    BY <1>1, <1>2, <1>4, <2>2, <2>3
<1>6. ASSUME d - q >= 1 PROVE FALSE
  <2>1. d - q - 1 \in Nat
    BY <1>2, <1>6
  <2>2. (d - q - 1) * m \in Nat
    BY <2>1
  <2>3. (d - q - 1) * m = d * m - q * m - m
    BY <1>2
  <2> QED
    BY <1>1, <1>2, <1>4, <2>2, <2>3
<1>7. d = q
  BY <1>2, <1>5, <1>6
<1>8. e = r
  BY <1>1, <1>2, <1>4, <1>7
<1> QED
  BY <1>7, <1>8 DEF x, d, e

LEMMA ModSuccessor ==
  ASSUME NEW k \in Nat, NEW m \in Nat \ {0}
  PROVE  ((k % m) + 1) % m = (k + 1) % m
<1>1. PICK q \in Int, r \in 0 .. m - 1 : k = q * m + r
  <2>1. k \div m \in Int /\ k % m \in 0 .. m - 1 /\ k = (k \div m) * m + (k % m)
    OBVIOUS
  <2> QED
    BY <2>1
<1>2. k % m = r
  BY <1>1, Quotient
<1>3. CASE r + 1 < m
  <2>1. PICK p \in 0 .. m - 1 : p = r + 1
    BY <1>1, <1>3
  <2>2. k + 1 = q * m + p /\ 0 * m + p = p
    <3>1. q * m \in Int /\ 0 * m = 0
      BY <1>1
    <3> QED
      BY <1>1, <2>1, <3>1
  <2>3. (q * m + p) % m = p /\ (0 * m + p) % m = p
    BY <1>1, Quotient
  <2> QED
    BY <1>2, <2>1, <2>2, <2>3
<1>4. CASE r + 1 = m
  <2>1. 0 \in 0 .. m - 1 /\ q + 1 \in Int /\ 1 \in Int /\ 1 * m + 0 = m
    BY <1>4
  <2>2. k + 1 = (q + 1) * m + 0
    <3>1. q * m \in Int /\ (q + 1) * m = q * m + m
      BY <1>1
    <3> QED
      BY <1>1, <1>4, <3>1
  <2>3. ((q + 1) * m + 0) % m = 0 /\ (1 * m + 0) % m = 0
    BY <2>1, Quotient
  <2>4. (k + 1) % m = 0 /\ m % m = 0
    BY <2>1, <2>2, <2>3
  <2> QED
    BY <1>2, <1>4, <2>4
<1> QED
  BY <1>1, <1>3, <1>4

\* Appending to the second of two sequences appends to both together.
LEMMA ConcatAppend ==
  ASSUME NEW S, NEW d \in Seq(S), NEW b \in Seq(S), NEW e \in S
  PROVE  d \o Append(b, e) = Append(d \o b, e)
<1>1. <<e>> \in Seq(S) /\ d \o b \in Seq(S)
  BY ConcatProperties
<1>2. Append(b, e) = b \o <<e>> /\ Append(d \o b, e) = (d \o b) \o <<e>>
  BY <1>1, AppendIsConcat
<1>3. (d \o b) \o <<e>> = d \o (b \o <<e>>)
  BY <1>1, ConcatAssociative
<1> QED
  BY <1>2, <1>3

LEMMA TidyInit == Init => TidyUntilTorn
<1> SUFFICES ASSUME Init PROVE Tidy
  BY DEF TidyUntilTorn
<1>1. uplinked = <<>> /\ uart = <<>> /\ Len(uplinked) = 0 /\ Len(uart) = 0 /\ ~half /\ ~closed
  BY EmptySeq DEF Init
<1>2. Unread = 0 /\ PairsRead = 0
  BY <1>1 DEF Unread, PairsRead
<1>3. InStep
  <2>1. \A k \in 1 .. Unread : FALSE
    BY <1>2
  <2>2. Owed = 0
    BY <1>1 DEF Owed
  <2>3. Unread <= Len(uplinked) /\ Len(uart) = 2 * Unread - Owed
    BY <1>1, <1>2, <2>2
  <2> QED
    BY <1>1, <2>1, <2>3 DEF InStep
<1>4. \A s \in Queued : Codes(s) = <<>>
  <2>1. \A s \in Queued : dispatched[s] = <<>> /\ uplink_buffer[s] = <<>>
    BY DEF Init
  <2>2. <<>> \in Seq(Bytes)
    BY EmptySeq
  <2>3. <<>> \o <<>> = <<>>
    BY <2>2, ConcatEmptySeq
  <2> QED
    BY <2>1, <2>3 DEF Codes
<1>5. \A s \in Queued : Len(Codes(s)) = 0
  BY <1>4, EmptySeq
<1>6. Ordered
  BY <1>2, <1>5, RankNone DEF Ordered
<1>7. EverQueued = {}
  BY <1>5 DEF EverQueued
<1>8. Counted
  <2>1. 0 % CounterMod = 0
    BY Limits
  <2>2. IsFiniteSet({}) /\ Cardinality({}) = 0
    BY FS_EmptySet
  <2> QED
    BY <1>7, <2>1, <2>2 DEF Counted, Init
<1> QED
  BY <1>3, <1>6, <1>8 DEF Tidy

-----------------------------------------------------------------------------
(* Each step.                                                                 *)

\* Nothing of what the invariant is about changes.
Quiet ==
  /\ UNCHANGED <<uplinked, half, uart, closed, counter>>
  /\ \A s \in Queued : Codes(s)' = Codes(s)

LEMMA QuietStep == ASSUME Tidy, Quiet PROVE Tidy'
<1>1. /\ UNCHANGED <<uplinked, half, uart, closed, counter>>
      /\ \A s \in Queued : Codes(s)' = Codes(s)
  BY DEF Quiet
<1>2. Unread' = Unread /\ Owed' = Owed /\ PairsRead' = PairsRead
  BY <1>1 DEF Unread, Owed, PairsRead
<1>3. InStep'
  BY <1>1, <1>2 DEF Tidy, InStep
<1>4. Ordered'
  BY <1>1, <1>2 DEF Tidy, Ordered
<1>5. EverQueued' = EverQueued
  BY <1>1 DEF EverQueued
<1>6. Counted'
  BY <1>1, <1>5 DEF Tidy, Counted
<1> QED
  BY <1>3, <1>4, <1>6 DEF Tidy

\* The first command of a queue becomes the last that was given.
LEMMA DispatchQuiet ==
  ASSUME Typed, Dispatch
  PROVE  Quiet
<1>1. VisitOK /\ QueuesOK
  BY DEF Typed
<1>2. UNCHANGED <<uplinked, half, uart, closed>>
  BY DEF Dispatch, ground, line, stream
<1>3. CASE uplink_buffer[sys] = <<>>
  <2>1. UNCHANGED queues
    BY <1>3 DEF Dispatch
  <2> QED
    BY <1>2, <2>1 DEF Quiet, Codes, queues
<1>4. CASE uplink_buffer[sys] # <<>>
  <2>1. sys \in Queued
    BY <1>1, SysType DEF Dispatch
  <2>2. PICK q \in Seq(Bytes) : q = uplink_buffer[sys] /\ q # <<>>
    BY <1>1, <1>4, <2>1 DEF QueuesOK
  <2>3. PICK d \in Seq(Bytes) : d = dispatched[sys]
    BY <1>1, <2>1 DEF QueuesOK
  <2>4. /\ uplink_buffer' = [uplink_buffer EXCEPT ![sys] = Tail(q)]
        /\ dispatched' = [dispatched EXCEPT ![sys] = Append(d, q[1])]
        /\ counter' = counter
    BY <1>4, <2>2, <2>3 DEF Dispatch, Take
  <2>5. Append(d, q[1]) \o Tail(q) = d \o q
    <3>1. q[1] \in Bytes /\ Tail(q) \in Seq(Bytes) /\ Len(Tail(q)) = Len(q) - 1
          /\ \A i \in 1 .. Len(Tail(q)) : Tail(q)[i] = q[i + 1]
      BY <2>2, HeadTailProperties, EmptySeq, LenProperties, ElementOfSeq
    <3>2. /\ Append(d, q[1]) \in Seq(Bytes) /\ Len(Append(d, q[1])) = Len(d) + 1
          /\ \A i \in 1 .. Len(d) : Append(d, q[1])[i] = d[i]
          /\ Append(d, q[1])[Len(d) + 1] = q[1]
      BY <3>1, AppendProperties
    <3>3. Len(d) \in Nat /\ Len(q) \in Nat \ {0}
      BY <2>2, LenProperties, EmptySeq
    <3> DEFINE a == Append(d, q[1])
               t == Tail(q)
    <3> HIDE DEF a, t
    <3>4. a \in Seq(Bytes) /\ t \in Seq(Bytes) /\ Len(a) = Len(d) + 1 /\ Len(t) = Len(q) - 1
          /\ (\A i \in 1 .. Len(d) : a[i] = d[i]) /\ a[Len(d) + 1] = q[1]
          /\ \A i \in 1 .. Len(t) : t[i] = q[i + 1]
      BY <3>1, <3>2 DEF a, t
    <3>5. /\ a \o t \in Seq(Bytes) /\ Len(a \o t) = Len(a) + Len(t)
          /\ \A i \in 1 .. Len(a) + Len(t) : (a \o t)[i] =
                IF i <= Len(a) THEN a[i] ELSE t[i - Len(a)]
      BY <3>4, ConcatProperties
    <3>6. /\ d \o q \in Seq(Bytes) /\ Len(d \o q) = Len(d) + Len(q)
          /\ \A i \in 1 .. Len(d) + Len(q) : (d \o q)[i] =
                IF i <= Len(d) THEN d[i] ELSE q[i - Len(d)]
      BY ConcatProperties
    <3>7. ASSUME NEW i \in 1 .. Len(a) + Len(t) PROVE (a \o t)[i] = (d \o q)[i]
      <4>0. i \in Int /\ i \in 1 .. Len(d) + Len(q) /\ Len(a) + Len(t) = Len(d) + Len(q)
        BY <3>3, <3>4
      <4>1. CASE i <= Len(d)
        <5>1. i <= Len(a) /\ i \in 1 .. Len(d)
          BY <3>3, <3>4, <4>0, <4>1
        <5> QED
          BY <3>4, <3>5, <3>6, <4>0, <4>1, <5>1
      <4>2. CASE i = Len(d) + 1
        <5>1. i <= Len(a) /\ ~(i <= Len(d)) /\ i - Len(d) = 1
          BY <3>3, <3>4, <4>2
        <5> QED
          BY <3>4, <3>5, <3>6, <4>0, <4>2, <5>1
      <4>3. CASE i > Len(d) + 1
        <5>1. ~(i <= Len(a)) /\ ~(i <= Len(d)) /\ i - Len(a) \in 1 .. Len(t)
              /\ i - Len(a) + 1 = i - Len(d)
          BY <3>3, <3>4, <4>0, <4>3
        <5> QED
          BY <3>4, <3>5, <3>6, <4>0, <5>1
      <4> QED
        BY <3>3, <4>0, <4>1, <4>2, <4>3
    <3>8. Len(a \o t) = Len(d \o q)
      BY <3>3, <3>4, <3>5, <3>6
    <3>9. a \o t = d \o q
      BY <3>5, <3>6, <3>7, <3>8, SeqEqual
    <3> QED
      BY <3>9 DEF a, t
  <2>6. ASSUME NEW s \in Queued PROVE Codes(s)' = Codes(s)
    <3>1. CASE s = sys
      BY <1>1, <2>1, <2>2, <2>3, <2>4, <2>5, <3>1 DEF Codes, QueuesOK
    <3>2. CASE s # sys
      <4>1. uplink_buffer'[s] = uplink_buffer[s] /\ dispatched'[s] = dispatched[s]
        BY <1>1, <2>4, <3>2 DEF QueuesOK
      <4> QED
        BY <4>1 DEF Codes
    <3> QED
      BY <3>1, <3>2
  <2> QED
    BY <1>2, <2>4, <2>6 DEF Quiet
<1> QED
  BY <1>3, <1>4

\* A byte more on the line, or a pair more that was begun: what was read of the
\* pairs is the same.
LEMMA ReadStays ==
  ASSUME NEW n \in Nat, n <= Len(uplinked), Typed,
         \A i \in 1 .. Len(uplinked) : uplinked'[i] = uplinked[i],
         PairsRead = n, PairsRead' = n, Tidy, UNCHANGED queues
  PROVE  Ordered' /\ Counted'
<1>1. \A s \in Queued : Codes(s)' = Codes(s)
  BY DEF Codes, queues
<1>2. ASSUME NEW s, NEW i \in 0 .. n PROVE RankIn(uplinked', s, i) = RankIn(uplinked, s, i)
  <2>1. Len(uplinked) \in Nat /\ i \in Nat /\ i <= Len(uplinked)
    BY LenProperties DEF Typed, LineOK
  <2> QED
    BY <2>1, RankSame
<1>3. \A i \in 1 .. n : uplinked'[i] = uplinked[i] /\ i \in 0 .. n
  BY LenProperties DEF Typed, LineOK
<1>4. n \in 0 .. n
  OBVIOUS
<1>5. Ordered'
  <2>1. Ordered
    BY DEF Tidy
  <2>2. ASSUME NEW s \in Queued
        PROVE  /\ Len(Codes(s)') = RankIn(uplinked', s, PairsRead')
               /\ \A i \in 1 .. PairsRead' :
                    uplinked'[i][1] = s => Codes(s)'[RankIn(uplinked', s, i)] = uplinked'[i][2]
    <3>1. Len(Codes(s)) = RankIn(uplinked, s, n)
      BY <2>1 DEF Ordered
    <3>2. ASSUME NEW i \in 1 .. n, uplinked'[i][1] = s
          PROVE  Codes(s)'[RankIn(uplinked', s, i)] = uplinked'[i][2]
      <4>1. Codes(s)[RankIn(uplinked, s, i)] = uplinked[i][2]
        BY <1>3, <2>1, <3>2 DEF Ordered
      <4> QED
        BY <1>1, <1>2, <1>3, <4>1
    <3> QED
      BY <1>1, <1>2, <1>4, <3>1, <3>2
  <2> QED
    BY <2>2 DEF Ordered
<1>6. EverQueued' = EverQueued
  BY <1>1 DEF EverQueued
<1> QED
  BY <1>5, <1>6 DEF Counted, Tidy, queues

\* The ground sends a byte.
LEMMA GroundTidy ==
  ASSUME Typed, Tidy, GroundSends
  PROVE  Tidy'
<1> DEFINE l == Len(uart)
           L == Len(uplinked)
           h == Unread
           n == PairsRead
<1>1. uplinked \in Seq(Uplinks) /\ uart \in Seq(Bytes) /\ l \in Nat /\ L \in Nat
  BY LenProperties DEF Typed, LineOK
<1>2. ~closed /\ h <= L /\ l = 2 * h - Owed /\ UNCHANGED queues /\ UNCHANGED closed
      /\ h = (l + 1) \div 2 /\ h \in Nat /\ n = L - h
  BY <1>1, Halves DEF Tidy, InStep, Unread, PairsRead, GroundSends, stream
<1>6. h <= L /\ h \in Nat /\ n = L - h
  BY <1>2
<1>3. \A k \in 1 .. h : /\ uart[2 * k - 1] = uplinked[n + k][1]
                        /\ 2 * k <= l => uart[2 * k] = uplinked[n + k][2]
  BY DEF Tidy, InStep
<1>4. CASE ~half
  <2>1. PICK p \in Uplinks : uplinked' = Append(uplinked, p) /\ uart' = Append(uart, p[1])
    BY <1>4 DEF GroundSends
  <2>2. half' = TRUE /\ Owed = 0 /\ Owed' = 1
    BY <1>4 DEF GroundSends, Owed
  <2>3. Len(uplinked') = L + 1 /\ (\A i \in 1 .. L : uplinked'[i] = uplinked[i])
        /\ uplinked'[L + 1] = p
    BY <1>1, <2>1, AppendProperties
  <2>4. Len(uart') = l + 1 /\ (\A i \in 1 .. l : uart'[i] = uart[i]) /\ uart'[l + 1] = p[1]
    BY <1>1, <2>1, ByteType, AppendProperties
  <2>5. Unread' = (l + 1 + 1) \div 2
    BY <2>4 DEF Unread
  <2> HIDE DEF l, L, h, n
  <2>6. l = 2 * h
    BY <1>1, <1>2, <2>2
  <2>7. Unread' = h + 1
    BY <1>1, <1>2, <2>5, <2>6, Halves
  <2>8. PairsRead' = n
    <3>1. PairsRead' = (L + 1) - (h + 1)
      BY <2>3, <2>7 DEF PairsRead, Unread
    <3> QED
      BY <1>1, <1>6, <3>1
  <2>9. n \in Nat /\ n <= L /\ n + h = L
    BY <1>1, <1>6
  <2>10. ASSUME NEW k \in 1 .. h + 1
         PROVE  /\ uart'[2 * k - 1] = uplinked'[n + k][1]
                /\ 2 * k <= l + 1 => uart'[2 * k] = uplinked'[n + k][2]
    <3>1. CASE k = h + 1
      <4>1. 2 * k - 1 = l + 1 /\ n + k = L + 1 /\ ~(2 * k <= l + 1)
        BY <1>1, <1>6, <2>6, <2>9, <3>1
      <4> QED
        BY <2>3, <2>4, <4>1
    <3>2. CASE k # h + 1
      <4>1. k \in 1 .. h /\ 2 * k - 1 \in 1 .. l /\ 2 * k \in 1 .. l /\ n + k \in 1 .. L
        BY <1>1, <1>6, <2>6, <2>9, <3>2
      <4>2. uart'[2 * k - 1] = uart[2 * k - 1] /\ uart'[2 * k] = uart[2 * k]
            /\ uplinked'[n + k] = uplinked[n + k]
        BY <2>3, <2>4, <4>1
      <4>3. 2 * k <= l
        BY <4>1, <1>1
      <4>4. uart[2 * k - 1] = uplinked[n + k][1] /\ uart[2 * k] = uplinked[n + k][2]
        BY <1>3, <4>1, <4>3
      <4> QED
        BY <4>2, <4>4
    <3> QED
      BY <3>1, <3>2
  <2>11. InStep'
    <3>1. h + 1 <= L + 1 /\ l + 1 = 2 * (h + 1) - 1
      BY <1>1, <1>6, <2>6
    <3> QED
      BY <1>2, <2>2, <2>3, <2>4, <2>7, <2>8, <2>10, <3>1 DEF InStep
  <2>12. Ordered' /\ Counted'
    BY <1>2, <2>3, <2>8, <2>9, ReadStays DEF L, n
  <2> QED
    BY <2>11, <2>12 DEF Tidy
<1>5. CASE half
  <2>1. uart' = Append(uart, uplinked[L][2]) /\ uplinked' = uplinked /\ half' = FALSE
    BY <1>5 DEF GroundSends
  <2>2. Owed = 1 /\ Owed' = 0
    BY <1>5, <2>1 DEF Owed
  <2>3. L \in 1 .. L /\ uplinked[L] \in Uplinks
    BY <1>1, <1>5, EmptySeq, ElementOfSeq DEF Typed, LineOK
  <2>4. Len(uart') = l + 1 /\ (\A i \in 1 .. l : uart'[i] = uart[i])
        /\ uart'[l + 1] = uplinked[L][2]
    BY <1>1, <2>1, <2>3, ByteType, AppendProperties
  <2>5. Unread' = (l + 1 + 1) \div 2
    BY <2>4 DEF Unread
  <2> HIDE DEF l, L, h, n
  <2>6. l = 2 * h - 1
    BY <1>1, <1>2, <2>2
  <2>7. Unread' = h
    BY <1>1, <1>2, <2>5, <2>6, Halves
  <2>8. PairsRead' = n
    <3>1. PairsRead' = Len(uplinked') - Unread'
      BY DEF PairsRead, Unread
    <3> QED
      BY <1>6, <2>1, <2>7, <3>1 DEF L
  <2>9. n \in Nat /\ n <= L /\ n + h = L
    BY <1>1, <1>6
  <2>10. ASSUME NEW k \in 1 .. h
         PROVE  /\ uart'[2 * k - 1] = uplinked[n + k][1]
                /\ 2 * k <= l + 1 => uart'[2 * k] = uplinked[n + k][2]
    <3>1. 2 * k - 1 \in 1 .. l
      BY <1>1, <1>2, <2>6, SMTT(20)
    <3>2. uart'[2 * k - 1] = uplinked[n + k][1]
      BY <1>3, <2>4, <3>1
    <3>3. CASE k = h
      <4>1. 2 * k = l + 1 /\ n + k = L
        BY <1>1, <1>2, <2>6, <2>9, <3>3
      <4> QED
        BY <2>4, <3>2, <4>1
    <3>4. CASE k # h
      <4>1. 2 * k \in 1 .. l /\ 2 * k <= l
        BY <1>1, <1>6, <2>6, <3>4
      <4> QED
        BY <1>3, <2>4, <3>2, <4>1
    <3> QED
      BY <3>3, <3>4
  <2>11. InStep'
    <3>1. l + 1 = 2 * h - 0
      BY <1>1, <1>2, <2>6, SMTT(20)
    <3> QED
      BY <1>2, <2>1, <2>2, <2>4, <2>7, <2>8, <2>10, <3>1 DEF InStep, L
  <2>12. Ordered' /\ Counted'
    BY <1>2, <2>1, <2>8, <2>9, ReadStays DEF L, n
  <2> QED
    BY <2>11, <2>12 DEF Tidy
<1> QED
  BY <1>4, <1>5

\* A code queued behind the others is one more element of what was queued.
LEMMA EnqueueCounted ==
  ASSUME QueuesOK, Counted, NEW s \in Queued, NEW c \in Bytes,
         \A t \in Queued \ {s} : Codes(t)' = Codes(t),
         Codes(s)' = Append(Codes(s), c), counter' = (counter + 1) % CounterMod
  PROVE  Counted'
<1> DEFINE x == <<s, Len(Codes(s)) + 1>>
<1>1. Codes(s) \in Seq(Bytes) /\ Len(Codes(s)) \in Nat
  BY CodesType
<1>2. Len(Codes(s)') = Len(Codes(s)) + 1
  BY <1>1, AppendProperties
<1>3. EverQueued' = EverQueued \cup {x} /\ x \notin EverQueued
  <2>1. EverQueued' = UNION {{t} \X (1 .. Len(Codes(t)')) : t \in Queued}
    BY DEF EverQueued
  <2>2. x \in EverQueued'
    <3>1. Len(Codes(s)) + 1 \in 1 .. Len(Codes(s)')
      BY <1>1, <1>2
    <3> QED
      BY <2>1, <3>1
  <2>3. ASSUME NEW y \in EverQueued PROVE y \in EverQueued'
    <3>1. PICK t \in Queued : y \in {t} \X (1 .. Len(Codes(t)))
      BY DEF EverQueued
    <3>2. y \in {t} \X (1 .. Len(Codes(t)'))
      <4>1. CASE t = s
        <5>1. 1 .. Len(Codes(s)) \subseteq 1 .. Len(Codes(s)')
          BY <1>1, <1>2
        <5> QED
          BY <3>1, <4>1, <5>1
      <4>2. CASE t # s
        BY <3>1, <4>2
      <4> QED
        BY <4>1, <4>2
    <3> QED
      BY <2>1, <3>2
  <2>4. ASSUME NEW y \in EverQueued', y # x PROVE y \in EverQueued
    <3>1. PICK t \in Queued : y \in {t} \X (1 .. Len(Codes(t)'))
      BY <2>1, <2>4
    <3>2. y \in {t} \X (1 .. Len(Codes(t)))
      <4>1. CASE t = s
        <5>1. PICK i \in 1 .. Len(Codes(s)') : y = <<s, i>>
          BY <3>1, <4>1
        <5>2. i # Len(Codes(s)) + 1
          BY <2>4, <5>1
        <5>3. i \in 1 .. Len(Codes(s))
          BY <1>1, <1>2, <5>2
        <5> QED
          BY <4>1, <5>1, <5>3
      <4>2. CASE t # s
        BY <3>1, <4>2
      <4> QED
        BY <4>1, <4>2
    <3> QED
      BY <3>2 DEF EverQueued
  <2>5. x \notin EverQueued
    <3>1. SUFFICES ASSUME x \in EverQueued PROVE FALSE
      OBVIOUS
    <3>2. PICK t \in Queued : x \in {t} \X (1 .. Len(Codes(t)))
      BY <3>1 DEF EverQueued
    <3>3. t = s /\ Len(Codes(s)) + 1 \in 1 .. Len(Codes(s))
      BY <3>2
    <3> QED
      BY <1>1, <3>3
  <2> QED
    BY <2>2, <2>3, <2>4, <2>5
<1> HIDE DEF x
<1> DEFINE m == Cardinality(EverQueued)
<1>4. IsFiniteSet(EverQueued') /\ Cardinality(EverQueued') = m + 1
  BY <1>3, FS_AddElement DEF Counted
<1>5. m \in Nat /\ counter = m % CounterMod
  BY FS_CardinalityType DEF Counted
<1> HIDE DEF m
<1>6. ((m % CounterMod) + 1) % CounterMod = (m + 1) % CounterMod
  BY <1>5, Limits, ModSuccessor
<1> QED
  BY <1>4, <1>5, <1>6 DEF Counted

\* A pair is read.
LEMMA ReceiveTidy ==
  ASSUME Typed, Tidy, ReceiveUplink
  PROVE  Tidy'
<1>1. uplinked \in Seq(Uplinks) /\ uart \in Seq(Bytes) /\ Len(uart) \in Nat
      /\ Len(uplinked) \in Nat /\ QueuesOK
  BY LenProperties DEF Typed, LineOK
<1>2. PICK l \in Nat, L \in Nat, h \in Nat : l = Len(uart) /\ L = Len(uplinked) /\ h = Unread
  BY <1>1, Halves DEF Unread
<1>3. PICK n \in Nat : n = PairsRead /\ n = L - h /\ h <= L
  BY <1>2 DEF Tidy, InStep, PairsRead, Unread
<1>4. /\ l >= 2 /\ UNCHANGED <<uplinked, half, closed, dispatched>> /\ uart' = Drop(uart, 2)
      /\ l = 2 * h - Owed /\ Owed' = Owed
  BY <1>2 DEF Tidy, InStep, ReceiveUplink, ground, stream, Owed
<1>5. Len(uart') = l - 2 /\ \A i \in 1 .. l - 2 : uart'[i] = uart[i + 2]
  <2>1. 2 \in 0 .. Len(uart)
    BY <1>2, <1>4
  <2> QED
    BY <1>1, <1>2, <1>4, <2>1, DropType, ZenonT(30)
<1>6. h = (l + 1) \div 2 /\ Unread' = (l - 2 + 1) \div 2
  BY <1>2, <1>5 DEF Unread
<1>7. Unread' = h - 1 /\ h \in Nat \ {0}
  <2>1. Unread' = h - 1
    BY <1>2, <1>4, <1>6, Halves
  <2>2. h # 0
    BY <1>2, <1>4, <1>6, SMTT(20)
  <2> QED
    BY <2>1, <2>2
<1>8. PairsRead' = n + 1
  <2>1. PairsRead' = Len(uplinked') - Unread'
    BY DEF PairsRead, Unread
  <2> QED
    BY <1>2, <1>3, <1>4, <1>7, <2>1
<1>9. \A k \in 1 .. h : /\ uart[2 * k - 1] = uplinked[n + k][1]
                        /\ 2 * k <= l => uart[2 * k] = uplinked[n + k][2]
  BY <1>2, <1>3 DEF Tidy, InStep
<1>10. uart[1] = uplinked[n + 1][1] /\ uart[2] = uplinked[n + 1][2]
  <2>1. 1 \in 1 .. h /\ 2 * 1 - 1 = 1 /\ 2 * 1 = 2 /\ 2 * 1 <= l
    BY <1>4, <1>7
  <2> QED
    BY <1>9, <2>1
<1>11. InStep'
  <2>1. h - 1 <= L /\ l - 2 = 2 * (h - 1) - Owed
    <3>1. Owed \in Nat
      BY DEF Owed
    <3>2. l = 2 * h - Owed
      BY <1>4
    <3> QED
      BY <1>2, <1>3, <3>1, <3>2
  <2>2. ASSUME NEW k \in 1 .. h - 1
        PROVE  /\ uart'[2 * k - 1] = uplinked[n + 1 + k][1]
               /\ 2 * k <= l - 2 => uart'[2 * k] = uplinked[n + 1 + k][2]
    <3>1. k + 1 \in 1 .. h /\ n + 1 + k = n + (k + 1)
      BY <1>2, <1>3
    <3>2. uart[2 * (k + 1) - 1] = uplinked[n + 1 + k][1]
          /\ (2 * (k + 1) <= l => uart[2 * (k + 1)] = uplinked[n + 1 + k][2])
      BY <1>9, <3>1
    <3>3. l \in Nat /\ k \in Nat \ {0} /\ 2 * k - 1 \in 1 .. l - 2 /\ 2 * k - 1 + 2 = 2 * (k + 1) - 1
      <4>1. Owed \in {0, 1} /\ l = 2 * h - Owed
        BY <1>4 DEF Owed
      <4>2. l >= 2 * h - 1
        BY <1>2, <4>1
      <4> QED
        BY <1>2, <4>2
    <3>4. uart'[2 * k - 1] = uplinked[n + 1 + k][1]
      BY <1>5, <3>2, <3>3
    <3>5. ASSUME 2 * k <= l - 2 PROVE uart'[2 * k] = uplinked[n + 1 + k][2]
      <4>1. 2 * k \in 1 .. l - 2 /\ 2 * k + 2 = 2 * (k + 1) /\ 2 * (k + 1) <= l
        BY <3>3, <3>5
      <4> QED
        BY <1>5, <3>2, <4>1
    <3> QED
      BY <3>4, <3>5
  <2>3. ~closed
    BY DEF Tidy, InStep
  <2> QED
    BY <1>2, <1>4, <1>5, <1>7, <1>8, <2>1, <2>2, <2>3 DEF InStep
<1>12. ASSUME NEW s
       PROVE  RankIn(uplinked, s, n + 1) = RankIn(uplinked, s, n) + (IF uart[1] = s THEN 1 ELSE 0)
  BY <1>3, <1>10, RankNext
<1>13. Ordered /\ Counted
  BY DEF Tidy
<1>14. ASSUME NEW s \in Queued, Codes(s)' = Codes(s), uart[1] # s
       PROVE  /\ Len(Codes(s)') = RankIn(uplinked', s, PairsRead')
              /\ \A i \in 1 .. PairsRead' :
                   uplinked'[i][1] = s => Codes(s)'[RankIn(uplinked', s, i)] = uplinked'[i][2]
  <2>1. Len(Codes(s)) = RankIn(uplinked, s, n) /\ RankIn(uplinked, s, n) \in Nat
    BY <1>3, <1>13, RankFinite DEF Ordered
  <2>2. Len(Codes(s)') = RankIn(uplinked', s, PairsRead')
    BY <1>4, <1>8, <1>12, <1>14, <2>1
  <2>3. ASSUME NEW i \in 1 .. n + 1, uplinked[i][1] = s
        PROVE  Codes(s)[RankIn(uplinked, s, i)] = uplinked[i][2]
    <3>1. i # n + 1
      BY <1>10, <1>14, <2>3
    <3>2. i \in 1 .. n
      BY <1>3, <3>1
    <3> QED
      BY <1>3, <1>13, <2>3, <3>2 DEF Ordered
  <2> QED
    BY <1>4, <1>8, <1>14, <2>2, <2>3
<1>15. CASE uart[1] \in Queued
  <2>0. 1 \in 1 .. Len(uart) /\ 2 \in 1 .. Len(uart)
    BY <1>2, <1>4
  <2>1. PICK s \in Queued, c \in Bytes : s = uart[1] /\ c = uart[2]
    BY <1>1, <1>15, <2>0, ElementOfSeq
  <2>2. /\ uplink_buffer' = [uplink_buffer EXCEPT ![s] = Append(uplink_buffer[s], c)]
        /\ counter' = (counter + 1) % CounterMod
    BY <1>15, <2>1 DEF ReceiveUplink, Enqueue, CountOne
  <2>3. \A t \in Queued \ {s} : Codes(t)' = Codes(t)
    BY <1>1, <1>4, <2>1, <2>2 DEF Codes, QueuesOK
  <2>4. Codes(s)' = Append(Codes(s), c)
    <3>1. uplink_buffer'[s] = Append(uplink_buffer[s], c) /\ dispatched'[s] = dispatched[s]
      BY <1>1, <1>4, <2>1, <2>2 DEF QueuesOK
    <3>2. PICK d \in Seq(Bytes), b \in Seq(Bytes) : d = dispatched[s] /\ b = uplink_buffer[s]
      BY <1>1, <2>1 DEF QueuesOK
    <3>3. d \o Append(b, c) = Append(d \o b, c)
      BY <2>1, ConcatAppend
    <3> QED
      BY <3>1, <3>2, <3>3 DEF Codes
  <2>5. Counted'
    BY <1>1, <1>13, <2>1, <2>2, <2>3, <2>4, EnqueueCounted
  <2>6. Codes(s) \in Seq(Bytes) /\ Len(Codes(s)) \in Nat
        /\ Len(Codes(s)) = RankIn(uplinked, s, n)
    BY <1>1, <1>3, <1>13, <2>1, CodesType DEF Ordered
  <2>7. Len(Codes(s)') = Len(Codes(s)) + 1 /\ Codes(s)'[Len(Codes(s)) + 1] = c
        /\ \A j \in 1 .. Len(Codes(s)) : Codes(s)'[j] = Codes(s)[j]
    BY <2>1, <2>4, <2>6, AppendProperties
  <2>8. RankIn(uplinked, s, n + 1) = Len(Codes(s)) + 1
    BY <1>12, <2>1, <2>6
  <2>9. ASSUME NEW i \in 1 .. n + 1, uplinked[i][1] = s
        PROVE  Codes(s)'[RankIn(uplinked, s, i)] = uplinked[i][2]
    <3>1. CASE i = n + 1
      BY <1>10, <2>1, <2>7, <2>8, <3>1
    <3>2. CASE i # n + 1
      <4>1. i \in 1 .. n
        BY <1>3, <3>2
      <4>2. RankIn(uplinked, s, i) \in 1 .. Len(Codes(s))
        BY <1>3, <2>6, <2>9, <4>1, RankBounds
      <4>3. Codes(s)[RankIn(uplinked, s, i)] = uplinked[i][2]
        BY <1>3, <1>13, <2>1, <2>9, <4>1 DEF Ordered
      <4> QED
        BY <2>7, <4>2, <4>3
    <3> QED
      BY <3>1, <3>2
  <2>10. Ordered'
    <3>1. ASSUME NEW t \in Queued
          PROVE  /\ Len(Codes(t)') = RankIn(uplinked', t, PairsRead')
                 /\ \A i \in 1 .. PairsRead' :
                      uplinked'[i][1] = t => Codes(t)'[RankIn(uplinked', t, i)] = uplinked'[i][2]
      <4>1. CASE t = s
        BY <1>4, <1>8, <2>7, <2>8, <2>9, <4>1
      <4>2. CASE t # s
        BY <1>14, <2>1, <2>3, <4>2
      <4> QED
        BY <4>1, <4>2
    <3> QED
      BY <3>1 DEF Ordered
  <2> QED
    BY <1>11, <2>5, <2>10 DEF Tidy
<1>16. CASE uart[1] \notin Queued
  <2>1. UNCHANGED <<uplink_buffer, counter>>
    BY <1>16 DEF ReceiveUplink
  <2>2. \A s \in Queued : Codes(s)' = Codes(s) /\ uart[1] # s
    BY <1>4, <1>16, <2>1 DEF Codes
  <2>3. Ordered'
    BY <1>14, <2>2 DEF Ordered
  <2>4. EverQueued' = EverQueued
    BY <2>2 DEF EverQueued
  <2>5. Counted'
    BY <1>13, <2>1, <2>4 DEF Counted
  <2> QED
    BY <1>11, <2>3, <2>5 DEF Tidy
<1> QED
  BY <1>15, <1>16

\* Nothing comes in time: without a torn pair, nothing was on the line.
LEMMA TimeoutQuiet ==
  ASSUME Typed, Tidy, torn = 0, UplinkTimeout, torn' = 0
  PROVE  Quiet
<1>1. UNCHANGED <<uplinked, half, closed, queues>> /\ uart' = <<>> /\ Len(uart) < 2
  BY DEF UplinkTimeout, LeftOnLine, ground, stream
<1>2. uart \in Seq(Bytes) /\ Len(uart) \in Nat /\ (uart # <<>> => Len(uart) # 0)
  BY EmptySeq, LenProperties DEF Typed, LineOK
<1>3. ~(uart # <<>> /\ half)
  BY DEF UplinkTimeout
<1>4. uart = <<>>
  <2>1. SUFFICES ASSUME uart # <<>> PROVE FALSE
    OBVIOUS
  <2>2. Owed = 0
    BY <1>3, <2>1 DEF Owed
  <2>3. Len(uart) = 2 * Unread /\ Unread = (Len(uart) + 1) \div 2
    <3>1. Len(uart) = 2 * Unread - Owed
      BY DEF Tidy, InStep
    <3>2. Unread \in Nat
      BY <1>2, Halves DEF Unread
    <3> QED
      BY <2>2, <3>1, <3>2 DEF Unread
  <2>4. Len(uart) = 1
    BY <1>1, <1>2, <2>1
  <2>5. Unread = 1
    <3>1. (1 + 1) \div 2 = 1
      OBVIOUS
    <3> QED
      BY <2>3, <2>4, <3>1
  <2> QED
    BY <2>3, <2>4, <2>5
<1> QED
  BY <1>1, <1>4 DEF Quiet, Codes, queues

LEMMA TidyStep == Typed /\ TidyUntilTorn /\ [Next]_vars => TidyUntilTorn'
<1> SUFFICES ASSUME Typed, TidyUntilTorn, [Next]_vars, torn' = 0 PROVE Tidy'
  BY DEF TidyUntilTorn
<1>1. torn \in Nat
  BY Limits DEF Typed, StreamOK
<1>2. ASSUME torn = 0, Quiet PROVE Tidy'
  BY <1>2, QuietStep DEF TidyUntilTorn
<1>3. CASE ReceiveUplink
  BY <1>3, ReceiveTidy DEF TidyUntilTorn, ReceiveUplink
<1>4. CASE GroundSends
  BY <1>4, GroundTidy DEF TidyUntilTorn, GroundSends
<1>5. CASE UplinkTimeout
  <2>1. torn = 0
    BY <1>1, <1>5 DEF UplinkTimeout
  <2> QED
    BY <1>2, <1>5, <2>1, TimeoutQuiet DEF TidyUntilTorn
<1>6. CASE Dispatch
  BY <1>2, <1>6, DispatchQuiet DEF Dispatch, line
<1>7. CASE Close
  BY <1>1, <1>7 DEF Close
<1>8. CASE Restart
  BY <1>8 DEF Restart, TidyUntilTorn, Tidy, InStep
<1>9. CASE Flush \/ Send \/ SendThrows \/ ReceiveReply \/ ReplyTimeout \/ JudgeWrite \/ JudgeRead
           \/ Finish \/ RestOfVisit \/ UNCHANGED vars
  <2>1. UNCHANGED <<ground, line, queues, closed>>
    BY <1>9 DEF Flush, Send, SendThrows, ReceiveReply, ReplyTimeout, JudgeWrite, JudgeRead,
                Finish, RestOfVisit, vars, stream
  <2>2. Quiet /\ torn = 0
    BY <2>1 DEF Quiet, Codes, ground, line, queues
  <2> QED
    BY <1>2, <2>2
<1> QED
  BY <1>3, <1>4, <1>5, <1>6, <1>7, <1>8, <1>9 DEF Next, Formatter

LEMMA TidyAlways == Spec => []TidyUntilTorn
  BY TypedAlways, TidyInit, TidyStep, PTL DEF Spec

-----------------------------------------------------------------------------
(* The theorems.                                                              *)

\* As long as no pair is torn and the connection lasts, every system is given,
\* or has waiting for it, exactly the codes that the ground sent to it, in the
\* order of the ground: record_uplink and the queues between it and
\* sync_send_buffer_commands_to_system lose, repeat and make up nothing.
THEOREM OrderHolds == Spec => []InUplinkOrder
<1>1. TidyUntilTorn => InUplinkOrder
  BY DEF TidyUntilTorn, Tidy, Ordered, InUplinkOrder, Rank, RankIn, PairsFor
<1> QED
  BY <1>1, TidyAlways, PTL

\* The counter in the status packet is the number of commands that were queued,
\* modulo its width, whatever became of them since.
THEOREM CountHolds == Spec => []CounterCountsQueued
<1>1. TidyUntilTorn => CounterCountsQueued
  BY DEF TidyUntilTorn, Tidy, Counted, CounterCountsQueued
<1> QED
  BY <1>1, TidyAlways, PTL
=============================================================================
