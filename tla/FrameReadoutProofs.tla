------------------------- MODULE FrameReadoutProofs -------------------------
(***************************************************************************)
(* Proofs about FrameReadout, for every value of its constants.            *)
(***************************************************************************)
EXTENDS FrameReadout, SequenceTheorems, TLAPS

-----------------------------------------------------------------------------
(* Lemmas about the constants and the operators.                           *)

\* The assumption on the sizes, constant by constant.
LEMMA Sizes ==
  /\ RetryMax \in Nat \ {0}
  /\ FramesPerRing \in Nat \ {0}
  /\ FrameSize \in Nat \ {0}
  /\ ReadSize \in Nat \ {0}
  /\ OtherSize \in Nat \ {0}
  /\ AddressStep \in Nat \ {0}
  /\ DownlinkSize \in Nat \ {0}
  /\ ReadSomeMax \in Nat \ {0}
  /\ CountMod \in Nat \ {0}
  /\ AddressMod \in Nat \ {0}
  /\ FrameIds \in Nat \ {0}
  /\ StartAddress \in Nat
  /\ MaxFaults \in Nat
  /\ ReadSize <= FrameSize
  /\ RingEnd <= AddressMod
  /\ WildPointers \subseteq Addresses
BY SizesAssumption DEF Addresses

\* A remainder is in range.
LEMMA ModRange ==
  ASSUME NEW x \in Int, NEW y \in Nat \ {0}
  PROVE  x % y \in 0 .. y - 1
OBVIOUS

\* A whole part of a product is at most the product.
LEMMA SlotFits ==
  ASSUME NEW m \in Nat, NEW n \in Nat, NEW k \in 0 .. m - 1
  PROVE  k * n \in Nat /\ k * n + n <= m * n
<1>1. m - 1 - k \in Nat
  OBVIOUS
<1>2. (m - 1 - k) * n \in Nat
  BY <1>1
<1>3. (m - 1 - k) * n = m * n - n - k * n
  OBVIOUS
<1>4. k * n \in Nat /\ m * n \in Nat
  OBVIOUS
<1> QED
  BY <1>2, <1>3, <1>4

\* A part of a sequence is a sequence of the same elements.
LEMMA Part ==
  ASSUME NEW S, NEW s \in Seq(S), NEW m \in Nat \ {0}, NEW n \in Int, n <= Len(s)
  PROVE  /\ SubSeq(s, m, n) \in Seq(S)
         /\ Len(SubSeq(s, m, n)) = IF m <= n THEN n - m + 1 ELSE 0
         /\ \A i \in 1 .. n - m + 1 : SubSeq(s, m, n)[i] = s[m + i - 1]
<1>1. \A i \in m .. n : s[i] \in S
  BY ElementOfSeq
<1> QED
  BY <1>1, SubSeqProperties

LEMMA DropType ==
  ASSUME NEW S, NEW s \in Seq(S), NEW k \in Nat
  PROVE  Drop(s, k) \in Seq(S)
<1>1. Len(s) \in Nat
  BY LenProperties
<1> QED
  BY <1>1, Part DEF Drop

\* What a detector answers consists of units.
LEMMA SlotAddressType ==
  ASSUME NEW n \in Int
  PROVE  SlotAddress(n) \in Addresses
<1>1. n % FramesPerRing \in 0 .. FramesPerRing - 1
  BY ModRange, Sizes
<1>2. /\ (n % FramesPerRing) * FrameSize \in Nat
      /\ (n % FramesPerRing) * FrameSize + FrameSize <= FramesPerRing * FrameSize
  BY <1>1, SlotFits, Sizes
<1>3. FramesPerRing * FrameSize \in Nat
  BY Sizes
<1> QED
  BY <1>2, <1>3, Sizes DEF SlotAddress, Addresses, RingEnd, RingSize

LEMMA MemoryType ==
  ASSUME written \in [Bufs -> 0 .. FrameIds - 1], NEW b \in Bufs, NEW a \in Int
  PROVE  Memory(b, a) \in Unit
<1>1. CASE Wild(a)
  BY <1>1 DEF Memory, Unit
<1>2. CASE ~Wild(a)
  <2> DEFINE i    == a - StartAddress
             slot == i \div FrameSize
             w    == written[b]
  <2>1. i \in Int /\ w \in Int
    BY Sizes
  <2>2. slot \in Int
    BY <2>1, Sizes
  <2> HIDE DEF i, slot, w
  <2>3. i % FrameSize \in 0 .. FrameSize - 1
    BY <2>1, ModRange, Sizes
  <2>4. InSlot(slot, w) \in 0 .. FrameIds - 1
    <3>1. w - 1 - slot \in Int
      BY <2>1, <2>2
    <3>2. (w - 1 - slot) % FramesPerRing \in 0 .. FramesPerRing - 1
      BY <3>1, ModRange, Sizes
    <3>3. w - 1 - ((w - 1 - slot) % FramesPerRing) \in Int
      BY <3>2, <2>1, Sizes
    <3> QED
      BY <3>3, ModRange, Sizes DEF InSlot
  <2>5. Memory(b, a) = [kind |-> "data", buf |-> b, offset |-> i % FrameSize,
                        frame |-> InSlot(slot, w)]
    BY <1>2 DEF Memory, i, slot, w
  <2> QED
    BY <2>3, <2>4, <2>5 DEF Unit
<1> QED
  BY <1>1, <1>2

LEMMA OtherUnit == [kind |-> "other"] \in Unit /\ [kind |-> "head"] \in Unit
BY DEF Unit

LEMMA PointerReplyType ==
  ASSUME written \in [Bufs -> 0 .. FrameIds - 1], NEW b \in Bufs
  PROVE  PointerReply(b) \in Seq(Unit)
<1>1. written[b] \in Int /\ written[b] + FramesPerRing - 1 \in Int
  BY Sizes
<1>2. WritePointer(b) \in Addresses
  BY <1>1, SlotAddressType DEF WritePointer
<1>3. [kind |-> "pointer", value |-> WritePointer(b)] \in Unit
  BY <1>2 DEF Unit
<1> QED
  BY <1>3, OtherUnit DEF PointerReply

LEMMA PacketReplyType ==
  ASSUME written \in [Bufs -> 0 .. FrameIds - 1], NEW b \in Bufs, NEW a \in Int
  PROVE  PacketReply(b, a) \in Seq(Unit)
<1> DEFINE data == [i \in 1 .. ReadSize |-> Memory(b, (a + i - 1) % AddressMod)]
<1>1. ASSUME NEW i \in 1 .. ReadSize
      PROVE  Memory(b, (a + i - 1) % AddressMod) \in Unit
  <2>1. a + i - 1 \in Int
    BY Sizes
  <2>2. (a + i - 1) % AddressMod \in Int
    BY <2>1, ModRange, Sizes
  <2> QED
    BY <2>2, MemoryType
<1>2. data \in Seq(Unit)
  BY <1>1, Sizes
<1>3. <<[kind |-> "head"]>> \in Seq(Unit)
  BY OtherUnit
<1> QED
  BY <1>2, <1>3, ConcatProperties DEF PacketReply

LEMMA OtherReplyType == OtherReply \in Seq(Unit)
BY OtherUnit, Sizes DEF OtherReply

\* The frame being built gains data and never outgrows its size, provided that
\* no packet does.
LEMMA PushToFrameSize ==
  ASSUME NEW f \in Seq(Unit), NEW data \in Seq(Unit),
         Len(f) <= FrameSize, Len(data) <= FrameSize
  PROVE  /\ PushToFrame(f, data) \in Seq(Unit)
         /\ Len(PushToFrame(f, data)) <= FrameSize
         /\ Len(f) <= Len(PushToFrame(f, data))
<1>1. Len(f) \in Nat /\ Len(data) \in Nat
  BY LenProperties
<1>2. CASE FrameDone(f)
  BY <1>1, <1>2 DEF PushToFrame
<1>3. CASE ~FrameDone(f) /\ f # <<>> /\ Len(f) + Len(data) > FrameSize
  <2> DEFINE cut == SubSeq(data, 1, FrameSize - Len(f))
  <2>1. cut \in Seq(Unit) /\ Len(cut) = FrameSize - Len(f)
    <3>1. FrameSize - Len(f) \in Int /\ FrameSize - Len(f) <= Len(data)
      BY <1>1, <1>3, Sizes
    <3>2. 1 <= FrameSize - Len(f)
      BY <1>1, <1>3, Sizes DEF FrameDone
    <3> QED
      BY <3>1, <3>2, Part
  <2>2. PushToFrame(f, data) = f \o cut
    BY <1>3 DEF PushToFrame
  <2> HIDE DEF cut
  <2>3. f \o cut \in Seq(Unit) /\ Len(f \o cut) = Len(f) + Len(cut)
    BY <2>1, ConcatProperties
  <2> QED
    BY <1>1, <2>1, <2>2, <2>3, Sizes
<1>4. CASE ~FrameDone(f) /\ ~(f # <<>> /\ Len(f) + Len(data) > FrameSize)
  <2>1. PushToFrame(f, data) = f \o data
    BY <1>4 DEF PushToFrame
  <2>2. f \o data \in Seq(Unit) /\ Len(f \o data) = Len(f) + Len(data)
    BY ConcatProperties
  <2>3. f = <<>> => Len(f) = 0
    OBVIOUS
  <2> QED
    BY <1>1, <1>4, <2>1, <2>2, <2>3, Sizes
<1> QED
  BY <1>2, <1>3, <1>4

\* The quotient rounded up: enough parts, and none of them empty.
LEMMA CeilDivBounds ==
  ASSUME NEW m \in Nat, NEW n \in Nat \ {0}
  PROVE  /\ CeilDiv(m, n) \in Nat
         /\ m <= CeilDiv(m, n) * n
         /\ CeilDiv(m, n) * n < m + n
<1> DEFINE q == (m + n - 1) \div n
           r == (m + n - 1) % n
<1>1. q \in Nat
  OBVIOUS
<1>2. r \in 0 .. n - 1
  OBVIOUS
<1>3. m + n - 1 = q * n + r
  OBVIOUS
<1>4. q * n \in Nat
  BY <1>1
<1> HIDE DEF q, r
<1>5. m <= q * n /\ q * n < m + n
  BY <1>2, <1>3, <1>4
<1> QED
  BY <1>1, <1>5 DEF CeilDiv, q

\* Before part i of a sequence cut into parts of n there are (i - 1) * n
\* elements, fewer than there are in all.
LEMMA PartStart ==
  ASSUME NEW m \in Nat, NEW n \in Nat \ {0}, NEW i \in 1 .. CeilDiv(m, n)
  PROVE  /\ (i - 1) * n \in Nat
         /\ i * n = (i - 1) * n + n
         /\ (i - 1) * n < m
<1> DEFINE q == CeilDiv(m, n)
<1>1. q \in Nat /\ q * n < m + n
  BY CeilDivBounds
<1> HIDE DEF q
<1>2. i \in 1 .. q
  BY DEF q
<1>3. i - 1 \in 0 .. q - 1
  BY <1>1, <1>2
<1>4. (i - 1) * n \in Nat /\ (i - 1) * n + n <= q * n
  BY <1>1, <1>3, SlotFits
<1>5. i * n = (i - 1) * n + n
  BY <1>1, <1>2
<1>6. q * n \in Nat
  BY <1>1
<1> QED
  BY <1>1, <1>4, <1>5, <1>6

\* What is queued are elements, as many as the frame needs.
LEMMA PacketizeType ==
  ASSUME NEW b \in Bufs, NEW n \in 0 .. CountMod - 1, NEW f \in Seq(Unit)
  PROVE  /\ Packetize(b, n, f) \in Seq(Element)
         /\ Len(Packetize(b, n, f)) = CeilDiv(Len(f), DownlinkSize)
         /\ DOMAIN Packetize(b, n, f) = 1 .. CeilDiv(Len(f), DownlinkSize)
<1> DEFINE q == CeilDiv(Len(f), DownlinkSize)
<1>1. Len(f) \in Nat
  BY LenProperties
<1>2. q \in Nat
  BY <1>1, CeilDivBounds, Sizes
<1>3. PacketsPerFrame \in Nat
  BY CeilDivBounds, Sizes DEF PacketsPerFrame
<1>4. ASSUME NEW i \in 1 .. q
      PROVE  SubSeq(f, (i - 1) * DownlinkSize + 1,
                    Least(i * DownlinkSize, Len(f))) \in Seq(Unit)
  <2>1. (i - 1) * DownlinkSize \in Nat /\ i * DownlinkSize \in Int
    BY <1>1, PartStart, Sizes
  <2>2. /\ (i - 1) * DownlinkSize + 1 \in Nat \ {0}
        /\ Least(i * DownlinkSize, Len(f)) \in Int
        /\ Least(i * DownlinkSize, Len(f)) <= Len(f)
    BY <2>1, <1>1 DEF Least
  <2> QED
    BY <2>2, Part
<1>5. ASSUME NEW i \in 1 .. q
      PROVE  Packetize(b, n, f)[i] \in Element
  <2>1. i \in Nat
    BY <1>2
  <2> QED
    BY <2>1, <1>3, <1>4 DEF Packetize, Element
<1> DEFINE s == Packetize(b, n, f)
<1>6. s = [i \in 1 .. q |-> s[i]]
  BY DEF Packetize
<1> HIDE DEF q, s
<1>7. s \in Seq(Element) /\ Len(s) = q /\ DOMAIN s = 1 .. q
  <2>1. \A i \in 1 .. q : s[i] \in Element
    BY <1>5 DEF q, s
  <2> QED
    BY <2>1, <1>2, <1>6
<1> QED
  BY <1>7 DEF q, s

\* The address computed from a write pointer is an address, whatever was read.
LEMMA DesignatedType ==
  ASSUME NEW b \in Bufs, NEW p \in Addresses
  PROVE  Designated(b, p) \in Addresses
<1>1. p - FrameSize \in Int /\ p \in Int
  BY Sizes DEF Addresses
<1>2. (p - FrameSize) % AddressMod \in Addresses
  BY <1>1, ModRange, Sizes DEF Addresses
<1>3. /\ (FramesPerRing - 1) * FrameSize \in Nat
      /\ (FramesPerRing - 1) * FrameSize + FrameSize <= FramesPerRing * FrameSize
      /\ FramesPerRing * FrameSize \in Nat
  <2>1. FramesPerRing - 1 \in 0 .. FramesPerRing - 1
    BY Sizes
  <2> QED
    BY <2>1, SlotFits, Sizes
<1>4. StartAddress + (FramesPerRing - 1) * FrameSize \in Addresses
  BY <1>3, Sizes DEF Addresses, RingEnd, RingSize
<1> QED
  BY <1>2, <1>4 DEF Designated

\* What one read_some may hold is no pointer, or an address.
LEMMA PointersInType ==
  ASSUME NEW r \in Seq(Unit), Len(r) \in Nat \ {0}, NEW p \in PointersIn(r)
  PROVE  p = NoPointer \/ p \in Addresses
<1>1. r[1] \in Unit
  BY ElementOfSeq
<1>2. r[1].kind = "pointer" => r[1].value \in Addresses
  BY <1>1 DEF Unit
<1> QED
  BY <1>2, Sizes DEF PointersIn

\* The visit is to a buffer of the configuration.
LEMMA VisitType ==
  ASSUME visit \in 1 .. Len(Cycle)
  PROVE  buf \in Bufs /\ sys \in Systems
<1>1. buf \in Bufs
  BY BufsAssumption, ElementOfSeq DEF buf
<1> QED
  BY <1>1, BufsAssumption DEF sys

LEMMA NextVisitType ==
  ASSUME visit \in 1 .. Len(Cycle)
  PROVE  NextVisit \in 1 .. Len(Cycle)
<1>1. Len(Cycle) \in Nat \ {0}
  BY BufsAssumption, LenProperties, EmptySeq
<1>2. visit \in Int
  OBVIOUS
<1> HIDE DEF NextVisit
<1>3. visit % Len(Cycle) \in 0 .. Len(Cycle) - 1
  BY <1>1, <1>2, ModRange
<1> QED
  BY <1>1, <1>3 DEF NextVisit

-----------------------------------------------------------------------------
(* Type correctness.                                                       *)

LEMMA CostType ==
  ASSUME faults \in 0 .. MaxFaults, NEW n \in 0 .. 1, Cost(n)
  PROVE  faults' \in 0 .. MaxFaults
BY Sizes DEF Cost

\* The stream stays a sequence of units when another request is answered.
LEMMA ExchangeType ==
  ASSUME net \in Seq(Unit), faults \in 0 .. MaxFaults, Exchange
  PROVE  net' \in Seq(Unit) /\ faults' \in 0 .. MaxFaults
<1>1. PICK reply \in {OtherReply, <<>>} : \E k \in 0 .. Len(net \o reply) :
        /\ net' = Drop(net \o reply, k)
        /\ Cost(IF reply # <<>> /\ k = OtherSize THEN 0 ELSE 1)
  BY DEF Exchange
<1>2. PICK k \in 0 .. Len(net \o reply) :
        /\ net' = Drop(net \o reply, k)
        /\ Cost(IF reply # <<>> /\ k = OtherSize THEN 0 ELSE 1)
  BY <1>1
<1>3. reply \in Seq(Unit)
  BY OtherReplyType, EmptySeq
<1>4. net \o reply \in Seq(Unit)
  BY <1>3, ConcatProperties
<1>5. k \in Nat
  BY <1>4, LenProperties
<1>6. net' \in Seq(Unit)
  BY <1>2, <1>4, <1>5, DropType
<1>7. faults' \in 0 .. MaxFaults
  BY <1>2, CostType
<1> QED
  BY <1>6, <1>7

LEMMA PushToFrameType ==
  ASSUME NEW f \in Seq(Unit), NEW data \in Seq(Unit)
  PROVE  PushToFrame(f, data) \in Seq(Unit)
<1>1. Len(f) \in Nat /\ Len(data) \in Nat
  BY LenProperties
<1>2. f \o data \in Seq(Unit)
  BY ConcatProperties
<1>3. ASSUME Len(f) + Len(data) > FrameSize
      PROVE  f \o SubSeq(data, 1, FrameSize - Len(f)) \in Seq(Unit)
  <2>1. FrameSize - Len(f) \in Int /\ FrameSize - Len(f) <= Len(data)
    BY <1>1, <1>3, Sizes
  <2>2. SubSeq(data, 1, FrameSize - Len(f)) \in Seq(Unit)
    BY <2>1, Part
  <2> QED
    BY <2>2, ConcatProperties
<1> QED
  BY <1>2, <1>3 DEF PushToFrame

LEMMA NextCountType ==
  ASSUME NEW n \in 0 .. CountMod - 1
  PROVE  NextCount(n) \in 0 .. CountMod - 1
<1>1. n + 1 \in Int
  BY Sizes
<1> QED
  BY <1>1, ModRange, Sizes DEF NextCount

LEMMA RaiseType ==
  ASSUME errors \in [Systems -> SUBSET ErrorFlags], NEW fs \in SUBSET ErrorFlags,
         Raise(fs) \/ Clear(fs)
  PROVE  errors' \in [Systems -> SUBSET ErrorFlags]
BY DEF Raise, Clear

LEMMA FaultType ==
  ASSUME faults \in 0 .. MaxFaults, Cost(0) \/ Cost(1)
  PROVE  faults' \in 0 .. MaxFaults
BY Sizes DEF Cost

LEMMA Zero == 0 \in 0 .. RetryMax - 1 /\ 0 \in Nat /\ 0 \in Addresses
BY Sizes DEF Addresses

LEMMA ReturnType ==
  ASSUME Return
  PROVE  pc' = "housekeeping" /\ tries' \in 0 .. RetryMax - 1
         /\ pointer' \in Addresses /\ packets' \in Nat
BY Sizes DEF Return, Addresses

LEMMA TypeInit == Init => TypeOK
<1> SUFFICES ASSUME Init PROVE TypeOK
  OBVIOUS
<1>1. Len(Cycle) \in Nat \ {0}
  BY BufsAssumption, LenProperties, EmptySeq
<1>2. net \in Seq(Unit) /\ downlink \in Seq(Element) /\ frame \in [Bufs -> Seq(Unit)]
  BY DEF Init
<1>3. /\ written \in [Bufs -> 0 .. FrameIds - 1]
      /\ count \in [Bufs -> 0 .. CountMod - 1]
      /\ last \in [Bufs -> Addresses]
  BY Sizes DEF Init, Addresses
<1>4. errors \in [Systems -> SUBSET ErrorFlags]
  BY DEF Init
<1> QED
  BY <1>1, <1>2, <1>3, <1>4, Sizes DEF Init, TypeOK, Addresses

LEMMA TypeStep == TypeOK /\ [Next]_vars => TypeOK'
<1> SUFFICES ASSUME TypeOK, [Next]_vars PROVE TypeOK'
  OBVIOUS
<1>t. /\ net \in Seq(Unit)
      /\ written \in [Bufs -> 0 .. FrameIds - 1]
      /\ visit \in 1 .. Len(Cycle)
      /\ tries \in 0 .. RetryMax - 1
      /\ pointer \in Addresses
      /\ packets \in Nat
      /\ frame \in [Bufs -> Seq(Unit)]
      /\ last \in [Bufs -> Addresses]
      /\ count \in [Bufs -> 0 .. CountMod - 1]
      /\ errors \in [Systems -> SUBSET ErrorFlags]
      /\ downlink \in Seq(Element)
      /\ faults \in 0 .. MaxFaults
  BY DEF TypeOK
<1>a. buf \in Bufs /\ sys \in Systems
  BY <1>t, VisitType
<1>b. Len(net) \in Nat /\ Arrived \in Nat
  BY <1>t, LenProperties, Sizes DEF Arrived, Least
<1>1. ASSUME NEW b \in Bufs, DetectorWrites(b) PROVE TypeOK'
  <2>1. (written[b] + 1) % FrameIds \in 0 .. FrameIds - 1
    <3>1. written[b] + 1 \in Int
      BY <1>t, Sizes
    <3> QED
      BY <1>t, <3>1, ModRange, Sizes
  <2>2. written' \in [Bufs -> 0 .. FrameIds - 1]
    BY <1>t, <1>1, <2>1 DEF DetectorWrites
  <2> QED
    BY <1>t, <1>1, <2>2 DEF DetectorWrites, local, manager, TypeOK
<1>2. CASE Flush
  <2>1. PICK k \in 0 .. Arrived : /\ net' = Drop(net, k)
                                  /\ Cost(IF k = Arrived THEN 0 ELSE 1)
    BY <1>t, <1>2 DEF Flush
  <2>2. net' \in Seq(Unit)
    BY <1>t, <2>1, <1>b, DropType
  <2>3. faults' \in 0 .. MaxFaults
    BY <1>t, <2>1, FaultType
  <2> QED
    BY <1>t, <1>2, <2>2, <2>3 DEF Flush, manager, TypeOK
<1>3. CASE UplinkCommand
  <2>1. net' \in Seq(Unit) /\ faults' \in 0 .. MaxFaults
    BY <1>t, <1>3, ExchangeType DEF UplinkCommand
  <2> QED
    BY <1>t, <1>3, <2>1 DEF UplinkCommand, manager, TypeOK
<1>4. CASE AskPointer
  <2>1. net \o PointerReply(buf) \in Seq(Unit)
    BY <1>t, <1>a, PointerReplyType, ConcatProperties
  <2>2. net' \in Seq(Unit)
    BY <1>t, <1>4, <2>1 DEF AskPointer
  <2>3. faults' \in 0 .. MaxFaults
    BY <1>t, <1>4, FaultType DEF AskPointer
  <2> QED
    BY <1>t, <1>4, <2>2, <2>3 DEF AskPointer, manager, TypeOK
<1>5. CASE PointerTimeout
  <2>1. faults' \in 0 .. MaxFaults
    BY <1>t, <1>5, FaultType DEF PointerTimeout
  <2>2. CASE TriesSoFar < RetryMax
    <3>1. TriesSoFar \in 0 .. RetryMax - 1
      BY <1>t, <2>2, Sizes DEF TriesSoFar
    <3> QED
      BY <1>t, <1>5, <2>1, <2>2, <3>1 DEF PointerTimeout, TypeOK
  <2>3. CASE ~(TriesSoFar < RetryMax)
    <3>1. errors' \in [Systems -> SUBSET ErrorFlags]
      BY <1>t, <1>5, <2>3, RaiseType DEF PointerTimeout, ErrorFlags
    <3>2. Return
      BY <1>t, <1>5, <2>3 DEF PointerTimeout
    <3> QED
      BY <1>t, <1>5, <2>1, <3>1, <3>2, ReturnType DEF PointerTimeout, TypeOK
  <2> QED
    BY <1>t, <2>2, <2>3
<1>6. CASE ReadPointer
  <2>1. PICK k \in 1 .. Arrived :
          /\ net' = Drop(net, k)
          /\ Cost(IF k = Arrived THEN 0 ELSE 1)
          /\ \E p \in PointersIn(SubSeq(net, 1, k)) :
               IF p = NoPointer
               THEN /\ errors' = [errors EXCEPT ![sys] =
                                    (errors[sys] \ {"reading_packet"}) \cup {"reading_invalid"}]
                    /\ Return
               ELSE /\ Clear({"reading_packet"})
                    /\ IF Designated(buf, p) = last[buf]
                       THEN Return
                       ELSE /\ pointer' = Designated(buf, p)
                            /\ packets' = 0
                            /\ pc' = "read frame"
                            /\ tries' = 0
    BY <1>t, <1>6 DEF ReadPointer, TypeOK
  <2>2. net' \in Seq(Unit) /\ faults' \in 0 .. MaxFaults
    <3>1. k \in Nat
      BY <1>b
    <3>2. net' \in Seq(Unit)
      BY <1>t, <2>1, <3>1, DropType
    <3>3. faults' \in 0 .. MaxFaults
      BY <1>t, <2>1, FaultType
    <3> QED
      BY <3>2, <3>3
  <2>3. k \in Nat \ {0} /\ k <= Len(net)
    BY <1>t, <1>b, Sizes DEF Arrived, Least
  <2>4. SubSeq(net, 1, k) \in Seq(Unit) /\ Len(SubSeq(net, 1, k)) \in Nat \ {0}
    BY <1>t, <2>3, Part
  <2>5. PICK p \in PointersIn(SubSeq(net, 1, k)) :
          IF p = NoPointer
          THEN /\ errors' = [errors EXCEPT ![sys] =
                               (errors[sys] \ {"reading_packet"}) \cup {"reading_invalid"}]
               /\ Return
          ELSE /\ Clear({"reading_packet"})
               /\ IF Designated(buf, p) = last[buf]
                  THEN Return
                  ELSE /\ pointer' = Designated(buf, p)
                       /\ packets' = 0
                       /\ pc' = "read frame"
                       /\ tries' = 0
    BY <1>t, <2>1
  <2>6. CASE p = NoPointer
    <3>1. errors' \in [Systems -> SUBSET ErrorFlags]
      BY <1>t, <2>5, <2>6, ZenonT(30) DEF ErrorFlags
    <3>2. Return
      BY <1>t, <2>5, <2>6
    <3> QED
      BY <1>t, <1>6, <2>2, <3>1, <3>2, ReturnType DEF ReadPointer, TypeOK
  <2>7. CASE p # NoPointer
    <3>1. Designated(buf, p) \in Addresses
      BY <1>t, <1>a, <2>4, <2>7, PointersInType, DesignatedType
    <3>2. errors' \in [Systems -> SUBSET ErrorFlags]
      BY <1>t, <2>5, <2>7, RaiseType DEF ErrorFlags
    <3>3. CASE Return
      BY <1>t, <1>6, <2>2, <3>2, <3>3, ReturnType DEF ReadPointer, TypeOK
    <3>4. CASE pointer' = Designated(buf, p) /\ packets' = 0 /\ pc' = "read frame"
               /\ tries' = 0
      <4>1. tries' \in 0 .. RetryMax - 1 /\ packets' \in Nat /\ pointer' \in Addresses
        BY <3>1, <3>4, Zero
      <4> QED
        BY <1>t, <1>6, <2>2, <3>2, <3>4, <4>1 DEF ReadPointer, TypeOK
    <3> QED
      BY <1>t, <2>5, <2>7, <3>3, <3>4
  <2> QED
    BY <1>t, <2>6, <2>7
<1>7. CASE AskPacket
  <2>1. PacketAddress \in Int
    BY <1>t, Sizes DEF PacketAddress, Addresses
  <2>2. net \o PacketReply(buf, PacketAddress) \in Seq(Unit)
    BY <1>t, <1>a, <2>1, PacketReplyType, ConcatProperties
  <2>3. net' \in Seq(Unit)
    BY <1>t, <1>7, <2>2 DEF AskPacket
  <2>4. faults' \in 0 .. MaxFaults
    BY <1>t, <1>7, FaultType DEF AskPacket
  <2> QED
    BY <1>t, <1>7, <2>3, <2>4 DEF AskPacket, manager, TypeOK
<1>8. CASE PacketTimeout
  <2>1. PICK k \in 0 .. Least(Len(net), ReadSize) :
          net' = Drop(net, k) /\ Cost(IF k = Len(net) THEN 0 ELSE 1)
    BY <1>t, <1>8 DEF PacketTimeout
  <2>2. k \in Nat
    BY <1>t, <1>b, Sizes DEF Least
  <2>3. net' \in Seq(Unit) /\ faults' \in 0 .. MaxFaults
    <3>1. net' \in Seq(Unit)
      BY <1>t, <2>1, <2>2, DropType
    <3>2. faults' \in 0 .. MaxFaults
      BY <1>t, <2>1, FaultType
    <3> QED
      BY <3>1, <3>2
  <2>4. CASE TriesSoFar < RetryMax
    <3>1. TriesSoFar \in 0 .. RetryMax - 1
      BY <1>t, <2>4, Sizes DEF TriesSoFar
    <3> QED
      BY <1>t, <1>8, <2>3, <2>4, <3>1 DEF PacketTimeout, TypeOK
  <2>5. CASE ~(TriesSoFar < RetryMax)
    <3>1. errors' \in [Systems -> SUBSET ErrorFlags]
      BY <1>t, <1>8, <2>5, RaiseType DEF PacketTimeout, ErrorFlags
    <3>2. Return
      BY <1>t, <1>8, <2>5 DEF PacketTimeout
    <3> QED
      BY <1>t, <1>8, <2>3, <3>1, <3>2, ReturnType DEF PacketTimeout, TypeOK
  <2> QED
    BY <1>t, <2>4, <2>5
<1>9. CASE ReadPacket
  <2>0. ReadSize + 1 \in Nat /\ ReadSize + 1 <= Len(net)
    <3>1. ReadSize \in Nat
      BY Sizes
    <3>2. Len(net) > ReadSize
      BY <1>9 DEF ReadPacket
    <3> QED
      BY <3>1, <3>2, <1>b
  <2>1. net' \in Seq(Unit)
    BY <1>t, <1>9, <2>0, DropType DEF ReadPacket
  <2>2. frame' \in [Bufs -> Seq(Unit)]
    <3> DEFINE data == SubSeq(net, 2, ReadSize + 1)
    <3>1. data \in Seq(Unit)
      BY <1>t, <2>0, Part
    <3>2. PushToFrame(frame[buf], data) \in Seq(Unit)
      BY <1>t, <1>a, <3>1, PushToFrameType
    <3> HIDE DEF data
    <3>3. frame' = [frame EXCEPT ![buf] = PushToFrame(frame[buf], data)]
      BY <1>t, <1>9 DEF ReadPacket, data
    <3> QED
      BY <1>t, <3>2, <3>3
  <2>3. errors' \in [Systems -> SUBSET ErrorFlags]
    BY <1>t, <1>9, RaiseType DEF ReadPacket, ErrorFlags
  <2> QED
    <3>1. tries' \in 0 .. RetryMax - 1 /\ packets' \in Nat
      <4>1. tries' = 0 /\ packets' = packets + 1
        BY <1>9 DEF ReadPacket
      <4> QED
        BY <1>t, <4>1, Zero
    <3> QED
      BY <1>t, <1>9, <2>1, <2>2, <2>3, <3>1 DEF ReadPacket, TypeOK
<1>10. CASE QueueFrame
  <2>1. Packetize(buf, count[buf], frame[buf]) \in Seq(Element)
    BY <1>t, <1>a, PacketizeType
  <2>2. downlink' \in Seq(Element)
    BY <1>t, <1>10, <2>1, ConcatProperties DEF QueueFrame
  <2>3. count' \in [Bufs -> 0 .. CountMod - 1]
    BY <1>t, <1>10, <1>a, NextCountType DEF QueueFrame
  <2>4. frame' \in [Bufs -> Seq(Unit)] /\ last' \in [Bufs -> Addresses]
    BY <1>t, <1>10, EmptySeq DEF QueueFrame
  <2>5. errors' \in [Systems -> SUBSET ErrorFlags]
    BY <1>t, <1>10, RaiseType DEF QueueFrame
  <2> QED
    BY <1>t, <1>10, <2>2, <2>3, <2>4, <2>5, ReturnType DEF QueueFrame, remote, TypeOK
<1>11. CASE Housekeeping
  BY <1>t, <1>11, ExchangeType DEF Housekeeping, manager, TypeOK
<1>12. CASE Drain
  <2>1. NextVisit \in 1 .. Len(Cycle)
    BY <1>t, NextVisitType
  <2> QED
    BY <1>t, <1>12, <2>1 DEF Drain, remote, manager, TypeOK
<1>13. CASE Restart
  <2>1. faults' \in 0 .. MaxFaults
    BY <1>t, <1>13, CostType DEF Restart
  <2>2. visit' \in 1 .. Len(Cycle)
    BY <1>t, <1>13 DEF Restart
  <2>3. frame' \in [Bufs -> Seq(Unit)] /\ errors' \in [Systems -> SUBSET ErrorFlags]
    BY <1>t, <1>13 DEF Restart
  <2>4. last' \in [Bufs -> Addresses] /\ count' \in [Bufs -> 0 .. CountMod - 1]
    BY <1>t, <1>13, Sizes DEF Restart, Addresses
  <2> QED
    <3>1. tries' \in 0 .. RetryMax - 1 /\ packets' \in Nat /\ pointer' \in Addresses
      BY <1>13, Sizes DEF Restart, Addresses
    <3>2. net' \in Seq(Unit) /\ downlink' \in Seq(Element)
      BY <1>13, EmptySeq DEF Restart
    <3> QED
      BY <1>t, <1>13, <2>1, <2>2, <2>3, <2>4, <3>1, <3>2 DEF Restart, TypeOK
<1>14. CASE UNCHANGED vars
  BY <1>t, <1>14 DEF vars, remote, local, manager, TypeOK
<1> QED
  BY <1>t, <1>1, <1>2, <1>3, <1>4, <1>5, <1>6, <1>7, <1>8, <1>9, <1>10, <1>11, <1>12,
     <1>13, <1>14 DEF Next, Formatter

\* Every variable keeps its type: in particular the address of the next read is
\* an address, and the number of a frame fits its field, whatever the stream
\* brought (the arithmetic of TransportLayerMachine is unsigned).
THEOREM TypeCorrect == Spec => []TypeOK
<1>1. Init => TypeOK
  BY TypeInit
<1>2. TypeOK /\ [Next]_vars => TypeOK'
  BY TypeStep
<1> QED
  BY <1>1, <1>2, PTL DEF Spec

-----------------------------------------------------------------------------
(* Safety.  The properties rest on two facts about the loop: packets are    *)
(* queued only behind the read of a frame, and the frame being read is not *)
(* the one read last.                                                      *)

QueuedBehindRead == downlink # <<>> => pc \in {"housekeeping", "drain"}
ReadsAnother     == pc \in {"read frame", "await packet"} => pointer # last[buf]

IInv == /\ TypeOK
        /\ FramerNeverStartsFull
        /\ QueuedBehindRead
        /\ ReadsAnother
        /\ QueuedFrameIsWhole

\* What Packetize makes of a whole frame is what QueuedFrameIsWhole asks for.
LEMMA PacketizeWhole ==
  ASSUME NEW b \in Bufs, NEW n \in 0 .. CountMod - 1, NEW f \in Seq(Unit), FrameDone(f)
  PROVE  /\ Len(Packetize(b, n, f)) = PacketsPerFrame
         /\ PacketsPerFrame \in Nat
         /\ \A i \in 1 .. PacketsPerFrame :
              /\ Packetize(b, n, f)[i].of = PacketsPerFrame
              /\ Packetize(b, n, f)[i].index = i
              /\ Packetize(b, n, f)[i].buf = b
              /\ Packetize(b, n, f)[i].frame_counter = n
              /\ Len(Packetize(b, n, f)[i].data) =
                   Least(DownlinkSize, FrameSize - (i - 1) * DownlinkSize)
<1>1. Len(f) = FrameSize
  BY DEF FrameDone
<1>2. CeilDiv(Len(f), DownlinkSize) = PacketsPerFrame /\ PacketsPerFrame \in Nat
  BY <1>1, CeilDivBounds, Sizes DEF PacketsPerFrame
<1>3. Len(Packetize(b, n, f)) = PacketsPerFrame
  BY <1>2, PacketizeType
<1>4. ASSUME NEW i \in 1 .. PacketsPerFrame
      PROVE  Len(SubSeq(f, (i - 1) * DownlinkSize + 1,
                        Least(i * DownlinkSize, Len(f))))
               = Least(DownlinkSize, FrameSize - (i - 1) * DownlinkSize)
  <2> DEFINE at == (i - 1) * DownlinkSize
  <2>1. at \in Nat /\ i * DownlinkSize = at + DownlinkSize /\ at < FrameSize
    BY PartStart, Sizes DEF PacketsPerFrame
  <2>2. FrameSize \in Nat /\ DownlinkSize \in Nat \ {0}
    BY Sizes
  <2> HIDE DEF at
  <2>3. Least(at + DownlinkSize, FrameSize) \in at + 1 .. FrameSize
    BY <2>1, <2>2 DEF Least
  <2>4. Len(SubSeq(f, at + 1, Least(at + DownlinkSize, FrameSize)))
          = Least(at + DownlinkSize, FrameSize) - (at + 1) + 1
    <3>1. at + 1 \in Nat \ {0}
      BY <2>1
    <3> QED
      BY <1>1, <2>1, <2>2, <2>3, <3>1, Part
  <2>5. Least(at + DownlinkSize, FrameSize) - (at + 1) + 1
          = Least(DownlinkSize, FrameSize - at)
    BY <2>1, <2>2 DEF Least
  <2> QED
    BY <1>1, <2>1, <2>4, <2>5 DEF at
<1>5. ASSUME NEW i \in 1 .. PacketsPerFrame
      PROVE  Packetize(b, n, f)[i] =
               [buf |-> b, frame_counter |-> n, of |-> PacketsPerFrame, index |-> i,
                data |-> SubSeq(f, (i - 1) * DownlinkSize + 1,
                                Least(i * DownlinkSize, Len(f)))]
  BY <1>2 DEF Packetize
<1>6. ASSUME NEW i \in 1 .. PacketsPerFrame
      PROVE  /\ Packetize(b, n, f)[i].of = PacketsPerFrame
             /\ Packetize(b, n, f)[i].index = i
             /\ Packetize(b, n, f)[i].buf = b
             /\ Packetize(b, n, f)[i].frame_counter = n
             /\ Packetize(b, n, f)[i].data =
                  SubSeq(f, (i - 1) * DownlinkSize + 1, Least(i * DownlinkSize, Len(f)))
  <2> DEFINE part == SubSeq(f, (i - 1) * DownlinkSize + 1, Least(i * DownlinkSize, Len(f)))
             e    == Packetize(b, n, f)[i]
  <2>1. e = [buf |-> b, frame_counter |-> n, of |-> PacketsPerFrame, index |-> i,
             data |-> part]
    BY <1>5
  <2> HIDE DEF part, e
  <2>2. e.of = PacketsPerFrame /\ e.index = i /\ e.buf = b /\ e.frame_counter = n
        /\ e.data = part
    BY <2>1
  <2> QED
    BY <2>2 DEF part, e
<1> HIDE DEF Packetize
<1> QED
  BY <1>2, <1>3, <1>4, <1>6, Zenon

LEMMA EmptyLen == Len(<<>>) = 0
OBVIOUS

LEMMA FullStep ==
  TypeOK /\ FramerNeverStartsFull /\ [Next]_vars => FramerNeverStartsFull'
<1> SUFFICES ASSUME TypeOK, FramerNeverStartsFull, [Next]_vars
             PROVE  FramerNeverStartsFull'
  OBVIOUS
<1>t. frame \in [Bufs -> Seq(Unit)] /\ net \in Seq(Unit) /\ visit \in 1 .. Len(Cycle)
  BY DEF TypeOK
<1>a. buf \in Bufs
  BY <1>t, VisitType
<1>s. FrameSize \in Nat \ {0} /\ ReadSize \in Nat \ {0} /\ ReadSize <= FrameSize
  BY Sizes
<1>1. ASSUME pc # "read frame" \/ ~FrameDone(frame[buf]), UNCHANGED frame
      PROVE  FramerNeverStartsFull'
  BY <1>1 DEF FramerNeverStartsFull, FrameDone
<1>2. CASE ReadPacket
  <2>1. Len(net) \in Nat
    BY <1>t, LenProperties
  <2>2. Len(net) > ReadSize
    BY <1>2 DEF ReadPacket
  <2>3. ReadSize + 1 \in Int /\ ReadSize + 1 <= Len(net)
    BY <1>s, <2>1, <2>2
  <2> DEFINE data == SubSeq(net, 2, ReadSize + 1)
  <2>4. data \in Seq(Unit) /\ Len(data) <= FrameSize
    <3>1. data \in Seq(Unit)
      BY <1>t, <2>3, Part
    <3>2. 2 <= ReadSize + 1 /\ (ReadSize + 1) - 2 + 1 = ReadSize
      BY <1>s
    <3>3. Len(data) = ReadSize
      BY <1>t, <2>3, <3>2, Part
    <3> QED
      BY <1>s, <3>1, <3>3
  <2>5. Len(frame[buf]) <= FrameSize
    BY <1>a DEF FramerNeverStartsFull
  <2>6. Len(PushToFrame(frame[buf], data)) <= FrameSize
    BY <1>t, <1>a, <2>4, <2>5, PushToFrameSize
  <2> HIDE DEF data
  <2>7. frame' = [frame EXCEPT ![buf] = PushToFrame(frame[buf], data)]
    BY <1>2 DEF ReadPacket, data
  <2>8. pc = "await packet" /\ pc' = "read frame" /\ buf' = buf
    BY <1>2 DEF ReadPacket, buf
  <2>9. \A b \in Bufs : Len(frame'[b]) <= FrameSize
    BY <1>t, <2>6, <2>7 DEF FramerNeverStartsFull
  <2>10. \A b \in Bufs : b # buf => ~FrameDone(frame'[b])
    BY <1>t, <2>7, <2>8 DEF FramerNeverStartsFull
  <2> QED
    BY <2>8, <2>9, <2>10 DEF FramerNeverStartsFull, FrameDone
<1>3. CASE QueueFrame
  <2>1. frame' = [frame EXCEPT ![buf] = <<>>]
    BY <1>3 DEF QueueFrame
  <2>2. \A b \in Bufs : Len(frame'[b]) <= FrameSize
    <3>1. ASSUME NEW b \in Bufs PROVE Len(frame'[b]) <= FrameSize
      <4>1. CASE b = buf
        BY <1>t, <1>s, <2>1, <4>1, EmptyLen
      <4>2. CASE b # buf
        BY <1>t, <2>1, <4>2 DEF FramerNeverStartsFull
      <4> QED
        BY <4>1, <4>2
    <3> QED
      BY <3>1
  <2>3. \A b \in Bufs : ~FrameDone(frame'[b])
    BY <1>t, <1>s, <2>1, EmptyLen DEF FramerNeverStartsFull, FrameDone
  <2> QED
    BY <2>2, <2>3 DEF FramerNeverStartsFull, FrameDone
<1>4. CASE Restart
  <2>1. frame' = [b \in Bufs |-> <<>>]
    BY <1>4 DEF Restart
  <2>2. \A b \in Bufs : Len(frame'[b]) = 0
    BY <2>1, EmptyLen
  <2>3. \A b \in Bufs : Len(frame'[b]) <= FrameSize /\ Len(frame'[b]) # FrameSize
    BY <1>s, <2>2
  <2> QED
    BY <2>3 DEF FramerNeverStartsFull, FrameDone
<1>5. CASE UNCHANGED vars
  BY <1>5 DEF vars, local, manager, FramerNeverStartsFull, FrameDone, buf
<1>6. ASSUME NEW b \in Bufs, DetectorWrites(b) PROVE FramerNeverStartsFull'
  BY <1>6 DEF DetectorWrites, local, manager, FramerNeverStartsFull, FrameDone, buf
<1>7. CASE Flush \/ UplinkCommand \/ AskPointer \/ Housekeeping \/ Drain
  BY <1>1, <1>7 DEF Flush, UplinkCommand, AskPointer, Housekeeping, Drain, manager
<1>8. CASE PointerTimeout \/ ReadPointer \/ PacketTimeout
  BY <1>1, <1>8 DEF PointerTimeout, ReadPointer, PacketTimeout
<1>9. CASE AskPacket
  BY <1>1, <1>9 DEF AskPacket, manager
<1> QED
  BY <1>2, <1>3, <1>4, <1>5, <1>6, <1>7, <1>8, <1>9 DEF Next, Formatter

LEMMA FullInit == Init => FramerNeverStartsFull
<1> SUFFICES ASSUME Init PROVE FramerNeverStartsFull
  OBVIOUS
<1>1. \A b \in Bufs : Len(frame[b]) = 0
  BY EmptyLen DEF Init
<1>2. FrameSize \in Nat \ {0}
  BY Sizes
<1>3. 0 <= FrameSize /\ 0 # FrameSize
  BY <1>2
<1>4. \A b \in Bufs : Len(frame[b]) <= FrameSize /\ Len(frame[b]) # FrameSize
  BY <1>1, <1>3, Zenon
<1> QED
  BY <1>4 DEF FramerNeverStartsFull, FrameDone

LEMMA QueueStep ==
  TypeOK /\ QueuedBehindRead /\ [Next]_vars => QueuedBehindRead'
<1> SUFFICES ASSUME TypeOK, QueuedBehindRead, [Next]_vars
             PROVE  QueuedBehindRead'
  OBVIOUS
<1> USE DEF QueuedBehindRead
<1>1. ASSUME NEW b \in Bufs, DetectorWrites(b) PROVE QueuedBehindRead'
  BY <1>1 DEF DetectorWrites, local
<1>2. CASE Flush \/ UplinkCommand \/ AskPointer \/ AskPacket \/ Housekeeping
  BY <1>2 DEF Flush, UplinkCommand, AskPointer, AskPacket, Housekeeping
<1>3. CASE PointerTimeout \/ ReadPointer \/ PacketTimeout \/ ReadPacket
  BY <1>3 DEF PointerTimeout, ReadPointer, PacketTimeout, ReadPacket
<1>4. CASE QueueFrame
  BY <1>4 DEF QueueFrame, Return
<1>5. CASE Drain \/ Restart
  BY <1>5 DEF Drain, Restart
<1>6. CASE UNCHANGED vars
  BY <1>6 DEF vars, local
<1> QED
  BY <1>1, <1>2, <1>3, <1>4, <1>5, <1>6 DEF Next, Formatter

LEMMA ReadsAnotherStep ==
  TypeOK /\ ReadsAnother /\ [Next]_vars => ReadsAnother'
<1> SUFFICES ASSUME TypeOK, ReadsAnother, [Next]_vars
             PROVE  ReadsAnother'
  OBVIOUS
<1> USE DEF ReadsAnother
<1>1. ASSUME NEW b \in Bufs, DetectorWrites(b) PROVE ReadsAnother'
  BY <1>1 DEF DetectorWrites, local, manager, buf
<1>2. CASE Flush \/ UplinkCommand \/ AskPointer \/ Housekeeping \/ Drain \/ Restart
  BY <1>2 DEF Flush, UplinkCommand, AskPointer, Housekeeping, Drain, Restart
<1>3. CASE PointerTimeout
  BY <1>3 DEF PointerTimeout, Return
<1>4. CASE ReadPointer
  BY <1>4 DEF ReadPointer, Return, buf
<1>5. CASE AskPacket
  BY <1>5 DEF AskPacket, manager, buf
<1>6. CASE PacketTimeout
  BY <1>6 DEF PacketTimeout, Return, buf
<1>7. CASE ReadPacket
  BY <1>7 DEF ReadPacket, buf
<1>8. CASE QueueFrame
  BY <1>8 DEF QueueFrame, Return
<1>9. CASE UNCHANGED vars
  BY <1>9 DEF vars, local, manager, buf
<1> QED
  BY <1>1, <1>2, <1>3, <1>4, <1>5, <1>6, <1>7, <1>8, <1>9 DEF Next, Formatter

\* The queue was empty when the frame was complete, and a frame was cut.
LEMMA QueueFrameEffect ==
  ASSUME TypeOK, QueuedBehindRead, QueueFrame
  PROVE  /\ buf \in Bufs
         /\ count[buf] \in 0 .. CountMod - 1
         /\ frame[buf] \in Seq(Unit)
         /\ FrameDone(frame[buf])
         /\ downlink = <<>>
         /\ downlink' = Packetize(buf, count[buf], frame[buf])
<1>1. buf \in Bufs
  BY VisitType DEF TypeOK
<1>2. count[buf] \in 0 .. CountMod - 1 /\ frame[buf] \in Seq(Unit)
  BY <1>1 DEF TypeOK
<1>3. downlink = <<>> /\ FrameDone(frame[buf])
  BY DEF QueuedBehindRead, QueueFrame
<1>4. downlink' = <<>> \o Packetize(buf, count[buf], frame[buf])
  BY <1>3 DEF QueueFrame
<1>5. Packetize(buf, count[buf], frame[buf]) \in Seq(Element)
  BY <1>1, <1>2, PacketizeType
<1>6. <<>> \o Packetize(buf, count[buf], frame[buf])
        = Packetize(buf, count[buf], frame[buf])
  BY <1>5, ConcatEmptySeq
<1> QED
  BY <1>1, <1>2, <1>3, <1>4, <1>6

LEMMA WholeStep ==
  TypeOK /\ QueuedBehindRead /\ QueuedFrameIsWhole /\ [Next]_vars => QueuedFrameIsWhole'
<1> SUFFICES ASSUME TypeOK, QueuedBehindRead, QueuedFrameIsWhole, [Next]_vars
             PROVE  QueuedFrameIsWhole'
  OBVIOUS
<1>1. ASSUME UNCHANGED downlink PROVE QueuedFrameIsWhole'
  BY <1>1 DEF QueuedFrameIsWhole
<1>2. ASSUME downlink' = <<>> PROVE QueuedFrameIsWhole'
  BY <1>2 DEF QueuedFrameIsWhole
<1>3. CASE QueueFrame
  <2> DEFINE b == buf
             n == count[buf]
             f == frame[buf]
  <2>1. /\ b \in Bufs /\ n \in 0 .. CountMod - 1 /\ f \in Seq(Unit) /\ FrameDone(f)
        /\ downlink' = Packetize(b, n, f)
    BY <1>3, QueueFrameEffect
  <2> HIDE DEF b, n, f
  <2> QED
    BY <2>1, PacketizeWhole DEF QueuedFrameIsWhole
<1>4. ASSUME NEW b \in Bufs, DetectorWrites(b) PROVE UNCHANGED downlink
  BY <1>4 DEF DetectorWrites
<1>5. CASE Flush \/ UplinkCommand \/ AskPointer \/ AskPacket \/ Housekeeping
  BY <1>1, <1>5 DEF Flush, UplinkCommand, AskPointer, AskPacket, Housekeeping
<1>6. CASE PointerTimeout \/ ReadPointer \/ PacketTimeout \/ ReadPacket
  BY <1>1, <1>6 DEF PointerTimeout, ReadPointer, PacketTimeout, ReadPacket
<1>7. CASE Drain \/ Restart
  BY <1>2, <1>7 DEF Drain, Restart
<1>8. CASE UNCHANGED vars
  BY <1>1, <1>8 DEF vars
<1> QED
  BY <1>1, <1>3, <1>4, <1>5, <1>6, <1>7, <1>8 DEF Next, Formatter

LEMMA Inductive ==
  /\ Init => IInv
  /\ IInv /\ [Next]_vars => IInv'
<1>1. Init => IInv
  BY TypeInit, FullInit DEF Init, IInv, QueuedBehindRead, ReadsAnother, QueuedFrameIsWhole
<1>2. IInv /\ [Next]_vars => IInv'
  BY TypeStep, FullStep, QueueStep, ReadsAnotherStep, WholeStep DEF IInv
<1> QED
  BY <1>1, <1>2

LEMMA Invariance == Spec => []IInv
BY Inductive, PTL DEF Spec

\* Whatever is lost, late or torn, no visit starts with a whole frame left in
\* its PacketFramer: the loop of sync_remote_buffer_transaction that reads until
\* check_frame_done always reads, and what push_to_frame holds never exceeds the
\* frame.  With the old frame in it the new pointer would label the old data.
THEOREM FramerNeverStartsFullHolds == Spec => []FramerNeverStartsFull
BY Invariance, PTL DEF IInv

\* For every frame size, packet size and counter width, and with any bytes on the
\* stream, what FramePacketizer queues is packets 1 .. n of one frame, each of
\* the length its place in the frame demands.
THEOREM QueuedFrameIsWholeHolds == Spec => []QueuedFrameIsWhole
BY Invariance, PTL DEF IInv

-----------------------------------------------------------------------------
(* What every step does to the pointers, the counters and the queue.       *)

\* Three kinds of step: the one that queues a frame, those that empty the
\* queue, and all the others.
LEMMA StepKinds ==
  ASSUME [Next]_vars
  PROVE  \/ QueueFrame
         \/ Restart
         \/ UNCHANGED <<last, count>> /\ downlink' = <<>>
         \/ UNCHANGED <<last, count, downlink>>
<1>1. ASSUME NEW b \in Bufs, DetectorWrites(b) PROVE UNCHANGED <<last, count, downlink>>
  BY <1>1 DEF DetectorWrites, manager
<1>2. CASE Flush \/ UplinkCommand \/ AskPointer \/ AskPacket \/ Housekeeping
  BY <1>2 DEF Flush, UplinkCommand, AskPointer, AskPacket, Housekeeping, manager
<1>3. CASE PointerTimeout \/ ReadPointer \/ PacketTimeout \/ ReadPacket
  BY <1>3 DEF PointerTimeout, ReadPointer, PacketTimeout, ReadPacket
<1>4. CASE Drain
  BY <1>4 DEF Drain, manager
<1>5. CASE UNCHANGED vars
  BY <1>5 DEF vars, manager
<1> QED
  BY <1>1, <1>2, <1>3, <1>4, <1>5 DEF Next, Formatter

LEMMA QueueFrameQueues ==
  ASSUME IInv, QueueFrame
  PROVE  /\ QueuesFrameOf(buf)
         /\ \A b \in Bufs : b # buf => last'[b] = last[b] /\ count'[b] = count[b]
<1>1. TypeOK /\ QueuedBehindRead /\ ReadsAnother
  BY DEF IInv
<1>2. buf \in Bufs /\ last \in [Bufs -> Addresses] /\ count \in [Bufs -> 0 .. CountMod - 1]
  BY <1>1, QueueFrameEffect DEF TypeOK
<1>3. last' = [last EXCEPT ![buf] = pointer] /\ pointer # last[buf]
  BY <1>1 DEF QueueFrame, ReadsAnother
<1>4. count' = [count EXCEPT ![buf] = NextCount(count[buf])]
  BY DEF QueueFrame
<1> DEFINE b == buf
           n == count[buf]
           f == frame[buf]
<1>5. /\ b \in Bufs /\ n \in 0 .. CountMod - 1 /\ f \in Seq(Unit) /\ FrameDone(f)
      /\ downlink = <<>> /\ downlink' = Packetize(b, n, f)
  BY <1>1, QueueFrameEffect
<1> HIDE DEF b, n, f
<1>6. Len(downlink') = PacketsPerFrame /\ PacketsPerFrame \in Nat
  BY <1>5, PacketizeWhole
<1>7. \A i \in 1 .. PacketsPerFrame :
        downlink'[i].buf = b /\ downlink'[i].frame_counter = n
  BY <1>5, PacketizeWhole
<1>8. Len(downlink) = 0
  BY <1>5, EmptyLen
<1>9. /\ Len(downlink') = Len(downlink) + PacketsPerFrame
      /\ \A i \in 1 .. PacketsPerFrame :
           /\ downlink'[Len(downlink) + i].buf = b
           /\ downlink'[Len(downlink) + i].frame_counter = n
  BY <1>6, <1>7, <1>8
<1>10. last'[buf] # last[buf] /\ count'[buf] = NextCount(count[buf])
  BY <1>2, <1>3, <1>4
<1>11. QueuesFrameOf(buf)
  BY <1>9, <1>10 DEF QueuesFrameOf, b, n
<1>12. \A c \in Bufs : c # buf => last'[c] = last[c] /\ count'[c] = count[c]
  BY <1>2, <1>3, <1>4
<1> QED
  BY <1>11, <1>12

\* The pointer kept for the next visit and the frame counter move in the step
\* that queues a whole frame and in no other, so that what a failed transaction
\* did not read is asked for again and the ground sees no gap in the numbers.
THEOREM PointerFollowsFrameHolds == Spec => PointerFollowsFrame
<1> DEFINE A == \/ /\ \A b \in Bufs : last'[b] # last[b] \/ count'[b] # count[b]
                                       => QueuesFrameOf(b)
                   /\ Len(downlink') > Len(downlink) => QueuesFrameOf(buf)
                \/ Restart
<1>1. ASSUME IInv, [Next]_vars
      PROVE  [A]_<<last, count, downlink>>
  <2>1. CASE QueueFrame
    BY <1>1, <2>1, QueueFrameQueues
  <2>2. CASE Restart
    BY <2>2
  <2>3. CASE UNCHANGED <<last, count>> /\ downlink' = <<>>
    <3>1. downlink \in Seq(Element)
      BY <1>1 DEF IInv, TypeOK
    <3>2. ~(Len(downlink') > Len(downlink))
      BY <2>3, <3>1, EmptyLen, LenProperties
    <3> QED
      BY <2>3, <3>2
  <2>4. CASE UNCHANGED <<last, count, downlink>>
    BY <2>4
  <2> QED
    BY <1>1, <2>1, <2>2, <2>3, <2>4, StepKinds
<1> QED
  BY <1>1, Invariance, PTL DEF Spec, PointerFollowsFrame

\* A frame is at least one packet.
LEMMA SomePackets == PacketsPerFrame \in Nat \ {0}
<1>1. FrameSize \in Nat \ {0} /\ DownlinkSize \in Nat \ {0}
  BY SizesAssumption
<1>2. PacketsPerFrame \in Nat /\ FrameSize <= PacketsPerFrame * DownlinkSize
  BY <1>1, CeilDivBounds DEF PacketsPerFrame
<1>3. ASSUME PacketsPerFrame = 0 PROVE FALSE
  <2>1. 0 * DownlinkSize = 0
    BY <1>1
  <2> QED
    BY <1>1, <1>2, <1>3, <2>1
<1> QED
  BY <1>2, <1>3

\* Of the steps that change flags, all but two leave those of other detectors
\* alone and reading_invalid up.
LEMMA FlagStep ==
  ASSUME TypeOK, [Next]_vars, ~QueueFrame, ~Restart, NEW s \in Systems,
         "reading_invalid" \in errors[s]
  PROVE  "reading_invalid" \in errors'[s]
<1>1. errors \in [Systems -> SUBSET ErrorFlags]
  BY DEF TypeOK
<1>2. ASSUME NEW b \in Bufs, DetectorWrites(b) PROVE UNCHANGED errors
  BY <1>2 DEF DetectorWrites, manager
<1>3. CASE Flush \/ UplinkCommand \/ AskPointer \/ AskPacket \/ Housekeeping \/ Drain
  BY <1>3 DEF Flush, UplinkCommand, AskPointer, AskPacket, Housekeeping, Drain, manager
<1>4. CASE PointerTimeout
  BY <1>1, <1>4 DEF PointerTimeout, Raise
<1>5. CASE ReadPointer
  <2>1. \/ errors' = [errors EXCEPT ![sys] = (@ \ {"reading_packet"}) \cup {"reading_invalid"}]
        \/ errors' = [errors EXCEPT ![sys] = @ \ {"reading_packet"}]
    BY <1>5 DEF ReadPointer, Clear
  <2> QED
    BY <1>1, <2>1
<1>6. CASE PacketTimeout
  BY <1>1, <1>6 DEF PacketTimeout, Raise
<1>7. CASE ReadPacket
  BY <1>1, <1>7 DEF ReadPacket, Clear
<1>8. CASE UNCHANGED vars
  BY <1>8 DEF vars, manager
<1> QED
  BY <1>2, <1>3, <1>4, <1>5, <1>6, <1>7, <1>8 DEF Next, Formatter

\* reading_invalid of a detector goes down only in the step that queues a frame
\* of one of its buffers, or when the program starts again: the ground never
\* sees a failure taken back by a reply that says nothing of it.
THEOREM InvalidReplyStays == Spec => InvalidReplyStaysFlagged
<1> DEFINE A == \A s \in Systems :
                  "reading_invalid" \in errors[s] /\ "reading_invalid" \notin errors'[s]
                  => \/ Len(downlink') > Len(downlink) /\ s = sys
                     \/ Restart
<1>1. ASSUME IInv, [Next]_vars PROVE [A]_errors
  <2> SUFFICES ASSUME NEW s \in Systems, "reading_invalid" \in errors[s],
                      "reading_invalid" \notin errors'[s], ~Restart
               PROVE  Len(downlink') > Len(downlink) /\ s = sys
    OBVIOUS
  <2>1. TypeOK
    BY <1>1 DEF IInv
  <2>2. QueueFrame
    BY <1>1, <2>1, FlagStep
  <2>3. s = sys
    <3>1. errors \in [Systems -> SUBSET ErrorFlags]
      BY <2>1 DEF TypeOK
    <3> QED
      BY <2>2, <3>1 DEF QueueFrame, Clear
  <2>4. Len(downlink') > Len(downlink)
    <3>1. Len(downlink') = Len(downlink) + PacketsPerFrame
      BY <1>1, <2>2, QueueFrameQueues DEF QueuesFrameOf
    <3>2. Len(downlink) \in Nat
      BY <2>1, LenProperties DEF TypeOK
    <3> QED
      BY <3>1, <3>2, SomePackets
  <2> QED
    BY <2>3, <2>4
<1> QED
  BY <1>1, Invariance, PTL DEF Spec, InvalidReplyStaysFlagged

-----------------------------------------------------------------------------
(* The readout implements FrameDownlink.                                   *)

Headers(s) == [i \in 1 .. Len(s) |-> HeaderOf(s[i])]

\* The headers of a whole frame's packets are those that Release promises.
LEMMA PacketizeHeaders ==
  ASSUME NEW b \in Bufs, NEW n \in 0 .. CountMod - 1, NEW f \in Seq(Unit), FrameDone(f)
  PROVE  Headers(Packetize(b, n, f))
           = [i \in 1 .. PacketsPerFrame |-> Promise!Header(b, n, i)]
<1> DEFINE s == Packetize(b, n, f)
<1>1. Len(s) = PacketsPerFrame
  BY PacketizeWhole
<1>2. ASSUME NEW i \in 1 .. PacketsPerFrame
      PROVE  HeaderOf(s[i]) = Promise!Header(b, n, i)
  <2>1. s[i].buf = b /\ s[i].frame_counter = n /\ s[i].of = PacketsPerFrame
        /\ s[i].index = i
    BY PacketizeWhole
  <2> HIDE DEF s
  <2> QED
    BY <2>1 DEF HeaderOf, Promise!Header
<1> HIDE DEF s
<1>3. Headers(s) = [i \in 1 .. PacketsPerFrame |-> Promise!Header(b, n, i)]
  BY <1>1, <1>2 DEF Headers
<1> QED
  BY <1>3 DEF s

\* Every step of the readout is, for the ground, the release of a whole frame
\* under the next number, the sending of all that is queued, a restart of the
\* program, or nothing.
THEOREM Implements == Spec => KeepsPromise
<1> DEFINE queue == Headers(downlink)
<1>1. Init => Promise!Init
  <2> SUFFICES ASSUME Init PROVE Promise!Init
    OBVIOUS
  <2>1. downlink = <<>> /\ count = [b \in Bufs |-> 0]
    BY DEF Init
  <2>2. [i \in 1 .. Len(downlink) |-> HeaderOf(downlink[i])] = <<>>
    BY <2>1, EmptyLen
  <2> QED
    BY <2>1, <2>2 DEF Promise!Init
<1>2. ASSUME IInv, [Next]_vars
      PROVE  [Promise!Next]_<<count, queue>>
  <2>1. CASE QueueFrame
    <3> DEFINE b == buf
               n == count[buf]
               f == frame[buf]
    <3>1. /\ b \in Bufs /\ n \in 0 .. CountMod - 1 /\ f \in Seq(Unit) /\ FrameDone(f)
          /\ downlink = <<>> /\ downlink' = Packetize(b, n, f)
      BY <1>2, <2>1, QueueFrameEffect DEF IInv
    <3>2. count' = [count EXCEPT ![b] = NextCount(@)] /\ n = count[b]
      BY <2>1 DEF QueueFrame
    <3> HIDE DEF b, n, f
    <3>3. queue' = [i \in 1 .. PacketsPerFrame |-> Promise!Header(b, n, i)]
      BY <3>1, PacketizeHeaders
    <3>4. queue = <<>>
      BY <3>1, EmptyLen DEF Headers
    <3>5. PacketsPerFrame \in Nat
      BY <3>1, PacketizeWhole
    <3>6. <<>> \o [i \in 1 .. PacketsPerFrame |-> Promise!Header(b, n, i)]
            = [i \in 1 .. PacketsPerFrame |-> Promise!Header(b, n, i)]
      BY <3>5
    <3>7. queue' = queue \o [i \in 1 .. PacketsPerFrame |-> Promise!Header(b, count[b], i)]
      BY <3>2, <3>3, <3>4, <3>6
    <3>8. count' = [count EXCEPT ![b] = (@ + 1) % CountMod]
      BY <3>2 DEF NextCount
    <3>9. Promise!Release(b)
      BY <3>7, <3>8 DEF Promise!Release, Headers
    <3> QED
      BY <3>1, <3>9 DEF Promise!Next
  <2>2. CASE Restart
    <3>1. downlink' = <<>> /\ count' = [b \in Bufs |-> 0]
      BY <2>2 DEF Restart
    <3>2. queue' = <<>>
      BY <3>1, EmptyLen DEF Headers
    <3>3. Promise!Reset
      BY <3>1, <3>2 DEF Promise!Reset, Headers
    <3> QED
      BY <3>3 DEF Promise!Next
  <2>3. CASE UNCHANGED <<last, count>> /\ downlink' = <<>>
    <3>1. queue' = <<>>
      BY <2>3, EmptyLen DEF Headers
    <3>2. Promise!Send
      BY <2>3, <3>1 DEF Promise!Send, Headers
    <3> QED
      BY <3>2 DEF Promise!Next
  <2>4. CASE UNCHANGED <<last, count, downlink>>
    BY <2>4 DEF Headers
  <2> QED
    BY <1>2, <2>1, <2>2, <2>3, <2>4, StepKinds
<1>3. IInv /\ [Next]_vars =>
        [Promise!Next]_<<count, [i \in 1 .. Len(downlink) |-> HeaderOf(downlink[i])]>>
  BY <1>2 DEF Headers
<1> QED
  BY <1>1, <1>3, Invariance, PTL DEF Spec, KeepsPromise, Promise!Spec
=============================================================================
