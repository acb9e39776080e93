-------------------------- MODULE FrameIntactProofs --------------------------
(***************************************************************************)
(* A frame that nothing went wrong with is the frame that the detector     *)
(* wrote: the proof of IntactWithoutFaults.                                *)
(***************************************************************************)
EXTENDS FrameReadoutProofs

-----------------------------------------------------------------------------
(* Arithmetic of slots.                                                    *)

\* Quotient and remainder are unique.
LEMMA Quotient ==
  ASSUME NEW m \in Nat \ {0}, NEW q \in Int, NEW r \in 0 .. m - 1
  PROVE  (q * m + r) % m = r /\ (q * m + r) \div m = q
<1> DEFINE x == q * m + r
           d == x \div m
           e == x % m
<1>1. q * m \in Int /\ x \in Int
  OBVIOUS
<1>2. d \in Int /\ e \in 0 .. m - 1 /\ x = d * m + e
  BY <1>1
<1>3. x = q * m + r
  OBVIOUS
<1> HIDE DEF x, d, e
<1>4. d * m \in Int /\ q * m - d * m = e - r
  BY <1>1, <1>2, <1>3
<1>5. ASSUME q - d >= 1 PROVE FALSE
  <2>1. q - d - 1 \in Nat
    BY <1>2, <1>5
  <2>2. (q - d - 1) * m \in Nat
    BY <2>1
  <2>3. (q - d - 1) * m = q * m - d * m - m
    BY <1>2
  <2> QED
    BY <1>1, <1>2, <1>4, <2>2, <2>3
<1>6. ASSUME d - q >= 1 PROVE FALSE
  <2>1. d - q - 1 \in Nat
    BY <1>2, <1>6
  <2>2. (d - q - 1) * m \in Nat
    BY <2>1
  <2>3. (d - q - 1) * m = d * m - q * m - m
    BY <1>2
  <2> QED
    BY <1>1, <1>2, <1>4, <2>2, <2>3
<1>7. d = q
  BY <1>2, <1>5, <1>6
<1>8. e = r
  BY <1>1, <1>2, <1>4, <1>7
<1> QED
  BY <1>7, <1>8 DEF x, d, e

\* Writing the next frame changes what no slot but its own holds.
LEMMA InSlotStays ==
  ASSUME NEW n \in 0 .. FramesPerRing - 1, NEW w \in 0 .. FrameIds - 1,
         w % FramesPerRing # n
  PROVE  InSlot(n, (w + 1) % FrameIds) = InSlot(n, w)
<1> DEFINE F == FramesPerRing
           I == FrameIds
           a == w - n
           q == a \div F
           r == a % F
           k == I \div F
<1>1. F \in Nat \ {0} /\ I \in Nat \ {0} /\ I % F = 0 /\ n \in 0 .. F - 1 /\ w \in 0 .. I - 1
  BY Sizes, SizesAssumption
<1>2. w % F # n
  OBVIOUS
<1> HIDE DEF F, I
<1>3. a \in Int /\ q \in Int /\ r \in 0 .. F - 1 /\ a = q * F + r /\ q * F \in Int
  BY <1>1
<1>4. k \in Int /\ I = k * F
  BY <1>1
<1>5. r # 0
  <2>1. ASSUME r = 0 PROVE w = q * F + n
    BY <1>1, <1>3, <2>1
  <2>2. (q * F + n) % F = n
    BY <1>1, <1>3, Quotient
  <2> QED
    BY <1>2, <2>1, <2>2
<1>a. a = w - n
  OBVIOUS
<1> HIDE DEF a, q, r, k
<1>6. (w - 1 - n) % F = r - 1
  <2>1. r - 1 \in 0 .. F - 1 /\ w - 1 - n = q * F + (r - 1)
    BY <1>1, <1>3, <1>5, <1>a
  <2>2. (q * F + (r - 1)) % F = r - 1
    BY <1>1, <1>3, <2>1, Quotient
  <2> QED
    BY <2>1, <2>2
<1>7. (w - 1 - ((w - 1 - n) % F)) % I = (w - r) % I
  <2>1. w - 1 - ((w - 1 - n) % F) = w - r
    BY <1>1, <1>3, <1>6
  <2> QED
    BY <2>1
<1>8. CASE w + 1 < I
  <2>1. (w + 1) % I = w + 1
    <3>1. w + 1 \in 0 .. I - 1
      BY <1>1, <1>8
    <3> QED
      BY <1>1, <3>1
  <2>2. (w + 1) - 1 - n = a /\ (w + 1) - 1 - r = w - r
    BY <1>1, <1>3, <1>a
  <2>3. ((w + 1) - 1 - n) % F = r
    BY <2>2 DEF r
  <2> QED
    BY <1>7, <2>1, <2>2, <2>3 DEF InSlot, F, I
<1>9. CASE w + 1 = I
  <2>1. (w + 1) % I = 0
    <3>1. 0 \in 0 .. I - 1 /\ 1 * I + 0 = w + 1
      BY <1>1, <1>9
    <3>2. (1 * I + 0) % I = 0
      BY <1>1, <3>1, Quotient
    <3> QED
      BY <3>1, <3>2
  <2>2. (0 - 1 - n) % F = r
    <3>1. q - k \in Int /\ (q - k) * F = q * F - k * F
      BY <1>1, <1>3, <1>4
    <3>2. 0 - 1 - n = (q - k) * F + r
      BY <1>1, <1>3, <1>4, <1>9, <1>a, <3>1
    <3>3. ((q - k) * F + r) % F = r
      BY <1>1, <1>3, <3>1, Quotient
    <3> QED
      BY <3>2, <3>3
  <2>3. (0 - 1 - r) % I = (w - r) % I
    <3> DEFINE y == 0 - 1 - r
               c == y \div I
               z == y % I
    <3>1. y \in Int /\ c \in Int /\ z \in 0 .. I - 1 /\ y = c * I + z /\ c * I \in Int
      BY <1>1, <1>3
    <3>2. y = 0 - 1 - r
      OBVIOUS
    <3> HIDE DEF y, c, z
    <3>3. c + 1 \in Int /\ (c + 1) * I = c * I + I
      BY <1>1, <3>1
    <3>4. w - r = (c + 1) * I + z
      BY <1>1, <1>3, <1>9, <3>1, <3>2, <3>3
    <3>5. ((c + 1) * I + z) % I = z
      BY <1>1, <3>1, <3>3, Quotient
    <3>6. (w - r) % I = z
      BY <3>4, <3>5
    <3> QED
      BY <3>6 DEF y, z
  <2> QED
    BY <1>7, <2>1, <2>2, <2>3 DEF InSlot, F, I
<1> QED
  BY <1>1, <1>8, <1>9

\* The n-th frame of a ring, and a unit of frame f of buffer b.
FrameAddress(n)   == StartAddress + n * FrameSize
Datum(b, f, o)    == [kind |-> "data", buf |-> b, frame |-> f, offset |-> o]
FrameOf(s, b, f)  == \A i \in 1 .. Len(s) : s[i] = Datum(b, f, i - 1)
Slots             == 0 .. FramesPerRing - 1

LEMMA SlotBounds ==
  ASSUME NEW n \in Slots
  PROVE  /\ n * FrameSize \in Nat /\ FrameAddress(n) \in Nat
         /\ FrameAddress(n) + FrameSize <= RingEnd
<1>1. n * FrameSize \in Nat /\ n * FrameSize + FrameSize <= FramesPerRing * FrameSize
  BY Sizes, SlotFits DEF Slots
<1>2. FramesPerRing * FrameSize \in Nat
  BY Sizes
<1> QED
  BY <1>1, <1>2, Sizes DEF FrameAddress, RingEnd, RingSize

\* What is in the memory of a frame: the latest that was written there.
LEMMA InMemory ==
  ASSUME NEW n \in Slots, NEW o \in 0 .. FrameSize - 1, NEW b
  PROVE  /\ (FrameAddress(n) + o) % AddressMod = FrameAddress(n) + o
         /\ ~Wild(FrameAddress(n) + o)
         /\ Memory(b, FrameAddress(n) + o) = Datum(b, InSlot(n, written[b]), o)
<1> DEFINE a == FrameAddress(n) + o
           m == n * FrameSize
<1>1. m \in Nat /\ FrameAddress(n) \in Nat /\ FrameAddress(n) + FrameSize <= RingEnd
      /\ FrameAddress(n) = StartAddress + m
  BY SlotBounds DEF FrameAddress
<1>2. /\ FrameSize \in Nat \ {0} /\ AddressMod \in Nat \ {0} /\ StartAddress \in Nat
      /\ RingEnd <= AddressMod /\ RingEnd \in Int
  BY Sizes DEF RingEnd, RingSize
<1>3. (n * FrameSize + o) % FrameSize = o /\ (n * FrameSize + o) \div FrameSize = n
  BY <1>2, Quotient DEF Slots
<1>4. a = FrameAddress(n) + o
  OBVIOUS
<1>5. (m + o) % FrameSize = o /\ (m + o) \div FrameSize = n
  BY <1>3
<1> HIDE DEF a, m
<1>6. a \in Nat /\ a < RingEnd /\ StartAddress <= a /\ a - StartAddress = m + o
  BY <1>1, <1>2, <1>4
<1>7. a % AddressMod = a
  BY <1>2, <1>6
<1>8. ~Wild(a)
  BY <1>2, <1>6 DEF Wild
<1>9. Memory(b, a) = Datum(b, InSlot(n, written[b]), o)
  BY <1>5, <1>6, <1>8 DEF Memory, Datum
<1> QED
  BY <1>7, <1>8, <1>9 DEF a

\* A write pointer is the address of a frame, and so is what it designates.
LEMMA PointsToFrame ==
  ASSUME NEW b \in Bufs, written \in [Bufs -> 0 .. FrameIds - 1]
  PROVE  \E n \in Slots : WritePointer(b) = FrameAddress(n)
<1>1. written[b] \in Int /\ written[b] + FramesPerRing - 1 \in Int
  BY Sizes
<1>2. /\ written[b] % FramesPerRing \in Slots
      /\ (written[b] + FramesPerRing - 1) % FramesPerRing \in Slots
  BY <1>1, Sizes, ModRange DEF Slots
<1> QED
  BY <1>2 DEF WritePointer, SlotAddress, FrameAddress

LEMMA DesignatesFrame ==
  ASSUME NEW b, NEW n \in Slots
  PROVE  \E k \in Slots : Designated(b, FrameAddress(n)) = FrameAddress(k)
<1> DEFINE p == FrameAddress(n)
<1>1. CASE b \notin CdTe
  BY <1>1 DEF Designated
<1>2. CASE b \in CdTe /\ p = StartAddress
  <2>1. FramesPerRing - 1 \in Slots
    BY Sizes DEF Slots
  <2> QED
    BY <1>2, <2>1 DEF Designated, FrameAddress
<1>3. CASE b \in CdTe /\ p # StartAddress
  <2>1. n # 0
    <3>1. 0 * FrameSize = 0
      BY Sizes
    <3> QED
      BY <1>3, <3>1, Sizes DEF FrameAddress
  <2>2. n - 1 \in Slots
    BY <2>1, Sizes DEF Slots
  <2>3. (n - 1) * FrameSize = n * FrameSize - FrameSize
    BY Sizes DEF Slots
  <2>4. p - FrameSize = FrameAddress(n - 1)
    <3>1. n * FrameSize \in Nat
      BY SlotBounds
    <3> QED
      BY <2>3, <3>1, Sizes DEF FrameAddress
  <2>5. FrameAddress(n - 1) \in Nat /\ FrameAddress(n - 1) + FrameSize <= RingEnd
    BY <2>2, SlotBounds
  <2>6. RingEnd \in Int /\ RingEnd <= AddressMod /\ FrameSize \in Nat \ {0}
        /\ AddressMod \in Nat \ {0}
    BY Sizes DEF RingEnd, RingSize
  <2>7. FrameAddress(n - 1) % AddressMod = FrameAddress(n - 1)
    <3> DEFINE z == FrameAddress(n - 1)
    <3>1. z \in Nat /\ z + FrameSize <= RingEnd
      BY <2>5
    <3> HIDE DEF z
    <3>2. z % AddressMod = z
      BY <2>6, <3>1
    <3> QED
      BY <3>2 DEF z
  <2>8. Designated(b, p) = FrameAddress(n - 1)
    BY <1>3, <2>4, <2>7 DEF Designated
  <2> QED
    BY <2>2, <2>8
<1> QED
  BY <1>1, <1>2, <1>3

-----------------------------------------------------------------------------
(* Frames under way.                                                       *)

\* A packet of the frame, pushed behind those before it, makes more of the frame,
\* and never more than the frame.
LEMMA Pushed ==
  ASSUME NEW s \in Seq(Unit), NEW d \in Seq(Unit), NEW k \in Nat, NEW b, NEW f,
         Len(s) = Least(k * ReadSize, FrameSize), Len(s) < FrameSize, FrameOf(s, b, f),
         Len(d) = ReadSize,
         \A i \in 1 .. ReadSize :
           k * ReadSize + i <= FrameSize => d[i] = Datum(b, f, k * ReadSize + i - 1)
  PROVE  /\ FrameOf(PushToFrame(s, d), b, f)
         /\ Len(PushToFrame(s, d)) = Least((k + 1) * ReadSize, FrameSize)
<1> DEFINE l == k * ReadSize
           m == Least(ReadSize, FrameSize - l)
           e == SubSeq(d, 1, m)
           t == s \o e
<1>1. ReadSize \in Nat \ {0} /\ FrameSize \in Nat \ {0} /\ ReadSize <= FrameSize
  BY Sizes
<1>2. l \in Nat /\ (k + 1) * ReadSize = l + ReadSize
  BY <1>1
<1>3. Len(s) = l /\ l < FrameSize
  BY <1>1, <1>2 DEF Least
<1>4. \A i \in 1 .. ReadSize : l + i <= FrameSize => d[i] = Datum(b, f, l + i - 1)
  OBVIOUS
<1>m. m = Least(ReadSize, FrameSize - l)
  OBVIOUS
<1> HIDE DEF l
<1>5. m \in 1 .. ReadSize /\ l + m <= FrameSize /\ l + m = Least(l + ReadSize, FrameSize)
  BY <1>1, <1>2, <1>3 DEF Least
<1> HIDE DEF m
<1>6. /\ e \in Seq(Unit) /\ Len(e) = m /\ \A i \in 1 .. m : e[i] = d[i]
  <2>1. m \in Int /\ m <= Len(d) /\ 1 \in Nat \ {0} /\ 1 <= m
    BY <1>1, <1>5
  <2>2. /\ SubSeq(d, 1, m) \in Seq(Unit) /\ Len(SubSeq(d, 1, m)) = m - 1 + 1
        /\ \A i \in 1 .. m - 1 + 1 : SubSeq(d, 1, m)[i] = d[1 + i - 1]
    BY <2>1, Part
  <2>3. m - 1 + 1 = m /\ \A i \in 1 .. m : 1 + i - 1 = i
    BY <2>1
  <2> QED
    BY <2>2, <2>3
<1> HIDE DEF e
<1>7. PushToFrame(s, d) = t
  <2>1. ~FrameDone(s)
    BY <1>1, <1>2, <1>3 DEF FrameDone
  <2>2. CASE l + ReadSize > FrameSize
    <3>1. s # <<>>
      BY <1>1, <1>2, <1>3, <2>2, EmptyLen
    <3>2. m = FrameSize - Len(s) /\ Len(s) + Len(d) > FrameSize
      BY <1>1, <1>2, <1>3, <1>m, <2>2 DEF Least
    <3> QED
      BY <2>1, <3>1, <3>2 DEF PushToFrame, e
  <2>3. CASE ~(l + ReadSize > FrameSize)
    <3>1. m = Len(d) /\ ~(Len(s) + Len(d) > FrameSize)
      BY <1>1, <1>2, <1>3, <1>m, <2>3 DEF Least
    <3>2. e = d
      BY <3>1, SubSeqFull DEF e
    <3> QED
      BY <2>1, <3>1, <3>2 DEF PushToFrame
  <2> QED
    BY <2>2, <2>3
<1>8. /\ Len(t) = l + m
      /\ \A i \in 1 .. l + m : t[i] = IF i <= l THEN s[i] ELSE e[i - l]
  BY <1>3, <1>6, ConcatProperties
<1> HIDE DEF t
<1>9. ASSUME NEW i \in 1 .. l + m PROVE t[i] = Datum(b, f, i - 1)
  <2>1. CASE i <= l
    <3>1. i \in 1 .. Len(s) /\ t[i] = s[i]
      BY <1>2, <1>3, <1>5, <1>8, <2>1
    <3> QED
      BY <3>1 DEF FrameOf
  <2>2. CASE ~(i <= l)
    <3> DEFINE j == i - l
    <3>1. j \in 1 .. m /\ j \in 1 .. ReadSize /\ l + j <= FrameSize /\ l + j - 1 = i - 1
      BY <1>1, <1>2, <1>5, <2>2
    <3>2. t[i] = e[j]
      BY <1>8, <2>2
    <3> HIDE DEF j
    <3>3. e[j] = d[j] /\ d[j] = Datum(b, f, l + j - 1)
      BY <1>4, <1>6, <3>1
    <3> QED
      BY <3>1, <3>2, <3>3
  <2> QED
    BY <2>1, <2>2
<1> QED
  BY <1>2, <1>5, <1>7, <1>8, <1>9 DEF FrameOf

\* The packets cut from a frame hold that frame.
LEMMA PacketizeIntact ==
  ASSUME NEW b \in Bufs, NEW n \in 0 .. CountMod - 1, NEW s \in Seq(Unit), FrameDone(s),
         NEW f, FrameOf(s, b, f)
  PROVE  \A i \in 1 .. Len(Packetize(b, n, s)) : \A j \in 1 .. Len(Packetize(b, n, s)[i].data) :
           Packetize(b, n, s)[i].data[j] =
             Datum(Packetize(b, n, s)[i].buf, f, (i - 1) * DownlinkSize + j - 1)
<1> DEFINE P == Packetize(b, n, s)
<1>1. Len(P) = PacketsPerFrame /\ \A i \in 1 .. PacketsPerFrame : P[i].buf = b
  BY PacketizeWhole
<1>2. Len(s) = FrameSize /\ FrameSize \in Nat \ {0} /\ DownlinkSize \in Nat \ {0}
  BY Sizes DEF FrameDone
<1>3. ASSUME NEW i \in 1 .. PacketsPerFrame, NEW j \in 1 .. Len(P[i].data)
      PROVE  P[i].data[j] = Datum(b, f, (i - 1) * DownlinkSize + j - 1)
  <2> DEFINE at == (i - 1) * DownlinkSize
             to == Least(i * DownlinkSize, Len(s))
             part == SubSeq(s, at + 1, to)
  <2>1. at \in Nat /\ i * DownlinkSize = at + DownlinkSize /\ at < FrameSize
    BY PartStart, Sizes DEF PacketsPerFrame
  <2>2. P[i].data = part
    <3>1. PacketsPerFrame = CeilDiv(Len(s), DownlinkSize)
      BY <1>2 DEF PacketsPerFrame
    <3>2. P[i] = [buf |-> b, frame_counter |-> n, of |-> PacketsPerFrame, index |-> i,
                  data |-> part]
      BY <3>1 DEF Packetize
    <3> HIDE DEF P, part
    <3> QED
      BY <3>2
  <2>3. to = Least(at + DownlinkSize, FrameSize)
    BY <1>2, <2>1
  <2> HIDE DEF at, to
  <2>4. to \in at + 1 .. FrameSize /\ to \in Int /\ at + 1 \in Nat \ {0} /\ to <= Len(s)
    BY <1>2, <2>1, <2>3 DEF Least
  <2>5. /\ Len(part) = to - (at + 1) + 1
        /\ \A k \in 1 .. to - (at + 1) + 1 : part[k] = s[(at + 1) + k - 1]
    BY <2>4, Part
  <2>6. Len(P[i].data) = to - (at + 1) + 1
    BY <2>2, <2>5
  <2> HIDE DEF part, P
  <2>7. j \in 1 .. to - (at + 1) + 1
    BY <2>6
  <2>8. /\ (at + 1) + j - 1 \in 1 .. Len(s) /\ (at + 1) + j - 1 - 1 = at + j - 1
    BY <1>2, <2>1, <2>4, <2>7
  <2>9. part[j] = s[(at + 1) + j - 1]
    BY <2>5, <2>7
  <2>10. s[(at + 1) + j - 1] = Datum(b, f, at + j - 1)
    <3> DEFINE k == (at + 1) + j - 1
    <3>1. k \in 1 .. Len(s) /\ k - 1 = at + j - 1
      BY <1>2, <2>1, <2>4, <2>7
    <3> HIDE DEF k
    <3>2. s[k] = Datum(b, f, k - 1)
      BY <3>1 DEF FrameOf
    <3>3. s[k] = Datum(b, f, at + j - 1)
      BY <3>1, <3>2
    <3> QED
      BY <3>3 DEF k
  <2> QED
    BY <2>2, <2>9, <2>10 DEF at
<1> QED
  BY <1>1, <1>3

-----------------------------------------------------------------------------
(* The invariant: without faults, where every unit comes from.             *)

Awaiting == pc \in {"await pointer", "await packet"}
Reading  == pc \in {"read frame", "await packet"}

\* The reply to the read of the pointer, which has come whole.
PointerComes ==
  \E n \in Slots : net = <<[kind |-> "pointer", value |-> FrameAddress(n)], [kind |-> "other"]>>

\* The reply to the read of a packet, behind which there may be what follows the
\* frame.
PacketComes(f) ==
  /\ Len(net) = ReadSize + 1
  /\ \A i \in 1 .. ReadSize :
       packets * ReadSize + i <= FrameSize =>
         net[i + 1] = Datum(buf, f, packets * ReadSize + i - 1)

\* The packets read so far are the beginning of the frame in slot n.
Reads(n) ==
  /\ pointer = FrameAddress(n)
  /\ Len(frame[buf]) = Least(packets * ReadSize, FrameSize)
  /\ FrameOf(frame[buf], buf, InSlot(n, written[buf]))
  /\ pc = "await packet" =>
       Len(frame[buf]) < FrameSize /\ PacketComes(InSlot(n, written[buf]))

Clean ==
  /\ ~Awaiting => net = <<>>
  /\ pc = "await pointer" => PointerComes
  /\ Reading => \E n \in Slots : Reads(n)
  /\ \A c \in Bufs : frame[c] # <<>> => c = buf /\ Reading
  /\ QueuedIntact

CleanWithoutFaults == Paced /\ faults = 0 => Clean

\* What costs a fault does not happen before the first.
LEMMA NoFault ==
  ASSUME TypeOK, faults' = 0
  PROVE  ~Cost(1) /\ (Cost(0) => faults = 0)
<1>1. faults \in 0 .. MaxFaults
  BY DEF TypeOK
<1>2. MaxFaults \in Nat
  BY Sizes
<1>3. faults \in Nat
  BY <1>1, <1>2
<1> QED
  BY <1>3 DEF Cost

LEMMA DropAll ==
  ASSUME NEW s \in Seq(Unit) PROVE Drop(s, Len(s)) = <<>>
<1>1. Len(s) \in Int /\ Len(s) + 1 \in Int /\ Len(s) < Len(s) + 1
  BY LenProperties
<1> QED
  BY <1>1, SubSeqEmpty DEF Drop

LEMMA CleanInit == Init => CleanWithoutFaults
<1> SUFFICES ASSUME Init PROVE Clean
  BY DEF CleanWithoutFaults
<1>1. /\ net = <<>> /\ pc = "flush" /\ downlink = <<>>
      /\ \A c \in Bufs : frame[c] = <<>>
  BY DEF Init
<1>2. QueuedIntact
  <2>1. 0 \in 0 .. FrameIds - 1
    BY Sizes
  <2> QED
    BY <1>1, <2>1, EmptyLen DEF QueuedIntact, Intact
<1> QED
  BY <1>1, <1>2 DEF Clean, Awaiting, Reading

\* Where nothing is awaited and no frame read, the stream and the framers stay
\* empty, and the queue is as it was or sent.
LEMMA QuietStep ==
  ASSUME Clean, ~Awaiting', ~Reading, ~Reading', net' = <<>>, UNCHANGED frame,
         downlink' = downlink \/ downlink' = <<>>
  PROVE  Clean'
<1>1. QueuedIntact'
  <2>1. CASE downlink' = downlink
    BY <2>1 DEF Clean, QueuedIntact, Intact
  <2>2. CASE downlink' = <<>>
    <3>1. 0 \in 0 .. FrameIds - 1
      BY Sizes
    <3> QED
      BY <2>2, <3>1, EmptyLen DEF QueuedIntact, Intact
  <2> QED
    BY <2>1, <2>2
<1>2. \A c \in Bufs : frame'[c] = <<>>
  BY DEF Clean
<1> QED
  BY <1>1, <1>2 DEF Clean, Awaiting

LEMMA EmptyDrop == Drop(<<>>, 0) = <<>>
  BY EmptyLen DEF Drop

LEMMA ExchangeClean ==
  ASSUME TypeOK, net = <<>>, faults' = 0, Exchange
  PROVE  net' = <<>>
<1>0. PICK r \in {OtherReply, <<>>} :
        \E k \in 0 .. Len(net \o r) :
          net' = Drop(net \o r, k) /\ Cost(IF r # <<>> /\ k = OtherSize THEN 0 ELSE 1)
  BY DEF Exchange
<1>1. PICK k \in 0 .. Len(net \o r) :
        net' = Drop(net \o r, k) /\ Cost(IF r # <<>> /\ k = OtherSize THEN 0 ELSE 1)
  BY <1>0
<1>2. r # <<>> /\ k = OtherSize
  BY <1>1, NoFault
<1>3. r = OtherReply /\ OtherReply \in Seq(Unit)
  BY <1>1, <1>2, OtherReplyType
<1>4. net \o r = r
  BY <1>3, ConcatEmptySeq
<1>5. Len(OtherReply) = OtherSize /\ OtherSize \in Nat
  BY Sizes DEF OtherReply
<1>6. net' = SubSeq(r, OtherSize + 1, OtherSize)
  BY <1>1, <1>2, <1>3, <1>4, <1>5 DEF Drop
<1> QED
  BY <1>5, <1>6, SubSeqEmpty

LEMMA AskPointerClean ==
  ASSUME TypeOK, Clean, AskPointer, faults' = 0
  PROVE  Clean'
<1>1. net = <<>> /\ ~Reading /\ pc' = "await pointer" /\ UNCHANGED <<frame, downlink>>
  BY DEF AskPointer, Clean, Awaiting, Reading, manager
<1>2. net' = net \o PointerReply(buf)
  <2>1. ~Cost(1)
    BY NoFault
  <2> QED
    BY <2>1 DEF AskPointer
<1>3. buf \in Bufs /\ written \in [Bufs -> 0 .. FrameIds - 1]
  BY VisitType DEF TypeOK
<1>4. PICK n \in Slots : WritePointer(buf) = FrameAddress(n)
  BY <1>3, PointsToFrame
<1>5. PointerReply(buf) \in Seq(Unit)
  BY <1>3, PointerReplyType
<1>6. net' = PointerReply(buf)
  BY <1>1, <1>2, <1>5, ConcatEmptySeq
<1>7. PointerComes'
  BY <1>4, <1>6 DEF PointerComes, PointerReply
<1>8. QueuedIntact' /\ \A c \in Bufs : frame'[c] = <<>>
  BY <1>1 DEF Clean, QueuedIntact, Intact
<1> QED
  BY <1>1, <1>7, <1>8 DEF Clean, Awaiting, Reading

LEMMA ReadPointerClean ==
  ASSUME TypeOK, Clean, ReadPointer, faults' = 0, 2 <= ReadSomeMax
  PROVE  Clean'
<1>1. pc = "await pointer" /\ ~Reading /\ UNCHANGED <<written, visit, frame, downlink>>
  BY DEF ReadPointer, Reading
<1>2. PICK n \in Slots :
        net = <<[kind |-> "pointer", value |-> FrameAddress(n)], [kind |-> "other"]>>
  BY <1>1 DEF Clean, PointerComes
<1> DEFINE u == [kind |-> "pointer", value |-> FrameAddress(n)]
           v == [kind |-> "other"]
<1>3. net = <<u, v>> /\ net \in Seq(Unit) /\ u.kind = "pointer" /\ u.value = FrameAddress(n)
  BY <1>2 DEF TypeOK
<1> HIDE DEF u, v
<1>4. Len(net) = 2 /\ net[1] = u
  BY <1>3
<1>5. Arrived = 2
  BY <1>4, Sizes DEF Arrived, Least
<1>6. PICK k \in 1 .. Arrived :
        /\ net' = Drop(net, k) /\ Cost(IF k = Arrived THEN 0 ELSE 1)
        /\ \E p \in PointersIn(SubSeq(net, 1, k)) :
             \/ p = NoPointer
             \/ /\ Designated(buf, p) = last[buf]
                /\ Return
             \/ pointer' = Designated(buf, p) /\ packets' = 0 /\ pc' = "read frame"
  BY DEF ReadPointer
<1>7. k = 2
  BY <1>5, <1>6, NoFault
<1>8. net' = <<>>
  BY <1>3, <1>4, <1>6, <1>7, DropAll
<1>9. SubSeq(net, 1, 2) = net
  BY <1>3, <1>4, SubSeqFull
<1>10. PointersIn(net) = {FrameAddress(n)}
  BY <1>3, <1>4 DEF PointersIn
<1>11. FrameAddress(n) # NoPointer
  BY SlotBounds DEF NoPointer
<1>12. buf' = buf
  BY <1>1 DEF buf
<1>13. CASE Return
  BY <1>1, <1>8, <1>13, QuietStep DEF Return, Awaiting, Reading
<1>14. CASE pointer' = Designated(buf, FrameAddress(n)) /\ packets' = 0 /\ pc' = "read frame"
  <2>1. PICK m \in Slots : pointer' = FrameAddress(m)
    BY <1>14, DesignatesFrame
  <2>2. buf \in Bufs /\ frame[buf] = <<>> /\ frame'[buf'] = <<>>
    BY <1>1, <1>12, VisitType DEF TypeOK, Clean
  <2>3. Len(frame'[buf']) = Least(packets' * ReadSize, FrameSize)
    <3>1. 0 * ReadSize = 0 /\ Least(0, FrameSize) = 0
      BY Sizes DEF Least
    <3>2. Len(frame'[buf']) = 0
      BY <2>2, EmptyLen
    <3> QED
      BY <1>14, <3>1, <3>2
  <2>4. Reads(m)'
    <3>1. FrameOf(frame'[buf'], buf', InSlot(m, written'[buf']))
      BY <2>2, EmptyLen DEF FrameOf
    <3>2. pc' # "await packet"
      BY <1>14
    <3> QED
      BY <2>1, <2>3, <3>1, <3>2 DEF Reads
  <2>5. QueuedIntact' /\ \A c \in Bufs : frame'[c] = <<>>
    BY <1>1 DEF Clean, QueuedIntact, Intact
  <2> QED
    BY <1>8, <1>14, <2>4, <2>5 DEF Clean, Awaiting, Reading
<1> QED
  BY <1>6, <1>7, <1>9, <1>10, <1>11, <1>13, <1>14

LEMMA AskPacketClean ==
  ASSUME TypeOK, Clean, AskPacket, faults' = 0, AddressStep = ReadSize
  PROVE  Clean'
<1>1. /\ pc = "read frame" /\ pc' = "await packet" /\ net = <<>>
      /\ UNCHANGED <<written, visit, pointer, packets, frame, downlink>>
      /\ ~FrameDone(frame[buf]) /\ Reading /\ Reading'
  BY DEF AskPacket, manager, Clean, Awaiting, Reading
<1>2. PICK n \in Slots : Reads(n)
  BY <1>1 DEF Clean
<1>3. buf \in Bufs /\ packets \in Nat /\ buf' = buf
  BY <1>1, VisitType DEF TypeOK, buf
<1> DEFINE l == packets * ReadSize
<1>4. /\ ReadSize \in Nat \ {0} /\ FrameSize \in Nat \ {0}
      /\ l \in Nat /\ packets * AddressStep = l
  BY <1>3, Sizes
<1>5. /\ pointer = FrameAddress(n) /\ Len(frame[buf]) = Least(l, FrameSize)
      /\ FrameOf(frame[buf], buf, InSlot(n, written[buf]))
  BY <1>2 DEF Reads
<1>6. PacketAddress = FrameAddress(n) + l
  BY <1>4, <1>5 DEF PacketAddress
<1> HIDE DEF l
<1>7. Len(frame[buf]) = l /\ l < FrameSize /\ l \in 0 .. FrameSize - 1
  <2>1. l \in Nat /\ FrameSize \in Nat \ {0}
    BY <1>4
  <2>2. Len(frame[buf]) = Least(l, FrameSize) /\ Len(frame[buf]) # FrameSize
    BY <1>1, <1>5 DEF FrameDone
  <2> QED
    BY <2>1, <2>2 DEF Least
<1>8. ~Wild(PacketAddress)
  BY <1>6, <1>7, InMemory
<1>9. net' = net \o PacketReply(buf, PacketAddress)
  <2>1. ~Cost(1)
    BY NoFault
  <2> QED
    BY <1>8, <2>1 DEF AskPacket
<1> DEFINE d == [i \in 1 .. ReadSize |-> Memory(buf, (PacketAddress + i - 1) % AddressMod)]
           h == <<[kind |-> "head"]>>
<1>10. d \in Seq(Unit) /\ Len(d) = ReadSize /\ h \in Seq(Unit) /\ Len(h) = 1
  <2>1. PacketAddress \in Nat
    BY <1>4, <1>6, SlotBounds
  <2>2. \A i \in 1 .. ReadSize : PacketAddress + i - 1 \in Int
    BY <1>4, <2>1
  <2>3. \A i \in 1 .. ReadSize : (PacketAddress + i - 1) % AddressMod \in Addresses
    BY <2>2, ModRange, Sizes DEF Addresses
  <2>4. \A i \in 1 .. ReadSize : Memory(buf, (PacketAddress + i - 1) % AddressMod) \in Unit
    <3>1. written \in [Bufs -> 0 .. FrameIds - 1]
      BY DEF TypeOK
    <3>2. Addresses \subseteq Int
      BY Sizes DEF Addresses
    <3>3. buf \in Bufs
      BY <1>3
    <3>4. ASSUME NEW i \in 1 .. ReadSize
          PROVE  Memory(buf, (PacketAddress + i - 1) % AddressMod) \in Unit
      <4> DEFINE a == (PacketAddress + i - 1) % AddressMod
      <4>1. a \in Int
        BY <2>3, <3>2
      <4> HIDE DEF a
      <4>2. Memory(buf, a) \in Unit
        BY <3>1, <3>3, <4>1, MemoryType
      <4> QED
        BY <4>2 DEF a
    <3> QED
      BY <3>4
  <2>5. [kind |-> "head"] \in Unit
    BY OtherUnit
  <2> QED
    BY <1>4, <2>4, <2>5
<1>11. net' = h \o d
  <2>1. PacketReply(buf, PacketAddress) = h \o d
    BY DEF PacketReply
  <2> HIDE DEF h, d
  <2>2. h \o d \in Seq(Unit)
    BY <1>10, ConcatProperties
  <2> QED
    BY <1>1, <1>9, <2>1, <2>2, ConcatEmptySeq
<1>12. ASSUME NEW i \in 1 .. ReadSize, l + i <= FrameSize
       PROVE  d[i] = Datum(buf, InSlot(n, written[buf]), l + i - 1)
  <2> DEFINE o == l + i - 1
  <2>1. o \in 0 .. FrameSize - 1
    BY <1>4, <1>12
  <2>2. PacketAddress + i - 1 = FrameAddress(n) + o
    <3>1. FrameAddress(n) \in Nat
      BY SlotBounds
    <3> QED
      BY <1>4, <1>6, <3>1
  <2>3. d[i] = Memory(buf, (PacketAddress + i - 1) % AddressMod)
    OBVIOUS
  <2> HIDE DEF o, d
  <2>4. d[i] = Memory(buf, (FrameAddress(n) + o) % AddressMod)
    BY <2>2, <2>3
  <2>5. d[i] = Datum(buf, InSlot(n, written[buf]), o)
    BY <2>1, <2>4, InMemory
  <2> QED
    BY <2>5 DEF o
<1> HIDE DEF d, h
<1>13. Len(net') = ReadSize + 1 /\ \A i \in 1 .. ReadSize : net'[i + 1] = d[i]
  <2>1. /\ Len(h \o d) = 1 + ReadSize
        /\ \A i \in 1 .. 1 + ReadSize : (h \o d)[i] = IF i <= 1 THEN h[i] ELSE d[i - 1]
    <3>1. /\ Len(h \o d) = Len(h) + Len(d)
          /\ \A i \in 1 .. Len(h) + Len(d) :
               (h \o d)[i] = IF i <= Len(h) THEN h[i] ELSE d[i - Len(h)]
      BY <1>10, ConcatProperties
    <3> QED
      BY <1>10, <3>1
  <2>2. ASSUME NEW i \in 1 .. ReadSize PROVE net'[i + 1] = d[i]
    <3>1. i + 1 \in 1 .. 1 + ReadSize /\ ~(i + 1 <= 1) /\ (i + 1) - 1 = i
      BY <1>4
    <3> QED
      BY <1>11, <2>1, <3>1
  <2> QED
    BY <1>4, <1>11, <2>1, <2>2
<1>14. Reads(n)'
  <2>1. InSlot(n, written'[buf']) = InSlot(n, written[buf])
    BY <1>1, <1>3
  <2>2. \A i \in 1 .. ReadSize :
          packets' * ReadSize + i <= FrameSize =>
            net'[i + 1] = Datum(buf', InSlot(n, written'[buf']), packets' * ReadSize + i - 1)
    BY <1>1, <1>3, <1>12, <1>13 DEF l
  <2>3. PacketComes(InSlot(n, written[buf]))'
    BY <1>13, <2>2 DEF PacketComes
  <2> QED
    BY <1>1, <1>3, <1>5, <1>7, <2>3 DEF Reads, l
<1>15. QueuedIntact' /\ \A c \in Bufs : frame'[c] # <<>> => c = buf'
  BY <1>1, <1>3 DEF Clean, QueuedIntact, Intact
<1> QED
  BY <1>1, <1>14, <1>15 DEF Clean, Awaiting, Reading

LEMMA ReadPacketClean ==
  ASSUME TypeOK, Clean, ReadPacket
  PROVE  Clean'
<1>1. /\ pc = "await packet" /\ pc' = "read frame"
      /\ UNCHANGED <<written, visit, pointer, downlink>> /\ packets' = packets + 1
      /\ net' = Drop(net, ReadSize + 1) /\ Reading /\ Reading'
      /\ frame' = [frame EXCEPT ![buf] = PushToFrame(frame[buf], SubSeq(net, 2, ReadSize + 1))]
  BY DEF ReadPacket, Reading
<1>2. PICK n \in Slots : Reads(n)
  BY <1>1 DEF Clean
<1>3. /\ buf \in Bufs /\ packets \in Nat /\ buf' = buf /\ net \in Seq(Unit)
      /\ frame \in [Bufs -> Seq(Unit)] /\ frame[buf] \in Seq(Unit)
  BY <1>1, VisitType DEF TypeOK, buf
<1> DEFINE f == InSlot(n, written[buf])
           s == frame[buf]
           d == SubSeq(net, 2, ReadSize + 1)
<1>4. /\ pointer = FrameAddress(n) /\ Len(s) = Least(packets * ReadSize, FrameSize)
      /\ FrameOf(s, buf, f) /\ Len(s) < FrameSize /\ Len(net) = ReadSize + 1
      /\ \A i \in 1 .. ReadSize :
           packets * ReadSize + i <= FrameSize =>
             net[i + 1] = Datum(buf, f, packets * ReadSize + i - 1)
  BY <1>1, <1>2 DEF Reads, PacketComes
<1>5. /\ d \in Seq(Unit) /\ Len(d) = ReadSize /\ \A i \in 1 .. ReadSize : d[i] = net[i + 1]
  <2>1. /\ d \in Seq(Unit) /\ Len(d) = ReadSize + 1 - 2 + 1
        /\ \A i \in 1 .. ReadSize + 1 - 2 + 1 : d[i] = net[2 + i - 1]
    BY <1>3, <1>4, Sizes, Part
  <2>2. ReadSize + 1 - 2 + 1 = ReadSize /\ \A i \in 1 .. ReadSize : 2 + i - 1 = i + 1
    BY Sizes
  <2> QED
    BY <2>1, <2>2
<1>6. net' = <<>>
  BY <1>1, <1>3, <1>4, DropAll
<1>7. frame' = [frame EXCEPT ![buf] = PushToFrame(s, d)] /\ s \in Seq(Unit)
  BY <1>1, <1>3
<1> HIDE DEF f, s, d
<1>8. /\ FrameOf(PushToFrame(s, d), buf, f)
      /\ Len(PushToFrame(s, d)) = Least((packets + 1) * ReadSize, FrameSize)
  <2>1. \A i \in 1 .. ReadSize :
          packets * ReadSize + i <= FrameSize => d[i] = Datum(buf, f, packets * ReadSize + i - 1)
    BY <1>4, <1>5
  <2> QED
    BY <1>3, <1>4, <1>5, <1>7, <2>1, Pushed
<1>9. frame'[buf'] = PushToFrame(s, d) /\ \A c \in Bufs : c # buf => frame'[c] = frame[c]
  BY <1>3, <1>7
<1>10. Reads(n)'
  <2>1. InSlot(n, written'[buf']) = f
    BY <1>1, <1>3 DEF f
  <2>2. /\ pointer' = FrameAddress(n) /\ Len(frame'[buf']) = Least(packets' * ReadSize, FrameSize)
        /\ FrameOf(frame'[buf'], buf', InSlot(n, written'[buf']))
    BY <1>1, <1>3, <1>4, <1>8, <1>9, <2>1
  <2> QED
    BY <1>1, <2>2 DEF Reads
<1>11. QueuedIntact' /\ \A c \in Bufs : frame'[c] # <<>> => c = buf'
  BY <1>1, <1>3, <1>9 DEF Clean, QueuedIntact, Intact
<1> QED
  BY <1>1, <1>6, <1>10, <1>11 DEF Clean, Awaiting, Reading

LEMMA QueueFrameClean ==
  ASSUME TypeOK, QueuedBehindRead, Clean, QueueFrame
  PROVE  Clean'
<1>1. /\ pc = "read frame" /\ Reading /\ net' = net /\ net = <<>> /\ UNCHANGED visit
      /\ frame' = [frame EXCEPT ![buf] = <<>>] /\ pc' = "housekeeping"
  BY DEF QueueFrame, Reading, Clean, Awaiting, Return, remote
<1>2. /\ buf \in Bufs /\ count[buf] \in 0 .. CountMod - 1 /\ frame[buf] \in Seq(Unit)
      /\ FrameDone(frame[buf]) /\ downlink' = Packetize(buf, count[buf], frame[buf])
      /\ frame \in [Bufs -> Seq(Unit)] /\ written[buf] \in Int
  <2>1. /\ buf \in Bufs /\ count[buf] \in 0 .. CountMod - 1 /\ frame[buf] \in Seq(Unit)
        /\ FrameDone(frame[buf]) /\ downlink' = Packetize(buf, count[buf], frame[buf])
    BY QueueFrameEffect
  <2>2. frame \in [Bufs -> Seq(Unit)] /\ written \in [Bufs -> 0 .. FrameIds - 1]
    BY DEF TypeOK
  <2> QED
    BY <2>1, <2>2, Sizes
<1>3. PICK n \in Slots : Reads(n)
  BY <1>1 DEF Clean
<1>4. PICK f \in 0 .. FrameIds - 1 : f = InSlot(n, written[buf])
  <2> DEFINE x == written[buf] - 1 - n
  <2>1. x \in Int /\ FramesPerRing \in Nat \ {0} /\ FrameIds \in Nat \ {0}
    BY <1>2, Sizes DEF Slots
  <2>2. written[buf] - 1 \in Int
    BY <1>2
  <2> HIDE DEF x
  <2>3. x % FramesPerRing \in Int
    BY <2>1, ModRange
  <2>4. written[buf] - 1 - (x % FramesPerRing) \in Int
    BY <2>2, <2>3
  <2>5. (written[buf] - 1 - (x % FramesPerRing)) % FrameIds \in 0 .. FrameIds - 1
    BY <2>1, <2>4, ModRange
  <2> QED
    BY <2>5 DEF InSlot, x
<1>5. FrameOf(frame[buf], buf, f)
  BY <1>3, <1>4 DEF Reads
<1>6. Intact(f)'
  <2> DEFINE c == buf
             m == count[buf]
             s == frame[buf]
             P == Packetize(c, m, s)
  <2>1. c \in Bufs /\ m \in 0 .. CountMod - 1 /\ s \in Seq(Unit) /\ FrameDone(s)
        /\ FrameOf(s, c, f)
    BY <1>2, <1>5
  <2>2. downlink' = P
    BY <1>2
  <2> HIDE DEF c, m, s
  <2>3. \A i \in 1 .. Len(P) : \A j \in 1 .. Len(P[i].data) :
          P[i].data[j] = Datum(P[i].buf, f, (i - 1) * DownlinkSize + j - 1)
    BY <2>1, PacketizeIntact, ZenonT(30)
  <2> HIDE DEF P
  <2>4. \A i \in 1 .. Len(downlink') : \A j \in 1 .. Len(downlink'[i].data) :
          downlink'[i].data[j] = Datum(downlink'[i].buf, f, (i - 1) * DownlinkSize + j - 1)
    BY <2>2, <2>3
  <2> QED
    BY <2>4 DEF Intact, Datum
<1>7. QueuedIntact'
  BY <1>6 DEF QueuedIntact
<1>8. \A c \in Bufs : frame'[c] = <<>>
  BY <1>1, <1>2 DEF Clean
<1> QED
  BY <1>1, <1>7, <1>8 DEF Clean, Awaiting, Reading

\* A paced detector does not write over the frame that is being read.
LEMMA WriteClean ==
  ASSUME TypeOK, Clean, Paced, NEW b \in Bufs, DetectorWrites(b)
  PROVE  Clean'
<1>1. /\ UNCHANGED <<net, visit, pc, pointer, packets, frame, downlink>> /\ buf' = buf
      /\ written' = [written EXCEPT ![b] = (written[b] + 1) % FrameIds]
      /\ b = buf => SlotAddress(written[b]) # pointer
  BY DEF DetectorWrites, local, manager, buf
<1>2. written \in [Bufs -> 0 .. FrameIds - 1] /\ buf \in Bufs
  BY VisitType DEF TypeOK
<1>3. ASSUME Reading, NEW n \in Slots, Reads(n) PROVE Reads(n)'
  <2>1. InSlot(n, written'[buf]) = InSlot(n, written[buf])
    <3>1. CASE b # buf
      BY <1>1, <1>2, <3>1
    <3>2. CASE b = buf
      <4>1. written[b] % FramesPerRing # n
        BY <1>1, <1>3, <3>2 DEF Reads, SlotAddress, FrameAddress
      <4>2. InSlot(n, (written[b] + 1) % FrameIds) = InSlot(n, written[b])
        BY <1>2, <4>1, InSlotStays DEF Slots
      <4> QED
        BY <1>1, <1>2, <3>2, <4>2
    <3> QED
      BY <3>1, <3>2
  <2> QED
    BY <1>1, <1>3, <2>1 DEF Reads, PacketComes
<1>4. QueuedIntact' /\ Reading' = Reading /\ Awaiting' = Awaiting
  BY <1>1 DEF Clean, QueuedIntact, Intact, Reading, Awaiting
<1>5. PointerComes => PointerComes'
  BY <1>1 DEF PointerComes
<1> QED
  BY <1>1, <1>3, <1>4, <1>5 DEF Clean

LEMMA CleanStep ==
  ASSUME IInv, CleanWithoutFaults, [Next]_vars, AddressStep = ReadSize, 2 <= ReadSomeMax
  PROVE  CleanWithoutFaults'
<1> SUFFICES ASSUME Paced, faults' = 0 PROVE Clean'
  BY DEF CleanWithoutFaults
<1>1. TypeOK /\ QueuedBehindRead
  BY DEF IInv
<1>2. ASSUME faults = 0 PROVE Clean
  BY <1>2 DEF CleanWithoutFaults
<1>3. ASSUME NEW b \in Bufs, DetectorWrites(b) PROVE Clean'
  BY <1>1, <1>2, <1>3, WriteClean DEF DetectorWrites
<1>4. CASE Flush
  <2>1. PICK k \in 0 .. Arrived : net' = Drop(net, k) /\ Cost(IF k = Arrived THEN 0 ELSE 1)
    BY <1>4 DEF Flush
  <2>2. Clean
    BY <1>1, <1>2, <2>1, NoFault
  <2>3. net = <<>> /\ ~Reading /\ ~Reading' /\ ~Awaiting' /\ UNCHANGED <<frame, downlink>>
    BY <1>4, <2>2 DEF Flush, Clean, Awaiting, Reading, manager
  <2>4. Arrived = 0
    BY <2>3, EmptyLen, Sizes DEF Arrived, Least
  <2>5. net' = <<>>
    BY <2>1, <2>3, <2>4, EmptyDrop
  <2> QED
    BY <2>2, <2>3, <2>5, QuietStep
<1>5. CASE UplinkCommand \/ Housekeeping
  <2>1. UNCHANGED faults \/ Cost(0) \/ Cost(1)
    BY <1>5 DEF UplinkCommand, Housekeeping, Exchange
  <2>2. Clean
    BY <1>1, <1>2, <2>1, NoFault
  <2>3. net = <<>> /\ ~Reading /\ ~Reading' /\ ~Awaiting' /\ UNCHANGED <<frame, downlink>>
    BY <1>5, <2>2 DEF UplinkCommand, Housekeeping, Clean, Awaiting, Reading, manager
  <2>4. net' = <<>>
    BY <1>1, <1>5, <2>3, ExchangeClean DEF UplinkCommand, Housekeeping
  <2> QED
    BY <2>2, <2>3, <2>4, QuietStep
<1>6. CASE Drain
  <2>1. Clean
    BY <1>2, <1>6 DEF Drain, remote
  <2>2. /\ net' = <<>> /\ ~Reading /\ ~Reading' /\ ~Awaiting' /\ UNCHANGED frame
        /\ downlink' = <<>>
    BY <1>6, <2>1 DEF Drain, remote, Clean, Awaiting, Reading, manager
  <2> QED
    BY <2>1, <2>2, QuietStep
<1>7. CASE AskPointer \/ AskPacket
  <2>1. Cost(0) \/ Cost(1)
    BY <1>7 DEF AskPointer, AskPacket
  <2>2. Clean
    BY <1>1, <1>2, <2>1, NoFault
  <2> QED
    BY <1>1, <1>7, <2>2, AskPointerClean, AskPacketClean
<1>8. CASE PointerTimeout
  <2>1. Cost(IF net = <<>> THEN 0 ELSE 1) /\ pc = "await pointer"
    BY <1>8 DEF PointerTimeout
  <2>2. faults = 0 /\ net = <<>>
    BY <1>1, <2>1, NoFault
  <2>3. PointerComes
    BY <1>2, <2>1, <2>2 DEF Clean
  <2> QED
    BY <2>2, <2>3 DEF PointerComes
<1>9. CASE ReadPointer
  <2>1. Cost(0) \/ Cost(1)
    BY <1>9 DEF ReadPointer
  <2>2. Clean
    BY <1>1, <1>2, <2>1, NoFault
  <2> QED
    BY <1>1, <1>9, <2>2, ReadPointerClean
<1>10. CASE PacketTimeout
  <2>1. PICK k \in 0 .. Least(Len(net), ReadSize) : Cost(IF k = Len(net) THEN 0 ELSE 1)
    BY <1>10 DEF PacketTimeout
  <2>2. faults = 0 /\ k = Len(net)
    BY <1>1, <2>1, NoFault
  <2>3. pc = "await packet"
    BY <1>10 DEF PacketTimeout
  <2>4. Len(net) = ReadSize + 1
    BY <1>2, <2>2, <2>3 DEF Clean, Reading, Reads, PacketComes
  <2> QED
    BY <2>1, <2>2, <2>4, Sizes DEF Least
<1>11. CASE ReadPacket
  BY <1>1, <1>2, <1>11, ReadPacketClean DEF ReadPacket
<1>12. CASE QueueFrame
  BY <1>1, <1>2, <1>12, QueueFrameClean DEF QueueFrame, remote
<1>13. CASE Restart
  <2>1. Cost(1)
    BY <1>13 DEF Restart
  <2> QED
    BY <1>1, <2>1, NoFault
<1>14. CASE UNCHANGED vars
  <2>1. Clean /\ UNCHANGED <<net, written, visit, pc, pointer, packets, frame, downlink>> /\ buf' = buf
    BY <1>2, <1>14 DEF vars, remote, local, manager, buf
  <2>2. \A n \in Slots : Reads(n) => Reads(n)'
    BY <2>1 DEF Reads, PacketComes
  <2>3. QueuedIntact' /\ Reading' = Reading /\ Awaiting' = Awaiting /\ (PointerComes => PointerComes')
    BY <2>1 DEF Clean, QueuedIntact, Intact, Reading, Awaiting, PointerComes
  <2> QED
    BY <2>1, <2>2, <2>3 DEF Clean
<1> QED
  BY <1>3, <1>4, <1>5, <1>6, <1>7, <1>8, <1>9, <1>10, <1>11, <1>12, <1>13, <1>14
     DEF Next, Formatter

\* If packets are asked for at the distance of their size, that is if both
\* interfaces of the detector have the same max_payload_size, and read_some takes the reply to the read of a
\* pointer whole, then every frame that is queued before the first fault is the
\* frame a paced detector wrote, for every size of frames, packets and rings.
THEOREM IntactHolds ==
  ASSUME AddressStep = ReadSize, 2 <= ReadSomeMax
  PROVE  Spec => []IntactWithoutFaults
<1>1. IInv /\ CleanWithoutFaults /\ [Next]_vars => CleanWithoutFaults'
  BY CleanStep
<1>2. CleanWithoutFaults => IntactWithoutFaults
  BY DEF CleanWithoutFaults, Clean, IntactWithoutFaults
<1> QED
  BY <1>1, <1>2, CleanInit, Invariance, PTL DEF Spec
=============================================================================
