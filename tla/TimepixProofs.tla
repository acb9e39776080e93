---------------------------- MODULE TimepixProofs ----------------------------
(***************************************************************************)
(* Proofs about Timepix, for all sizes of replies and numbers of retries,  *)
(* commands, losses and late replies.                                      *)
(***************************************************************************)
EXTENDS Timepix, SequenceTheorems, TLAPS

-----------------------------------------------------------------------------
(* The inductive invariant.                                                *)

\* A system that is neither to be initialised nor abandoned has its port, and an
\* abandoned one is passed over.
OpenUnlessAbandoned ==
  /\ pc # "init" /\ system_state # "ABANDON" => is_open
  /\ system_state = "ABANDON" => pc = "others"

\* What the line carries was sent by the Timepix, and a reply has its size.
Sent(u) == u.of # "nothing"
Real(s) == \A i \in 1 .. Len(s) : Sent(s[i])

Genuine ==
  /\ Real(line)
  /\ \A r \in Requests : Real(got[r]) /\ (got[r] # <<>> => Len(got[r]) = Size[r])

\* As long as nothing was late, the line holds nothing but the reply to the
\* request under way, and what a request got is its reply.
LineMatches == line # <<>> => pc = "await" /\ line = Answer(request)
GotMatches  == \A r \in Requests : got[r] \in {<<>>, Answer(r)}

InTime == late = 0 => LineMatches /\ GotMatches /\ PacketsAreTrue

IInv == OpenUnlessAbandoned /\ Genuine /\ HealthIsWhole /\ InTime

\* The packets the two properties of the queue are about.
TruePackets  == {p \in Packet : PacketIsTrue(p)}
WholePackets ==
  {p \in Packet : p.type = "TPX" =>
     /\ Len(p.data) = HealthLength
     /\ \E j \in 1 .. 3 : Field(p.data, j) # Zeros(Fields[j])}

-----------------------------------------------------------------------------
(* Sequences.                                                              *)

LEMMA One ==
  ASSUME NEW S, NEW x \in S
  PROVE  <<x>> \in Seq(S) /\ Len(<<x>>) = 1 /\ <<x>>[1] = x
OBVIOUS

\* Dropping the first k elements.
LEMMA DropProperties ==
  ASSUME NEW S, NEW s \in Seq(S), NEW k \in 0 .. Len(s)
  PROVE  /\ Drop(s, k) \in Seq(S)
         /\ Len(Drop(s, k)) = Len(s) - k
         /\ \A i \in 1 .. Len(s) - k : Drop(s, k)[i] = s[k + i]
         /\ k = Len(s) => Drop(s, k) = <<>>
<1>1. Len(s) \in Nat /\ k \in Nat /\ k <= Len(s)
  BY LenProperties
<1>2. \A i \in k + 1 .. Len(s) : s[i] \in S
  BY <1>1, ElementOfSeq
<1>3. /\ SubSeq(s, k + 1, Len(s)) \in Seq(S)
      /\ Len(SubSeq(s, k + 1, Len(s))) =
           IF k + 1 <= Len(s) THEN Len(s) - (k + 1) + 1 ELSE 0
      /\ \A i \in 1 .. Len(s) - (k + 1) + 1 : SubSeq(s, k + 1, Len(s))[i] = s[k + 1 + i - 1]
  BY <1>1, <1>2, SubSeqProperties
<1>4. k = Len(s) => SubSeq(s, k + 1, Len(s)) = <<>>
  BY <1>1, SubSeqEmpty
<1>5. Drop(s, k) = SubSeq(s, k + 1, Len(s))
  BY DEF Drop
<1> DEFINE d == SubSeq(s, k + 1, Len(s))
<1>6. /\ d \in Seq(S)
      /\ Len(d) = IF k + 1 <= Len(s) THEN Len(s) - (k + 1) + 1 ELSE 0
      /\ \A i \in 1 .. Len(s) - (k + 1) + 1 : d[i] = s[k + 1 + i - 1]
  BY <1>3
<1>7. Drop(s, k) = d
  BY <1>5
<1> HIDE DEF d
<1>8. d \in Seq(S) /\ Len(d) = Len(s) - k
  BY ONLY <1>1, <1>6
<1>9. ASSUME NEW i \in 1 .. Len(s) - k PROVE d[i] = s[k + i]
  <2>1. i \in 1 .. Len(s) - (k + 1) + 1 /\ k + 1 + i - 1 = k + i
    BY ONLY <1>1, i \in 1 .. Len(s) - k
  <2> QED
    BY <1>6, <2>1
<1> QED
  BY <1>4, <1>5, <1>7, <1>8, <1>9, Zenon

\* The first n elements.
LEMMA FirstProperties ==
  ASSUME NEW S, NEW s \in Seq(S), NEW n \in Nat \ {0}, n <= Len(s)
  PROVE  /\ SubSeq(s, 1, n) \in Seq(S)
         /\ Len(SubSeq(s, 1, n)) = n
         /\ \A i \in 1 .. n : SubSeq(s, 1, n)[i] = s[i]
         /\ SubSeq(s, 1, n) # <<>>
<1>1. Len(s) \in Nat
  BY LenProperties
<1>2. \A i \in 1 .. n : s[i] \in S
  BY <1>1, ElementOfSeq
<1> DEFINE d == SubSeq(s, 1, n)
<1>3. /\ d \in Seq(S)
      /\ Len(d) = IF 1 <= n THEN n - 1 + 1 ELSE 0
      /\ \A i \in 1 .. n - 1 + 1 : d[i] = s[1 + i - 1]
  BY <1>2, SubSeqProperties
<1> HIDE DEF d
<1>4. Len(d) = n
  BY ONLY <1>3, n \in Nat \ {0}
<1>5. ASSUME NEW i \in 1 .. n PROVE d[i] = s[i]
  <2>1. i \in 1 .. n - 1 + 1 /\ 1 + i - 1 = i
    BY ONLY n \in Nat, i \in 1 .. n
  <2> QED
    BY <1>3, <2>1
<1>6. d # <<>>
  BY <1>4, EmptySeq
<1> QED
  BY <1>3, <1>4, <1>5, <1>6, Zenon DEF d

\* Concatenating what was sent by the Timepix.
LEMMA RealConcat ==
  ASSUME NEW a \in Seq(Unit), NEW b \in Seq(Unit), Real(a), Real(b)
  PROVE  Real(a \o b)
<1>1. Len(a) \in Nat /\ Len(b) \in Nat
  BY LenProperties
<1> DEFINE c == a \o b
<1>2. /\ Len(c) = Len(a) + Len(b)
      /\ \A i \in 1 .. Len(a) + Len(b) : c[i] = IF i <= Len(a) THEN a[i] ELSE b[i - Len(a)]
  BY ConcatProperties
<1> HIDE DEF c
<1>3. ASSUME NEW i \in 1 .. Len(c) PROVE Sent(c[i])
  <2>1. CASE i <= Len(a)
    <3>1. i \in 1 .. Len(a) /\ c[i] = a[i]
      BY <1>1, <1>2, <2>1
    <3> QED
      BY <3>1 DEF Real
  <2>2. CASE ~ (i <= Len(a))
    <3>1. i - Len(a) \in 1 .. Len(b) /\ c[i] = b[i - Len(a)]
      BY <1>1, <1>2, <2>2
    <3> QED
      BY <3>1 DEF Real
  <2> QED
    BY <2>1, <2>2
<1> QED
  BY <1>3 DEF Real, c

\* Parts of a concatenation.
LEMMA Parts ==
  ASSUME NEW S, NEW a \in Seq(S), NEW b \in Seq(S), Len(a) > 0, Len(b) > 0
  PROVE  /\ SubSeq(a \o b, 1, Len(a)) = a
         /\ SubSeq(a \o b, Len(a) + 1, Len(a) + Len(b)) = b
<1>1. Len(a) \in Nat /\ Len(b) \in Nat
  BY LenProperties
<1>2. 1 \in 1 .. Len(a) /\ Len(a) \in 1 .. Len(a)
  BY <1>1
<1>3. SubSeq(a \o b, 1, Len(a)) = SubSeq(a, 1, Len(a))
  BY <1>2, SubSeqOfConcat1
<1>4. /\ Len(a) + 1 \in Len(a) + 1 .. Len(a) + Len(b)
      /\ Len(a) + Len(b) \in Len(a) + 1 .. Len(a) + Len(b)
      /\ (Len(a) + 1) - Len(a) = 1 /\ (Len(a) + Len(b)) - Len(a) = Len(b)
  BY <1>1
<1>5. SubSeq(a \o b, Len(a) + 1, Len(a) + Len(b))
        = SubSeq(b, (Len(a) + 1) - Len(a), (Len(a) + Len(b)) - Len(a))
  BY <1>4, SubSeqOfConcat2
<1>6. SubSeq(a \o b, Len(a) + 1, Len(a) + Len(b)) = SubSeq(b, 1, Len(b))
  BY ONLY <1>4, <1>5, Zenon
<1> QED
  BY <1>3, <1>6, SubSeqFull

\* s is made of a, b and c, whose lengths are m, n and k.
Made(s, S, a, m, b, n, c, k) ==
  /\ s \in Seq(S) /\ Len(s) = m + n + k
  /\ SubSeq(s, 1, m) = a
  /\ SubSeq(s, m + 1, m + n) = b
  /\ SubSeq(s, m + n + 1, m + n + k) = c

LEMMA ThreeParts ==
  ASSUME NEW S, NEW a \in Seq(S), NEW b \in Seq(S), NEW c \in Seq(S),
         NEW m \in Nat \ {0}, NEW n \in Nat \ {0}, NEW k \in Nat \ {0},
         Len(a) = m, Len(b) = n, Len(c) = k
  PROVE  Made((a \o b) \o c, S, a, m, b, n, c, k)
<1>0. m > 0 /\ n > 0 /\ k > 0 /\ m + n > 0
  BY ONLY m \in Nat \ {0}, n \in Nat \ {0}, k \in Nat \ {0}
<1>0a. Len(a) > 0 /\ Len(b) > 0
  BY ONLY <1>0, Len(a) = m, Len(b) = n, Zenon
<1>1. a \o b \in Seq(S) /\ Len(a \o b) = Len(a) + Len(b)
  BY ConcatProperties
<1>2. Len(a \o b) = m + n
  BY ONLY <1>1, Len(a) = m, Len(b) = n, Zenon
<1>3. SubSeq(a \o b, 1, Len(a)) = a /\ SubSeq(a \o b, Len(a) + 1, Len(a) + Len(b)) = b
  BY <1>0a, Parts, Zenon
<1>4. SubSeq(a \o b, 1, m) = a /\ SubSeq(a \o b, m + 1, m + n) = b
  BY ONLY <1>3, Len(a) = m, Len(b) = n, Zenon
<1> DEFINE ab == a \o b
<1>5. /\ ab \in Seq(S) /\ Len(ab) = m + n
      /\ SubSeq(ab, 1, m) = a /\ SubSeq(ab, m + 1, m + n) = b
  BY <1>1, <1>2, <1>4, Zenon
<1> HIDE DEF ab
<1>6. ab \o c \in Seq(S) /\ Len(ab \o c) = Len(ab) + Len(c)
  BY <1>5, ConcatProperties, Zenon
<1>7. Len(ab) > 0 /\ Len(c) > 0
  BY ONLY <1>0, <1>5, Len(c) = k, Zenon
<1>8. SubSeq(ab \o c, Len(ab) + 1, Len(ab) + Len(c)) = c
  BY <1>5, <1>7, Parts, Zenon
<1>8a. Len(ab) = m + n /\ Len(c) = k
  BY <1>5
<1>9. /\ 1 \in 1 .. Len(ab) /\ m \in 1 .. Len(ab)
      /\ m + 1 \in 1 .. Len(ab) /\ m + n \in 1 .. Len(ab)
  BY ONLY <1>8a, m \in Nat \ {0}, n \in Nat \ {0}
<1>9a. ab \in Seq(S)
  BY <1>5
<1>10. /\ SubSeq(ab \o c, 1, m) = SubSeq(ab, 1, m)
       /\ SubSeq(ab \o c, m + 1, m + n) = SubSeq(ab, m + 1, m + n)
  BY ONLY <1>9a, c \in Seq(S), <1>9, SubSeqOfConcat1
<1>11. /\ ab \o c \in Seq(S) /\ Len(ab \o c) = m + n + k
       /\ SubSeq(ab \o c, 1, m) = a
       /\ SubSeq(ab \o c, m + 1, m + n) = b
       /\ SubSeq(ab \o c, m + n + 1, m + n + k) = c
  BY <1>5, <1>6, <1>8, <1>8a, <1>10, Zenon
<1> QED
  BY <1>11, Zenon DEF ab, Made

-----------------------------------------------------------------------------
(* Replies and packets.                                                    *)

LEMMA SizeType ==
  ASSUME NEW r \in Requests
  PROVE  Size[r] \in Nat \ {0}
BY SizeAssumption

LEMMA AnswerType ==
  ASSUME NEW r \in Requests
  PROVE  /\ Answer(r) \in Seq(Unit) /\ Len(Answer(r)) = Size[r] /\ Answer(r) # <<>>
         /\ Real(Answer(r))
<1>1. Size[r] \in Nat \ {0} /\ r # "nothing"
  BY SizeType DEF Requests
<1>2. Answer(r) \in [1 .. Size[r] -> Unit]
  BY <1>1 DEF Answer, Unit
<1>3. Answer(r) \in Seq(Unit) /\ Len(Answer(r)) = Size[r]
  BY <1>1, <1>2
<1>4. \A i \in 1 .. Size[r] : Sent(Answer(r)[i])
  BY <1>1 DEF Answer, Sent
<1> QED
  BY <1>1, <1>3, <1>4, EmptySeq DEF Real

LEMMA ZerosType ==
  ASSUME NEW r \in Requests
  PROVE  /\ Zeros(r) \in Seq(Unit) /\ Len(Zeros(r)) = Size[r]
         /\ ~ Sent(Zeros(r)[1])
<1>1. Size[r] \in Nat \ {0}
  BY SizeType
<1>2. Zeros(r) \in [1 .. Size[r] -> Unit]
  BY <1>1 DEF Zeros, Unit
<1>3. Zeros(r) \in Seq(Unit) /\ Len(Zeros(r)) = Size[r]
  BY <1>1, <1>2
<1>4. ~ Sent(Zeros(r)[1])
  BY <1>1 DEF Zeros, Sent
<1> QED
  BY <1>3, <1>4

LEMMA NoRepliesType ==
  /\ NoReplies \in [Requests -> Seq(Unit)]
  /\ \A r \in Requests : NoReplies[r] = <<>>
BY EmptySeq DEF NoReplies

LEMMA PackType ==
  ASSUME NEW t \in {"PING", "REPLY", "TPX", "PCAP"}, NEW d \in Seq(Unit)
  PROVE  /\ Pack(t, d) \in Seq(Packet) /\ PackIf(t, d) \in Seq(Packet)
         /\ Len(Pack(t, d)) = 1 /\ Pack(t, d)[1] = [type |-> t, data |-> d]
<1>1. [type |-> t, data |-> d] \in Packet
  BY DEF Packet
<1>2. Pack(t, d) \in Seq(Packet)
  BY <1>1, One DEF Pack
<1> QED
  BY <1>1, <1>2, One, EmptySeq DEF Pack, PackIf

\* A filled-in field has its length.
LEMMA FillType ==
  ASSUME NEW r \in Requests, got \in [Requests -> Seq(Unit)],
         got[r] # <<>> => Len(got[r]) = Size[r]
  PROVE  Fill(r) \in Seq(Unit) /\ Len(Fill(r)) = Size[r]
BY ZerosType DEF Fill

LEMMA HealthType ==
  ASSUME got \in [Requests -> Seq(Unit)]
  PROVE  Health \in Seq(Unit)
<1>1. \A r \in Requests : Fill(r) \in Seq(Unit)
  BY ZerosType DEF Fill
<1>2. {"flags", "hk", "rates"} \subseteq Requests
  BY DEF Requests
<1> QED
  BY <1>1, <1>2, ConcatProperties DEF Health

\* The fields of a health packet are the filled-in replies.
LEMMA HealthFields ==
  ASSUME got \in [Requests -> Seq(Unit)],
         \A r \in Requests : got[r] # <<>> => Len(got[r]) = Size[r]
  PROVE  /\ Health \in Seq(Unit) /\ Len(Health) = HealthLength
         /\ \A i \in 1 .. 3 : Field(Health, i) = Fill(Fields[i])
<1> DEFINE a == Fill("flags")
           b == Fill("hk")
           c == Fill("rates")
           h == (a \o b) \o c
<1>1. {"flags", "hk", "rates"} \subseteq Requests
  BY DEF Requests
<1>2. /\ a \in Seq(Unit) /\ Len(a) = Size["flags"]
      /\ b \in Seq(Unit) /\ Len(b) = Size["hk"]
      /\ c \in Seq(Unit) /\ Len(c) = Size["rates"]
  BY <1>1, FillType
<1>3. Size["flags"] \in Nat \ {0} /\ Size["hk"] \in Nat \ {0} /\ Size["rates"] \in Nat \ {0}
  BY <1>1, SizeType
<1>4. Health = h
  BY DEF Health
<1> HIDE DEF a, b, c
<1>7. /\ h \in Seq(Unit) /\ Len(h) = Size["flags"] + Size["hk"] + Size["rates"]
      /\ SubSeq(h, 1, Size["flags"]) = a
      /\ SubSeq(h, Size["flags"] + 1, Size["flags"] + Size["hk"]) = b
      /\ SubSeq(h, Size["flags"] + Size["hk"] + 1,
                Size["flags"] + Size["hk"] + Size["rates"]) = c
  <2> DEFINE m == Size["flags"]
             n == Size["hk"]
             k == Size["rates"]
  <2>1. /\ a \in Seq(Unit) /\ Len(a) = m /\ m \in Nat \ {0}
        /\ b \in Seq(Unit) /\ Len(b) = n /\ n \in Nat \ {0}
        /\ c \in Seq(Unit) /\ Len(c) = k /\ k \in Nat \ {0}
    BY ONLY <1>2, <1>3, Zenon
  <2> HIDE DEF m, n, k
  <2>2. Made((a \o b) \o c, Unit, a, m, b, n, c, k)
    BY ONLY <2>1, ThreeParts, Zenon
  <2> QED
    BY <2>2, Zenon DEF h, m, n, k, Made
<1> HIDE DEF h
<1>10. Field(Health, 1) = a
  <2>1. 0 + 1 = 1 /\ 0 + Size["flags"] = Size["flags"]
    BY <1>3
  <2>2. FieldStart(1) = 0 /\ Fields[1] = "flags"
    BY DEF FieldStart, Fields
  <2> QED
    BY <1>4, <1>7, <2>1, <2>2, Zenon DEF Field
<1>11. Field(Health, 2) = b
  <2>1. FieldStart(2) = Size["flags"] /\ Fields[2] = "hk"
    BY DEF FieldStart, Fields
  <2> QED
    BY <1>4, <1>7, <2>1, Zenon DEF Field
<1>12. Field(Health, 3) = c
  <2>1. FieldStart(3) = Size["flags"] + Size["hk"] /\ Fields[3] = "rates"
    BY DEF FieldStart, Fields
  <2> QED
    BY <1>4, <1>7, <2>1, Zenon DEF Field
<1>13. Len(Health) = HealthLength
  BY <1>4, <1>7, Zenon DEF HealthLength
<1>14. Fields[1] = "flags" /\ Fields[2] = "hk" /\ Fields[3] = "rates"
  BY DEF Fields
<1>15. /\ Field(Health, 1) = Fill(Fields[1])
       /\ Field(Health, 2) = Fill(Fields[2])
       /\ Field(Health, 3) = Fill(Fields[3])
  BY <1>10, <1>11, <1>12, <1>14, Zenon DEF a, b, c
<1>16. \A i \in 1 .. 3 : i = 1 \/ i = 2 \/ i = 3
  OBVIOUS
<1> QED
  BY <1>4, <1>7, <1>13, <1>15, <1>16, Zenon

-----------------------------------------------------------------------------
(* Types.                                                                  *)

LEMMA TypeInit == Init => TypeOK
BY SizeAssumption, NoRepliesType, EmptySeq DEF Init, TypeOK, Requests

LEMMA DropType ==
  ASSUME TypeOK, NEW k \in 0 .. Len(line)
  PROVE  Drop(line, k) \in Seq(Unit)
BY DropProperties DEF TypeOK

LEMMA QueueType ==
  ASSUME TypeOK
  PROVE  /\ Pack("PING", <<>>) \in Seq(Packet)
         /\ downlink \o PackIf("REPLY", got["command"]) \in Seq(Packet)
         /\ (downlink \o Pack("TPX", Health)) \o PackIf("PCAP", got["pcap"]) \in Seq(Packet)
<1>1. /\ got \in [Requests -> Seq(Unit)] /\ downlink \in Seq(Packet)
      /\ got["command"] \in Seq(Unit) /\ got["pcap"] \in Seq(Unit)
  BY DEF TypeOK, Requests
<1>2. Health \in Seq(Unit)
  BY <1>1, HealthType
<1>3. <<>> \in Seq(Unit)
  BY EmptySeq
<1>4. /\ Pack("PING", <<>>) \in Seq(Packet) /\ Pack("TPX", Health) \in Seq(Packet)
      /\ PackIf("REPLY", got["command"]) \in Seq(Packet)
      /\ PackIf("PCAP", got["pcap"]) \in Seq(Packet)
  BY <1>1, <1>2, <1>3, PackType
<1> QED
  BY <1>1, <1>4, ConcatProperties

LEMMA TypeStep ==
  ASSUME TypeOK, [Next]_vars
  PROVE  TypeOK'
<1>0. /\ RetryMax \in Nat \ {0} /\ MaxCommands \in Nat /\ MaxLost \in Nat /\ MaxLate \in Nat
      /\ Size[request] \in Nat \ {0} /\ request \in Requests /\ line \in Seq(Unit)
  BY SizeAssumption, SizeType DEF TypeOK
<1>1. CASE InitTimepix
  BY <1>1 DEF TypeOK, InitTimepix, port, bound
<1>2. CASE OtherVisits
  BY <1>2, QueueType DEF TypeOK, OtherVisits, port, bound
<1>3. CASE Command
  BY <1>0, <1>3 DEF TypeOK, Command, port, Requests
<1>4. CASE Ask
  <2>1. line' \in Seq(Unit)
    BY <1>0, <1>4, AnswerType, ConcatProperties DEF Ask
  <2>2. lost' \in 0 .. MaxLost
    BY <1>0, <1>4 DEF TypeOK, Ask, Lose
  <2> QED
    BY <1>4, <2>1, <2>2 DEF TypeOK, Ask
<1>5. CASE Receive
  <2>1. /\ Len(line) \in Nat /\ Size[request] \in 0 .. Len(line)
    BY <1>0, <1>5, LenProperties DEF Receive
  <2>2. line' \in Seq(Unit)
    BY <1>5, <2>1, DropType DEF Receive
  <2>3. SubSeq(line, 1, Size[request]) \in Seq(Unit)
    BY <1>0, <1>5, FirstProperties DEF Receive
  <2>4. got' \in [Requests -> Seq(Unit)]
    BY <1>5, <2>3 DEF TypeOK, Receive
  <2>5. attempts' \in 0 .. RetryMax - 1
    BY <1>0, <1>5 DEF Receive
  <2> QED
    BY <1>5, <2>2, <2>4, <2>5 DEF TypeOK, Receive, bound
<1>6. CASE Timeout
  <2>1. PICK k \in 0 .. Least(Len(line), Size[request] - 1) :
          /\ line' = Drop(line, k)
          /\ Delay(IF k = Len(line) THEN 0 ELSE 1)
    BY <1>6 DEF Timeout
  <2>2. k \in 0 .. Len(line)
    BY <1>0, LenProperties DEF Least
  <2>3. line' \in Seq(Unit)
    BY <2>1, <2>2, DropType
  <2>4. late' \in 0 .. MaxLate
    BY <1>0, <2>1 DEF TypeOK, Delay
  <2>5. attempts \in 0 .. RetryMax - 1 => attempts' \in 0 .. RetryMax - 1
    BY <1>0, <1>6 DEF Timeout, AttemptsLeft, AttemptsAfter
  <2> QED
    BY <1>6, <2>3, <2>4, <2>5 DEF TypeOK, Timeout
<1>7. CASE Pinged
  BY <1>7, NoRepliesType DEF TypeOK, Pinged, port, bound
<1>8. CASE QueueReply
  BY <1>8, QueueType DEF TypeOK, QueueReply, port, bound, Requests
<1>9. CASE NextRequest
  <2>1. request' \in Requests
    BY <1>9 DEF NextRequest, After, Requests
  <2> QED
    BY <1>9, <2>1 DEF TypeOK, NextRequest, port, bound
<1>10. CASE QueuePackets
  <2>1. got' \in [Requests -> Seq(Unit)] /\ downlink' \in Seq(Packet)
    BY <1>10, QueueType, NoRepliesType DEF TypeOK, QueuePackets
  <2> QED
    BY <1>10, <2>1 DEF TypeOK, QueuePackets, port, bound
<1>11. CASE Drain
  BY <1>11, NoRepliesType, EmptySeq DEF TypeOK, Drain, port, bound
<1>12. CASE Restart
  <2>1. PICK k \in 0 .. Len(line) : /\ line' = Drop(line, k)
                                   /\ Delay(IF k = Len(line) THEN 0 ELSE 1)
    BY <1>12 DEF Restart
  <2>2. line' \in Seq(Unit)
    BY <2>1, DropType
  <2>3. late' \in 0 .. MaxLate /\ lost' \in 0 .. MaxLost
    BY <1>0, <1>12, <2>1 DEF TypeOK, Delay, Restart, Lose
  <2>4. attempts' \in 0 .. RetryMax - 1 /\ request' \in Requests
    BY <1>0, <1>12 DEF Restart, Requests
  <2> QED
    BY <1>12, <2>2, <2>3, <2>4, NoRepliesType, EmptySeq DEF TypeOK, Restart
<1>13. CASE UNCHANGED vars
  BY <1>13 DEF TypeOK, vars, port, local, bound
<1> QED
  BY <1>1, <1>2, <1>3, <1>4, <1>5, <1>6, <1>7, <1>8, <1>9, <1>10, <1>11, <1>12, <1>13
     DEF Next, Formatter

\* Every variable keeps its type: in particular no retry is made after the last.
THEOREM TypeCorrect == Spec => []TypeOK
<1>1. Init => TypeOK
  BY TypeInit
<1>2. TypeOK /\ [Next]_vars => TypeOK'
  BY TypeStep
<1> QED
  BY <1>1, <1>2, PTL DEF Spec

-----------------------------------------------------------------------------
(* A port that is not open.                                                *)

LEMMA OpenStep ==
  ASSUME TypeOK, OpenUnlessAbandoned, [Next]_vars
  PROVE  OpenUnlessAbandoned'
<1> USE DEF OpenUnlessAbandoned
<1>0. system_state \in {"OFF", "LOOP", "ABANDON"}
  BY DEF TypeOK
<1>1. CASE InitTimepix
  BY <1>1 DEF InitTimepix, Abandoned, port
<1>2. CASE OtherVisits
  BY <1>2 DEF OtherVisits, port
<1>3. CASE Command
  BY <1>3 DEF Command, port
<1>4. CASE Ask
  BY <1>4 DEF Ask
<1>5. CASE Receive
  BY <1>5 DEF Receive
<1>6. CASE Timeout
  BY <1>6 DEF Timeout
<1>7. CASE Pinged
  BY <1>7 DEF Pinged, port
<1>8. CASE QueueReply
  BY <1>8 DEF QueueReply, port
<1>9. CASE NextRequest
  BY <1>9 DEF NextRequest, port
<1>10. CASE QueuePackets
  BY <1>10 DEF QueuePackets, port
<1>11. CASE Drain
  BY <1>11 DEF Drain, port
<1>12. CASE Restart
  BY <1>12 DEF Restart
<1>13. CASE UNCHANGED vars
  BY <1>13 DEF vars, port, local
<1> QED
  BY <1>1, <1>2, <1>3, <1>4, <1>5, <1>6, <1>7, <1>8, <1>9, <1>10, <1>11, <1>12, <1>13
     DEF Next, Formatter

-----------------------------------------------------------------------------
(* What the replies are.                                                   *)

LEMMA RealDrop ==
  ASSUME NEW s \in Seq(Unit), Real(s), NEW k \in 0 .. Len(s)
  PROVE  Real(Drop(s, k))
<1>1. Len(s) \in Nat
  BY LenProperties
<1>2. /\ Len(Drop(s, k)) = Len(s) - k
      /\ \A i \in 1 .. Len(s) - k : Drop(s, k)[i] = s[k + i]
  BY DropProperties
<1>3. \A i \in 1 .. Len(s) - k : k + i \in 1 .. Len(s)
  BY <1>1
<1> QED
  BY <1>2, <1>3 DEF Real

LEMMA RealFirst ==
  ASSUME NEW s \in Seq(Unit), Real(s), NEW n \in Nat \ {0}, n <= Len(s)
  PROVE  Real(SubSeq(s, 1, n))
<1>1. Len(s) \in Nat
  BY LenProperties
<1>2. Len(SubSeq(s, 1, n)) = n /\ \A i \in 1 .. n : SubSeq(s, 1, n)[i] = s[i]
  BY FirstProperties
<1>3. \A i \in 1 .. n : i \in 1 .. Len(s)
  BY <1>1
<1> QED
  BY <1>2, <1>3 DEF Real

LEMMA RealEmpty == Real(<<>>)
BY DEF Real

LEMMA GenuineNone ==
  ASSUME Real(line'), got' = NoReplies
  PROVE  Genuine'
BY NoRepliesType, RealEmpty DEF Genuine

LEMMA GenuineStep ==
  ASSUME TypeOK, Genuine, [Next]_vars
  PROVE  Genuine'
<1>0. /\ Size[request] \in Nat \ {0} /\ request \in Requests /\ line \in Seq(Unit)
      /\ Len(line) \in Nat /\ Real(line) /\ got \in [Requests -> Seq(Unit)]
  BY SizeType, LenProperties DEF TypeOK, Genuine
<1>1. ASSUME Real(line'), UNCHANGED got PROVE Genuine'
  BY <1>1 DEF Genuine
<1>2. CASE UNCHANGED <<line, got>>
  BY <1>0, <1>1, <1>2
<1>3. CASE InitTimepix
  BY <1>2, <1>3 DEF InitTimepix, port
<1>4. CASE OtherVisits
  BY <1>2, <1>4 DEF OtherVisits, port
<1>5. CASE Command
  BY <1>2, <1>5 DEF Command, port
<1>6. CASE Ask
  <2>1. Real(line \o Answer(request))
    BY <1>0, AnswerType, RealConcat
  <2>2. Real(line') /\ UNCHANGED got
    BY <1>0, <1>6, <2>1 DEF Ask
  <2> QED
    BY <1>1, <2>2
<1>7. CASE Receive
  <2>1. Size[request] \in 0 .. Len(line) /\ Size[request] <= Len(line)
    BY <1>0, <1>7 DEF Receive
  <2>2. Real(line')
    BY <1>0, <1>7, <2>1, RealDrop DEF Receive
  <2> DEFINE a == SubSeq(line, 1, Size[request])
  <2>3. Real(a) /\ Len(a) = Size[request]
    BY <1>0, <2>1, RealFirst, FirstProperties
  <2>4. got' = [got EXCEPT ![request] = a]
    BY <1>7 DEF Receive
  <2> HIDE DEF a
  <2>5. ASSUME NEW r \in Requests
        PROVE  Real(got'[r]) /\ (got'[r] # <<>> => Len(got'[r]) = Size[r])
    <3>1. CASE r = request
      BY <1>0, <2>3, <2>4, <3>1
    <3>2. CASE r # request
      BY <1>0, <2>4, <3>2 DEF Genuine
    <3> QED
      BY <3>1, <3>2
  <2> QED
    BY <2>2, <2>5 DEF Genuine
<1>8. CASE Timeout
  <2>1. PICK k \in 0 .. Least(Len(line), Size[request] - 1) : line' = Drop(line, k)
    BY <1>8 DEF Timeout
  <2>2. k \in 0 .. Len(line)
    BY <1>0 DEF Least
  <2>3. Real(line') /\ UNCHANGED got
    BY <1>0, <1>8, <2>1, <2>2, RealDrop DEF Timeout
  <2> QED
    BY <1>1, <2>3
<1>9. CASE Pinged
  BY <1>0, <1>9, GenuineNone DEF Pinged, port
<1>10. CASE QueueReply
  BY <1>2, <1>10 DEF QueueReply, port
<1>11. CASE NextRequest
  BY <1>2, <1>11 DEF NextRequest, port
<1>12. CASE QueuePackets
  <2>1. CASE NothingCame
    BY <1>0, <1>12, <2>1, GenuineNone DEF QueuePackets, port
  <2>2. CASE ~ NothingCame
    BY <1>2, <1>12, <2>2 DEF QueuePackets, port
  <2> QED
    BY <2>1, <2>2
<1>13. CASE Drain
  BY <1>0, <1>13, GenuineNone DEF Drain, port
<1>14. CASE Restart
  <2>1. PICK k \in 0 .. Len(line) : line' = Drop(line, k)
    BY <1>14 DEF Restart
  <2>2. Real(line')
    BY <1>0, <2>1, RealDrop
  <2> QED
    BY <1>14, <2>2, GenuineNone DEF Restart
<1>15. CASE UNCHANGED vars
  BY <1>2, <1>15 DEF vars, port, local
<1> QED
  BY <1>3, <1>4, <1>5, <1>6, <1>7, <1>8, <1>9, <1>10, <1>11, <1>12, <1>13, <1>14, <1>15
     DEF Next, Formatter

-----------------------------------------------------------------------------
(* The queue.                                                              *)

\* A sequence whose elements are in T.
LEMMA Narrow ==
  ASSUME NEW S, NEW T, NEW s \in Seq(S), \A i \in 1 .. Len(s) : s[i] \in T
  PROVE  s \in Seq(T)
<1>1. Len(s) \in Nat /\ s \in [1 .. Len(s) -> S]
  BY LenProperties
<1>2. s \in [1 .. Len(s) -> T]
  BY <1>1
<1> QED
  BY <1>1, <1>2, SeqDef

LEMMA Narrowed ==
  ASSUME NEW q \in Seq(Packet), NEW T
  PROVE  (\A i \in 1 .. Len(q) : q[i] \in T) <=> q \in Seq(T)
BY Narrow, ElementOfSeq

LEMMA QueueIsWhole ==
  /\ downlink \in Seq(Packet) => (HealthIsWhole <=> downlink \in Seq(WholePackets))
  /\ downlink' \in Seq(Packet) => (HealthIsWhole' <=> downlink' \in Seq(WholePackets))
<1>1. ASSUME NEW q \in Seq(Packet)
      PROVE  (\A i \in 1 .. Len(q) : q[i].type = "TPX" =>
                /\ Len(q[i].data) = HealthLength
                /\ \E j \in 1 .. 3 : Field(q[i].data, j) # Zeros(Fields[j]))
               <=> q \in Seq(WholePackets)
  <2>1. \A i \in 1 .. Len(q) : q[i] \in Packet
    BY ElementOfSeq
  <2> QED
    BY <2>1, Narrowed DEF WholePackets
<1> QED
  BY <1>1 DEF HealthIsWhole

LEMMA QueueIsTrue ==
  /\ downlink \in Seq(Packet) => (PacketsAreTrue <=> downlink \in Seq(TruePackets))
  /\ downlink' \in Seq(Packet) => (PacketsAreTrue' <=> downlink' \in Seq(TruePackets))
<1>1. ASSUME NEW q \in Seq(Packet)
      PROVE  (\A i \in 1 .. Len(q) : PacketIsTrue(q[i])) <=> q \in Seq(TruePackets)
  <2>1. \A i \in 1 .. Len(q) : q[i] \in Packet
    BY ElementOfSeq
  <2> QED
    BY <2>1, Narrowed DEF TruePackets
<1> QED
  BY <1>1 DEF PacketsAreTrue

\* The queue is grown from packets of a kind.
LEMMA Grows ==
  ASSUME NEW T, NEW q \in Seq(T), NEW d,
         NEW t \in {"PING", "REPLY", "TPX", "PCAP"}, d # <<>> => [type |-> t, data |-> d] \in T
  PROVE  /\ q \o PackIf(t, d) \in Seq(T)
         /\ [type |-> t, data |-> d] \in T => Pack(t, d) \in Seq(T) /\ q \o Pack(t, d) \in Seq(T)
<1> DEFINE p == [type |-> t, data |-> d]
<1>1. Pack(t, d) = <<p>> /\ PackIf(t, d) = IF d = <<>> THEN <<>> ELSE Pack(t, d)
  BY DEF Pack, PackIf
<1>2. d # <<>> => p \in T
  OBVIOUS
<1> HIDE DEF p
<1>3. p \in T => Pack(t, d) \in Seq(T)
  BY <1>1, One
<1>4. PackIf(t, d) \in Seq(T)
  BY <1>1, <1>2, <1>3, EmptySeq
<1> QED
  BY <1>3, <1>4, ConcatProperties DEF p

\* The packets of a visit.
LEMMA HealthPacket ==
  ASSUME TypeOK, Genuine
  PROVE  /\ [type |-> "TPX", data |-> Health] \in Packet
         /\ ~ NothingCame => [type |-> "TPX", data |-> Health] \in WholePackets
         /\ GotMatches => [type |-> "TPX", data |-> Health] \in TruePackets
<1>1. /\ got \in [Requests -> Seq(Unit)]
      /\ \A r \in Requests : Real(got[r]) /\ (got[r] # <<>> => Len(got[r]) = Size[r])
  BY DEF TypeOK, Genuine
<1>2. /\ Health \in Seq(Unit) /\ Len(Health) = HealthLength
      /\ \A i \in 1 .. 3 : Field(Health, i) = Fill(Fields[i])
  BY <1>1, HealthFields
<1>3. \A i \in 1 .. 3 : Fields[i] \in Requests
  BY DEF Fields, Requests
<1> DEFINE p == [type |-> "TPX", data |-> Health]
<1>4. p \in Packet /\ p.type = "TPX" /\ p.data = Health
  BY <1>2 DEF Packet
<1> HIDE DEF p
<1>5. ASSUME ~ NothingCame PROVE p \in WholePackets
  <2>1. PICK j \in 1 .. 3 : got[Fields[j]] # <<>>
    BY <1>5 DEF NothingCame
  <2> DEFINE r == Fields[j]
  <2>2. r \in Requests /\ got[r] # <<>> /\ Field(Health, j) = Fill(r)
    BY <1>2, <1>3, <2>1
  <2>3. Field(Health, j) # Zeros(Fields[j])
    <3>1. Fill(r) = got[r]
      BY <2>2 DEF Fill
    <3>2. Len(got[r]) = Size[r] /\ Size[r] \in Nat \ {0} /\ Real(got[r])
      BY <1>1, <2>2, SizeType
    <3>3. Sent(got[r][1])
      BY <3>2 DEF Real
    <3>4. ~ Sent(Zeros(r)[1])
      BY <2>2, ZerosType
    <3> QED
      BY <2>2, <3>1, <3>3, <3>4
  <2> QED
    BY <1>2, <1>4, <2>3 DEF WholePackets
<1>6. ASSUME GotMatches PROVE p \in TruePackets
  <2>1. ASSUME NEW i \in 1 .. 3 PROVE FieldIsTrue(Health, i)
    <3> DEFINE r == Fields[i]
    <3>1. r \in Requests /\ Field(Health, i) = Fill(r)
      BY <1>2, <1>3
    <3>2. got[r] = <<>> \/ got[r] = Answer(r)
      BY <1>6, <3>1 DEF GotMatches
    <3>3. Fill(r) \in {Answer(r), Zeros(r)}
      BY <3>2 DEF Fill
    <3> QED
      BY <3>1, <3>3 DEF FieldIsTrue
  <2>2. PacketIsTrue(p)
    BY <1>4, <2>1 DEF PacketIsTrue
  <2> QED
    BY <1>4, <2>2 DEF TruePackets
<1> QED
  BY <1>4, <1>5, <1>6 DEF p

LEMMA OtherPackets ==
  ASSUME NEW d \in Seq(Unit)
  PROVE  /\ [type |-> "PING", data |-> <<>>] \in WholePackets \cap TruePackets
         /\ [type |-> "REPLY", data |-> d] \in WholePackets
         /\ [type |-> "PCAP", data |-> d] \in WholePackets
         /\ d = Answer("command") => [type |-> "REPLY", data |-> d] \in TruePackets
         /\ d = Answer("pcap") => [type |-> "PCAP", data |-> d] \in TruePackets
<1>1. <<>> \in Seq(Unit)
  BY EmptySeq
<1>2. /\ [type |-> "PING", data |-> <<>>] \in Packet
      /\ [type |-> "REPLY", data |-> d] \in Packet
      /\ [type |-> "PCAP", data |-> d] \in Packet
  BY <1>1 DEF Packet
<1> QED
  BY <1>2 DEF WholePackets, TruePackets, PacketIsTrue

LEMMA NoQueue == downlink' = <<>> => HealthIsWhole' /\ PacketsAreTrue'
BY DEF HealthIsWhole, PacketsAreTrue

LEMMA SameQueue ==
  UNCHANGED downlink => /\ HealthIsWhole => HealthIsWhole'
                        /\ PacketsAreTrue => PacketsAreTrue'
BY DEF HealthIsWhole, PacketsAreTrue

\* The steps that change the queue.
LEMMA PingedQueue ==
  ASSUME TypeOK', OtherVisits
  PROVE  HealthIsWhole' /\ PacketsAreTrue'
<1>1. <<>> \in Seq(Unit)
  BY EmptySeq
<1> DEFINE p == [type |-> "PING", data |-> <<>>]
<1>2. p \in WholePackets /\ p \in TruePackets
  BY <1>1, OtherPackets
<1>3. downlink' = <<p>>
  BY DEF OtherVisits, Pack
<1> HIDE DEF p
<1>4. downlink' \in Seq(WholePackets) /\ downlink' \in Seq(TruePackets)
  BY <1>2, <1>3, One
<1>5. downlink' \in Seq(Packet)
  BY DEF TypeOK
<1>6. HealthIsWhole' <=> downlink' \in Seq(WholePackets)
  BY <1>5, QueueIsWhole
<1>7. PacketsAreTrue' <=> downlink' \in Seq(TruePackets)
  BY <1>5, QueueIsTrue
<1> QED
  BY <1>4, <1>6, <1>7

LEMMA ReplyQueue ==
  ASSUME TypeOK, TypeOK', QueueReply
  PROVE  /\ HealthIsWhole => HealthIsWhole'
         /\ GotMatches /\ PacketsAreTrue => PacketsAreTrue'
<1> DEFINE d == got["command"]
<1>1. d \in Seq(Unit) /\ downlink \in Seq(Packet) /\ downlink' \in Seq(Packet)
  BY DEF TypeOK, Requests
<1>2. /\ [type |-> "REPLY", data |-> d] \in WholePackets
      /\ d = Answer("command") => [type |-> "REPLY", data |-> d] \in TruePackets
  BY <1>1, OtherPackets
<1>3. downlink' = downlink \o PackIf("REPLY", d)
  BY DEF QueueReply
<1>4. GotMatches => d = <<>> \/ d = Answer("command")
  BY DEF GotMatches, Requests
<1> HIDE DEF d
<1>5. downlink \in Seq(WholePackets) => downlink' \in Seq(WholePackets)
  BY <1>2, <1>3, Grows
<1>6. GotMatches /\ downlink \in Seq(TruePackets) => downlink' \in Seq(TruePackets)
  BY <1>2, <1>3, <1>4, Grows
<1>7. /\ HealthIsWhole <=> downlink \in Seq(WholePackets)
      /\ PacketsAreTrue <=> downlink \in Seq(TruePackets)
  BY <1>1, QueueIsWhole, QueueIsTrue
<1>8. HealthIsWhole' <=> downlink' \in Seq(WholePackets)
  BY <1>1, QueueIsWhole
<1>9. PacketsAreTrue' <=> downlink' \in Seq(TruePackets)
  BY <1>1, QueueIsTrue
<1> QED
  BY <1>5, <1>6, <1>7, <1>8, <1>9

LEMMA VisitQueue ==
  ASSUME TypeOK, TypeOK', Genuine, QueuePackets
  PROVE  /\ HealthIsWhole => HealthIsWhole'
         /\ GotMatches /\ PacketsAreTrue => PacketsAreTrue'
<1>1. CASE NothingCame
  BY <1>1, SameQueue DEF QueuePackets
<1>2. CASE ~ NothingCame
  <2> DEFINE d == got["pcap"]
             q == downlink \o Pack("TPX", Health)
  <2>1. d \in Seq(Unit) /\ downlink \in Seq(Packet) /\ downlink' \in Seq(Packet)
    BY DEF TypeOK, Requests
  <2>2. /\ [type |-> "PCAP", data |-> d] \in WholePackets
        /\ d = Answer("pcap") => [type |-> "PCAP", data |-> d] \in TruePackets
    BY <2>1, OtherPackets
  <2>3. downlink' = q \o PackIf("PCAP", d)
    BY <1>2 DEF QueuePackets
  <2>4. GotMatches => d = <<>> \/ d = Answer("pcap")
    BY DEF GotMatches, Requests
  <2>5. /\ [type |-> "TPX", data |-> Health] \in WholePackets
        /\ GotMatches => [type |-> "TPX", data |-> Health] \in TruePackets
    BY <1>2, HealthPacket
  <2> HIDE DEF d
  <2>6. /\ downlink \in Seq(WholePackets) => q \in Seq(WholePackets)
        /\ GotMatches /\ downlink \in Seq(TruePackets) => q \in Seq(TruePackets)
    BY <2>5, Grows
  <2> HIDE DEF q
  <2>7. downlink \in Seq(WholePackets) => downlink' \in Seq(WholePackets)
    BY <2>2, <2>3, <2>6, Grows
  <2>8. GotMatches /\ downlink \in Seq(TruePackets) => downlink' \in Seq(TruePackets)
    BY <2>2, <2>3, <2>4, <2>6, Grows
  <2>9. /\ HealthIsWhole <=> downlink \in Seq(WholePackets)
        /\ PacketsAreTrue <=> downlink \in Seq(TruePackets)
    BY <2>1, QueueIsWhole, QueueIsTrue
  <2>10. HealthIsWhole' <=> downlink' \in Seq(WholePackets)
    BY <2>1, QueueIsWhole
  <2>11. PacketsAreTrue' <=> downlink' \in Seq(TruePackets)
    BY <2>1, QueueIsTrue
  <2> QED
    BY <2>7, <2>8, <2>9, <2>10, <2>11
<1> QED
  BY <1>1, <1>2

LEMMA QueueStep ==
  ASSUME TypeOK, TypeOK', Genuine, [Next]_vars
  PROVE  /\ HealthIsWhole => HealthIsWhole'
         /\ GotMatches /\ PacketsAreTrue => PacketsAreTrue'
<1>1. CASE OtherVisits
  BY <1>1, PingedQueue
<1>2. CASE QueueReply
  BY <1>2, ReplyQueue
<1>3. CASE QueuePackets
  BY <1>3, VisitQueue
<1>4. CASE Drain \/ Restart
  BY <1>4, NoQueue DEF Drain, Restart
<1>5. CASE \/ InitTimepix \/ Command \/ Ask \/ Receive \/ Timeout \/ Pinged \/ NextRequest
           \/ UNCHANGED vars
  <2>1. UNCHANGED downlink
    BY <1>5 DEF InitTimepix, Command, Ask, Receive, Timeout, Pinged, NextRequest, vars
  <2> QED
    BY <2>1, SameQueue
<1> QED
  BY <1>1, <1>2, <1>3, <1>4, <1>5 DEF Next, Formatter

-----------------------------------------------------------------------------
(* As long as nothing was late.                                            *)

\* Time does not go back.
LEMMA LateStep ==
  ASSUME TypeOK, [Next]_vars, late' = 0
  PROVE  /\ late = 0
         /\ Timeout \/ Restart => line' = <<>>
<1>0. /\ late \in Nat /\ Size[request] \in Nat \ {0} /\ line \in Seq(Unit)
      /\ Len(line) \in Nat
  BY SizeAssumption, SizeType, LenProperties DEF TypeOK
<1>1. CASE Timeout
  <2>1. PICK k \in 0 .. Least(Len(line), Size[request] - 1) :
          /\ line' = Drop(line, k)
          /\ Delay(IF k = Len(line) THEN 0 ELSE 1)
    BY <1>1 DEF Timeout
  <2>2. k \in 0 .. Len(line)
    BY <1>0 DEF Least
  <2>3. late = 0 /\ k = Len(line)
    BY <1>0, <2>1 DEF Delay
  <2> QED
    BY <1>0, <2>1, <2>2, <2>3, DropProperties
<1>2. CASE Restart
  <2>1. PICK k \in 0 .. Len(line) : /\ line' = Drop(line, k)
                                   /\ Delay(IF k = Len(line) THEN 0 ELSE 1)
    BY <1>2 DEF Restart
  <2>2. late = 0 /\ k = Len(line)
    BY <1>0, <2>1 DEF Delay
  <2> QED
    BY <1>0, <2>1, <2>2, DropProperties
<1>3. CASE ~ Timeout /\ ~ Restart
  <2>1. UNCHANGED late
    BY <1>3 DEF Next, Formatter, InitTimepix, OtherVisits, Command, Ask, Receive, Pinged,
                QueueReply, NextRequest, QueuePackets, Drain, vars, bound
  <2> QED
    BY <1>3, <2>1
<1> QED
  BY <1>1, <1>2, <1>3

LEMMA MatchStep ==
  ASSUME TypeOK, LineMatches, GotMatches, [Next]_vars, Timeout \/ Restart => line' = <<>>
  PROVE  LineMatches' /\ GotMatches'
<1>0. /\ Size[request] \in Nat \ {0} /\ request \in Requests /\ line \in Seq(Unit)
      /\ Len(line) \in Nat /\ got \in [Requests -> Seq(Unit)]
  BY SizeType, LenProperties DEF TypeOK
<1>1. ASSUME line' = <<>> PROVE LineMatches'
  BY <1>1 DEF LineMatches
<1>2. ASSUME UNCHANGED got PROVE GotMatches'
  BY <1>2 DEF GotMatches, Answer
<1>3. ASSUME got' = NoReplies PROVE GotMatches'
  BY <1>3, NoRepliesType DEF GotMatches
<1>4. CASE pc # "await" /\ UNCHANGED <<line, got>>
  BY <1>1, <1>2, <1>4 DEF LineMatches
<1>5. CASE pc # "await" /\ UNCHANGED line /\ got' = NoReplies
  BY <1>1, <1>3, <1>5 DEF LineMatches
<1>6. CASE Ask
  <2>1. line = <<>>
    BY <1>6 DEF Ask, LineMatches
  <2>2. <<>> \o Answer(request) = Answer(request)
    BY <1>0, AnswerType, ConcatEmptySeq
  <2>3. line' = <<>> \/ line' = Answer(request)
    BY <1>6, <2>1, <2>2 DEF Ask
  <2>4. pc' = "await" /\ UNCHANGED <<request, got>>
    BY <1>6 DEF Ask
  <2> QED
    BY <1>2, <2>3, <2>4 DEF LineMatches, Answer
<1>7. CASE Receive
  <2>1. Len(line) >= Size[request] /\ line # <<>>
    <3>1. Len(line) >= Size[request]
      BY <1>7 DEF Receive
    <3>2. Len(line) # 0
      BY <1>0, <3>1
    <3> QED
      BY <3>1, <3>2, EmptySeq
  <2>2. line = Answer(request) /\ Len(line) = Size[request]
    BY <1>0, <2>1, AnswerType DEF LineMatches
  <2>3. SubSeq(line, 1, Size[request]) = line
    BY <1>0, <2>2, SubSeqFull
  <2>4. Size[request] \in 0 .. Len(line)
    BY <1>0, <2>2
  <2>5. Drop(line, Size[request]) = <<>>
    BY <1>0, <2>2, <2>4, DropProperties
  <2>6. line' = <<>> /\ got' = [got EXCEPT ![request] = Answer(request)]
    BY <1>7, <2>2, <2>3, <2>5 DEF Receive
  <2>7. ASSUME NEW r \in Requests PROVE got'[r] \in {<<>>, Answer(r)}
    <3>1. CASE r = request
      BY <1>0, <2>6, <3>1
    <3>2. CASE r # request
      BY <1>0, <2>6, <3>2 DEF GotMatches
    <3> QED
      BY <3>1, <3>2
  <2> QED
    BY <1>1, <2>6, <2>7 DEF GotMatches, Answer
<1>8. CASE Timeout
  BY <1>1, <1>2, <1>8 DEF Timeout
<1>9. CASE Restart
  BY <1>1, <1>3, <1>9 DEF Restart
<1>10. CASE UNCHANGED vars
  BY <1>10 DEF LineMatches, GotMatches, Answer, vars, port, local
<1>11. CASE \/ InitTimepix \/ OtherVisits \/ Command \/ QueueReply \/ NextRequest
  BY <1>4, <1>11 DEF InitTimepix, OtherVisits, Command, QueueReply, NextRequest, port
<1>12. CASE Pinged \/ Drain
  BY <1>5, <1>12 DEF Pinged, Drain, port
<1>13. CASE QueuePackets
  <2>1. CASE NothingCame
    BY <1>5, <1>13, <2>1 DEF QueuePackets, port
  <2>2. CASE ~ NothingCame
    BY <1>4, <1>13, <2>2 DEF QueuePackets, port
  <2> QED
    BY <2>1, <2>2
<1> QED
  BY <1>6, <1>7, <1>8, <1>9, <1>10, <1>11, <1>12, <1>13 DEF Next, Formatter

LEMMA InTimeStep ==
  ASSUME TypeOK, TypeOK', Genuine, InTime, [Next]_vars
  PROVE  InTime'
<1>1. ASSUME late' = 0 PROVE LineMatches' /\ GotMatches' /\ PacketsAreTrue'
  <2>1. late = 0 /\ (Timeout \/ Restart => line' = <<>>)
    BY <1>1, LateStep
  <2>2. LineMatches /\ GotMatches /\ PacketsAreTrue
    BY <2>1 DEF InTime
  <2> QED
    BY <2>1, <2>2, MatchStep, QueueStep
<1> QED
  BY <1>1 DEF InTime

-----------------------------------------------------------------------------
(* The theorems.                                                           *)

LEMMA InvInit == Init => IInv
<1> SUFFICES ASSUME Init PROVE IInv
  OBVIOUS
<1> QED
  BY NoRepliesType, RealEmpty, EmptySeq
     DEF Init, IInv, OpenUnlessAbandoned, Genuine, HealthIsWhole, InTime, LineMatches,
         GotMatches, PacketsAreTrue

THEOREM Invariance == Spec => []IInv
<1>1. Init => IInv
  BY InvInit
<1>2. TypeOK /\ TypeOK' /\ IInv /\ [Next]_vars => IInv'
  BY OpenStep, GenuineStep, QueueStep, InTimeStep DEF IInv
<1> QED
  BY <1>1, <1>2, TypeCorrect, PTL DEF Spec

\* A Timepix whose port is not open is never asked for anything.
THEOREM ClosedPort == Spec => []ClosedPortIsLeftAlone
<1>1. IInv => ClosedPortIsLeftAlone
  BY DEF IInv, OpenUnlessAbandoned, ClosedPortIsLeftAlone
<1> QED
  BY <1>1, Invariance, PTL

\* A health packet has its length and something the Timepix sent, whatever was lost
\* or late.
THEOREM HealthWhole == Spec => []HealthIsWhole
<1>1. IInv => HealthIsWhole
  BY DEF IInv
<1> QED
  BY <1>1, Invariance, PTL

\* Without late replies, what is lost leaves every packet as its type says.
THEOREM PacketsTrue == Spec => []PacketsAreTrueInTime
<1>1. IInv => PacketsAreTrueInTime
  BY DEF IInv, InTime, PacketsAreTrueInTime
<1> QED
  BY <1>1, Invariance, PTL
=============================================================================
