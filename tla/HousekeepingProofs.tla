-------------------------- MODULE HousekeepingProofs --------------------------
(***************************************************************************)
(* Proofs about Housekeeping, for every number of retries, visits, lost    *)
(* and late replies.                                                       *)
(***************************************************************************)
EXTENDS Housekeeping, SequenceTheorems, TLAPS

-----------------------------------------------------------------------------
(* The inductive invariant.                                                *)

\* The socket holds nothing but the answer to the request under way.
InboxMatches ==
  inbox # <<>> => pc = "await" /\ Len(inbox) = 1 /\ inbox[1].of = Head(todo)

\* What a request got is the answer to it.
GotMatches ==
  \A r \in Requests : /\ Len(got[r]) <= 1
                      /\ got[r] # <<>> => got[r][1].of = r

InTime == late = 0 => InboxMatches /\ GotMatches /\ LabelsAreTrue

-----------------------------------------------------------------------------
(* Lemmas.                                                                 *)

\* The beginning and the end of a sequence of requests or replies.
LEMMA HeadTail ==
  ASSUME NEW S, NEW s \in Seq(S), s # <<>>
  PROVE  /\ Head(s) \in S
         /\ Tail(s) \in Seq(S)
         /\ Len(s) \in Nat \ {0}
         /\ Head(s) = s[1]
         /\ Len(Tail(s)) = Len(s) - 1
BY HeadTailProperties, EmptySeq, LenProperties

LEMMA One ==
  ASSUME NEW S, NEW x \in S
  PROVE  <<x>> \in Seq(S) /\ Len(<<x>>) = 1 /\ <<x>>[1] = x
OBVIOUS

Cat(a, b) == a \o b

LEMMA CatProperties ==
  ASSUME NEW S, NEW a \in Seq(S), NEW b \in Seq(S)
  PROVE  /\ Cat(a, b) \in Seq(S)
         /\ Len(Cat(a, b)) = Len(a) + Len(b)
         /\ \A i \in 1 .. Len(a) + Len(b) :
               Cat(a, b)[i] = IF i <= Len(a) THEN a[i] ELSE b[i - Len(a)]
<1>1. Cat(a, b) = a \o b
  BY DEF Cat
<1>2. /\ a \o b \in Seq(S)
      /\ Len(a \o b) = Len(a) + Len(b)
      /\ \A i \in 1 .. Len(a) + Len(b) :
            (a \o b)[i] = IF i <= Len(a) THEN a[i] ELSE b[i - Len(a)]
  BY ConcatProperties
<1> QED
  BY ONLY <1>1, <1>2, Zenon

LEMMA CatOne ==
  ASSUME NEW S, NEW a \in Seq(S), NEW b \in Seq(S), Len(b) = 1
  PROVE  /\ Cat(a, b) \in Seq(S)
         /\ Len(Cat(a, b)) = Len(a) + 1
         /\ \A i \in 1 .. Len(a) : Cat(a, b)[i] = a[i]
         /\ Cat(a, b)[Len(a) + 1] = b[1]
<1>1. /\ Cat(a, b) \in Seq(S)
      /\ Len(Cat(a, b)) = Len(a) + Len(b)
      /\ \A i \in 1 .. Len(a) + Len(b) :
            Cat(a, b)[i] = IF i <= Len(a) THEN a[i] ELSE b[i - Len(a)]
  BY CatProperties, Zenon
<1>2. /\ Len(Cat(a, b)) = Len(a) + 1
      /\ \A i \in 1 .. Len(a) + 1 : Cat(a, b)[i] = IF i <= Len(a) THEN a[i] ELSE b[i - Len(a)]
  BY <1>1, Zenon
<1>. Len(a) \in Nat
  BY LenProperties
<1>3. \A i \in 1 .. Len(a) : i \in 1 .. Len(a) + 1 /\ i <= Len(a)
  OBVIOUS
<1>4. Len(a) + 1 \in 1 .. Len(a) + 1 /\ ~ (Len(a) + 1 <= Len(a)) /\ (Len(a) + 1) - Len(a) = 1
  OBVIOUS
<1> DEFINE r == Cat(a, b)
<1>5. /\ \A i \in 1 .. Len(a) + 1 : r[i] = IF i <= Len(a) THEN a[i] ELSE b[i - Len(a)]
  BY <1>2
<1> HIDE DEF r
<1>6. (\A i \in 1 .. Len(a) : r[i] = a[i]) /\ r[Len(a) + 1] = b[1]
  BY ONLY <1>3, <1>4, <1>5, Zenon
<1> QED
  BY <1>1, <1>2, <1>6, Zenon DEF r

LEMMA Three ==
  ASSUME NEW S, NEW x \in S, NEW y \in S, NEW z \in S, NEW t, t = <<x>> \o <<y>> \o <<z>>
  PROVE  t \in Seq(S) /\ Len(t) = 3 /\ t[1] = x /\ t[2] = y /\ t[3] = z
<1>1. \A u \in S : <<u>> \in Seq(S) /\ Len(<<u>>) = 1 /\ <<u>>[1] = u
  BY One
<1> DEFINE a == <<x>>
           b == <<y>>
           c == <<z>>
           ab == Cat(a, b)
<1>2. /\ a \in Seq(S) /\ Len(a) = 1 /\ a[1] = x
      /\ b \in Seq(S) /\ Len(b) = 1 /\ b[1] = y
      /\ c \in Seq(S) /\ Len(c) = 1 /\ c[1] = z
  BY <1>1, Zenon
<1>3. t = Cat(ab, c)
  BY Zenon DEF Cat
<1> HIDE DEF a, b, c
<1>4. 1 \in Nat /\ 2 \in Nat /\ 1 + 1 = 2 /\ 2 + 1 = 3
      /\ 1 \in 1 .. 1 /\ 1 \in 1 .. 2 /\ 2 \in 1 .. 2
  OBVIOUS
<1>5. /\ ab \in Seq(S) /\ Len(ab) = Len(a) + 1
      /\ \A i \in 1 .. Len(a) : ab[i] = a[i]
      /\ ab[Len(a) + 1] = b[1]
  BY <1>2, CatOne, Zenon
<1> HIDE DEF ab
<1>6. ab \in Seq(S) /\ Len(ab) = 2 /\ ab[1] = x /\ ab[2] = y
  BY <1>2, <1>4, <1>5, Zenon
<1>. ab \in Seq(S) /\ c \in Seq(S) /\ Len(c) = 1
  BY <1>2, <1>6, Zenon
<1>7. /\ Cat(ab, c) \in Seq(S) /\ Len(Cat(ab, c)) = Len(ab) + 1
      /\ \A i \in 1 .. Len(ab) : Cat(ab, c)[i] = ab[i]
      /\ Cat(ab, c)[Len(ab) + 1] = c[1]
  BY ONLY ab \in Seq(S), c \in Seq(S), Len(c) = 1, CatOne, Zenon
<1>8. /\ Cat(ab, c) \in Seq(S) /\ Len(Cat(ab, c)) = 3
      /\ Cat(ab, c)[1] = x /\ Cat(ab, c)[2] = y /\ Cat(ab, c)[3] = z
  BY <1>2, <1>4, <1>6, <1>7, Zenon
<1> QED
  BY <1>3, <1>8, Zenon

LEMMA LoseType ==
  ASSUME NEW n \in {0, 1}, lost \in 0 .. MaxLost, Lose(n)
  PROVE  lost' \in 0 .. MaxLost
BY BoundsAssumption DEF Lose

LEMMA DelayType ==
  ASSUME NEW n \in {0, 1}, late \in 0 .. MaxLate, Delay(n)
  PROVE  late' \in 0 .. MaxLate
BY BoundsAssumption DEF Delay

LEMMA Sole ==
  ASSUME NEW S, NEW s \in Seq(S), s # <<>>, Len(s) <= 1
  PROVE  s[1] \in S /\ Len(s) = 1 /\ s = <<s[1]>>
<1>1. Len(s) \in Nat \ {0} /\ s[1] \in S
  BY HeadTail
<1>2. \A n \in Nat \ {0} : n <= 1 => n = 1
  OBVIOUS
<1>3. Len(s) = 1
  BY <1>1, <1>2, Zenon
<1> QED
  BY <1>1, <1>3, One, SeqEqual

LEMMA PollType == Poll \in Seq(Requests)
<1> DEFINE a == Asked("power", <<"power">>)
           b == Asked("temperature", <<"temp1", "temp2">>)
           c == Asked("introspection", <<"clock", "state", "error">>)
<1>1. <<"power">> \in Seq(Requests) /\ <<"temp1", "temp2">> \in Seq(Requests)
  BY DEF Requests, Sensors
<1>2. <<"clock", "state", "error">> \in Seq(Requests)
  BY DEF Requests, Sensors
<1>3. a \in Seq(Requests) /\ b \in Seq(Requests) /\ c \in Seq(Requests)
  BY <1>1, <1>2, EmptySeq DEF Asked
<1>4. Poll = (a \o b) \o c
  BY DEF Poll
<1> HIDE DEF a, b, c
<1> QED
  BY <1>3, <1>4, ConcatProperties

LEMMA NoRepliesType == NoReplies \in [Requests -> Seq(Reply)]
BY EmptySeq DEF NoReplies

LEMMA AnswerType ==
  ASSUME measurement \in [Sensors -> 0 .. Measurements - 1], NEW r \in Requests
  PROVE  AnswerTo(r) \in Reply /\ AnswerTo(r).of = r
BY BoundsAssumption DEF AnswerTo, Reply, Requests, Sensors

\* A new measurement has a number like any other.
LEMMA MeasureType ==
  ASSUME measurement \in [Sensors -> 0 .. Measurements - 1], NEW ss, Measure(ss)
  PROVE  measurement' \in [Sensors -> 0 .. Measurements - 1]
<1>1. ASSUME NEW m \in 0 .. Measurements - 1
      PROVE  (m + 1) % Measurements \in 0 .. Measurements - 1
  BY BoundsAssumption
<1> QED
  BY <1>1 DEF Measure

\* A packet with data of its type is labelled as it should be.
LEMMA PackType ==
  ASSUME NEW t \in Types, NEW d \in Seq(Reply)
  PROVE  Pack(t, d) \in Seq(Packet) /\ PackIf(t, d) \in Seq(Packet)
<1>1. [type |-> t, data |-> d] \in Packet
  BY DEF Packet
<1>2. Pack(t, d) \in Seq(Packet)
  BY <1>1, One DEF Pack
<1> QED
  BY <1>2, EmptySeq DEF PackIf

\* Queued packets keep their labels when labelled packets join them.
LEMMA Join ==
  ASSUME NEW p \in Seq(Packet), NEW q \in Seq(Packet),
         \A i \in 1 .. Len(p) : Labelled(p[i]),
         \A i \in 1 .. Len(q) : Labelled(q[i])
  PROVE  /\ p \o q \in Seq(Packet)
         /\ \A i \in 1 .. Len(p \o q) : Labelled((p \o q)[i])
<1>1. p \o q \in Seq(Packet) /\ Len(p \o q) = Len(p) + Len(q)
  BY ConcatProperties
<1>2. Len(p) \in Nat /\ Len(q) \in Nat
  BY LenProperties
<1>3. ASSUME NEW i \in 1 .. Len(p \o q) PROVE Labelled((p \o q)[i])
  <2>1. CASE i <= Len(p)
    BY <1>1, <1>2, <2>1, ConcatProperties
  <2>2. CASE i > Len(p)
    <3>1. i - Len(p) \in 1 .. Len(q) /\ (p \o q)[i] = q[i - Len(p)]
      BY <1>1, <1>2, <2>2, ConcatProperties
    <3> QED
      BY <3>1
  <2> QED
    BY <1>1, <1>2, <2>1, <2>2
<1> QED
  BY <1>1, <1>3

LEMMA LabelledPack ==
  ASSUME NEW t \in Types, NEW d \in Seq(Reply),
         Len(d) = Len(Belongs(t)), \A i \in 1 .. Len(d) : d[i].of = Belongs(t)[i]
  PROVE  \A i \in 1 .. Len(Pack(t, d)) : Labelled(Pack(t, d)[i])
BY DEF Pack, Labelled

\* The answer to a request, in a packet of its type.
LEMMA LabelledOne ==
  ASSUME NEW t \in Types, NEW r \in Requests, Belongs(t) = <<r>>,
         NEW d \in Seq(Reply), Len(d) <= 1, d # <<>> => d[1].of = r
  PROVE  \A i \in 1 .. Len(PackIf(t, d)) : Labelled(PackIf(t, d)[i])
<1>1. CASE d = <<>>
  BY <1>1 DEF PackIf
<1>2. CASE d # <<>>
  <2>1. Len(d) = 1
    BY <1>2, HeadTail
  <2>2. Len(d) = Len(Belongs(t)) /\ \A i \in 1 .. Len(d) : d[i].of = Belongs(t)[i]
    BY <1>2, <2>1
  <2> QED
    BY <1>2, <2>2, LabelledPack DEF PackIf
<1> QED
  BY <1>1, <1>2

-----------------------------------------------------------------------------
(* Types.                                                                  *)

\* Every variable keeps its type, whatever is lost or late.
THEOREM TypeCorrect == Spec => []TypeOK
<1>1. Init => TypeOK
  <2>1. /\ <<>> \in Seq(Reply) /\ <<>> \in Seq(Packet) /\ <<>> \in Seq(Requests)
        /\ NoReplies \in [Requests -> Seq(Reply)]
    BY NoRepliesType, EmptySeq
  <2>2. /\ 0 \in 0 .. Measurements - 1 /\ 1 \in 0 .. Measurements - 1
        /\ 0 \in 0 .. RetryMax - 1 /\ 0 \in 0 .. LoopEvery - 1
        /\ 0 \in 0 .. MaxCommands /\ 0 \in 0 .. MaxLost /\ 0 \in 0 .. MaxLate
    BY BoundsAssumption
  <2> QED
    BY <2>1, <2>2 DEF Init, TypeOK
<1>2. TypeOK /\ [Next]_vars => TypeOK'
  <2> SUFFICES ASSUME TypeOK, [Next]_vars PROVE TypeOK'
    OBVIOUS
  <2> USE DEF TypeOK
  <2>1. CASE OtherVisits
    <3>0. "PING" \in Types /\ <<>> \in Seq(Reply)
      BY EmptySeq DEF Types
    <3>1. Pack("PING", <<>>) \in Seq(Packet)
      BY <3>0, PackType
    <3> QED
      BY <2>1, <3>1 DEF OtherVisits, board, bound
  <2>2. CASE Command
    <3>1. <<>> \in Seq(Requests) /\ <<"command">> \in Seq(Requests) /\ <<"command">> # <<>>
      BY DEF Requests
    <3>2. todo' \in Seq(Requests) /\ (pc' = "ask" => todo' # <<>>) /\ pc' \in {"poll", "ask"}
      BY <2>2, <3>1 DEF Command
    <3>3. enable' \subseteq Bits
      BY <2>2 DEF Command, Bitsets, Bits
    <3>4. commands' = commands \/ (commands < MaxCommands /\ commands' = commands + 1)
      BY <2>2, Zenon DEF Command
    <3>4a. commands \in 0 .. MaxCommands /\ MaxCommands \in Nat
      BY BoundsAssumption
    <3>4b. commands' \in 0 .. MaxCommands
      BY ONLY <3>4, <3>4a
    <3>5. measurement' \in [Sensors -> 0 .. Measurements - 1]
      BY <2>2, MeasureType DEF Command
    <3>6. UNCHANGED <<inbox, sent, attempts, got, zero_found, counter, errors, downlink,
                      lost, late>>
      BY <2>2 DEF Command
    <3> QED
      BY <3>2, <3>3, <3>4b, <3>5, <3>6
  <2>3. CASE StartPoll
    <3>1. <<>> \in Seq(Requests) /\ Poll \in Seq(Requests)
      BY EmptySeq, PollType
    <3>2. todo' \in {Poll, <<>>} /\ pc' \in {"leave", "ask"} /\ (pc' = "ask" => todo' # <<>>)
      BY <2>3, Zenon DEF StartPoll
    <3>3. todo' \in Seq(Requests)
      BY <3>1, <3>2, Zenon
    <3>4. UNCHANGED <<inbox, measurement, sent, attempts, got, zero_found, enable, counter,
                      errors, downlink, commands, lost, late>>
      BY <2>3 DEF StartPoll, board, bound
    <3> QED
      BY <3>2, <3>3, <3>4
  <2>4. CASE Ask
    <3>1. Head(todo) \in Requests
      BY <2>4, HeadTail DEF Ask
    <3>2. AnswerTo(Head(todo)) \in Reply
      BY <3>1, AnswerType
    <3>3. Append(inbox, AnswerTo(Head(todo))) \in Seq(Reply)
      BY <3>2, AppendProperties
    <3>4. inbox' \in Seq(Reply)
      BY <2>4, <3>3 DEF Ask
    <3>5. lost' \in 0 .. MaxLost
      BY <2>4, LoseType DEF Ask
    <3>6. pc' = "await" /\ todo' = todo /\ todo # <<>>
      BY <2>4 DEF Ask
    <3>7. UNCHANGED <<measurement, sent, attempts, got, zero_found, enable, counter,
                      errors, downlink, commands, late>>
      BY <2>4 DEF Ask
    <3> QED
      BY <3>4, <3>5, <3>6, <3>7
  <2>5. CASE Receive
    <3>1. Head(inbox) \in Reply /\ Tail(inbox) \in Seq(Reply)
      BY <2>5, HeadTail DEF Receive
    <3>2. got' \in [Requests -> Seq(Reply)]
      BY <2>5, <3>1 DEF Receive
    <3>3. 0 \in 0 .. RetryMax - 1
      BY BoundsAssumption
    <3> QED
      BY <2>5, <3>1, <3>2, <3>3 DEF Receive, bound
  <2>6. CASE Timeout
    <3>1. late' \in 0 .. MaxLate
      BY <2>6, DelayType DEF Timeout
    <3>2. attempts' \in 0 .. RetryMax - 1
      <4>1. \/ attempts + 1 < RetryMax /\ attempts' = attempts + 1
            \/ attempts' = 0
        BY <2>6 DEF Timeout
      <4>2. RetryMax \in Nat \ {0} /\ attempts \in 0 .. RetryMax - 1
        BY BoundsAssumption
      <4> HIDE DEF TypeOK
      <4> QED
        BY <4>1, <4>2
    <3>3. /\ pc' \in {"await", "answered"} /\ todo' = todo /\ todo # <<>>
          /\ got' = got /\ zero_found' \in BOOLEAN /\ errors' \subseteq {"reading_packet"}
      BY <2>6 DEF Timeout
    <3> QED
      BY <2>6, <3>1, <3>2, <3>3 DEF Timeout, board
  <2>7. ASSUME pc = "answered", GoOn
        PROVE  todo' \in Seq(Requests) /\ pc' \in {"poll", "leave", "ask"}
               /\ (pc' = "ask" => todo' # <<>>)
    BY <2>7, HeadTail DEF GoOn
  <2>8. CASE Keep
    BY <2>7, <2>8 DEF Keep, board, bound
  <2>9. CASE QueueReply
    <3> DEFINE more == PackIf(IF Head(todo) = "power" THEN "POW" ELSE "REPLY", got[Head(todo)])
    <3>1. Head(todo) \in Requests
      BY <2>9, HeadTail DEF QueueReply
    <3>2. more \in Seq(Packet)
      BY <3>1, PackType DEF Types
    <3>3. downlink' = downlink \o more
      BY <2>9 DEF QueueReply
    <3> HIDE DEF more
    <3>4. downlink' \in Seq(Packet)
      BY <3>2, <3>3, ConcatProperties
    <3> QED
      BY <2>7, <2>9, <3>4 DEF QueueReply, board, bound
  <2>10. CASE QueueTemperatures
    <3> DEFINE one == PackIf(SensorType("temp1"), got["temp1"])
               two == PackIf(SensorType("temp2"), got["temp2"])
    <3>1. one \in Seq(Packet) /\ two \in Seq(Packet)
      BY PackType DEF SensorType, Types, Requests, Sensors
    <3>2. downlink' = downlink \o one \o two
      BY <2>10 DEF QueueTemperatures
    <3> HIDE DEF one, two
    <3>3. downlink' \in Seq(Packet)
      BY <3>1, <3>2, ConcatProperties
    <3>4. ASSUME NEW s \in Sensors, got[s] # <<>> PROVE got[s][1].number \in 0 .. Measurements - 1
      <4>1. got[s] \in Seq(Reply)
        BY DEF Requests
      <4>2. got[s][1] \in Reply
        BY <3>4, <4>1, HeadTail
      <4> QED
        BY <4>2 DEF Reply
    <3>5. sent' \in [Sensors -> 0 .. Measurements - 1]
      BY <2>10, <3>4 DEF QueueTemperatures
    <3>6. measurement' \in [Sensors -> 0 .. Measurements - 1]
      BY <2>10, MeasureType DEF QueueTemperatures
    <3>7. lost' \in 0 .. MaxLost
      BY <2>10, LoseType DEF QueueTemperatures
    <3> QED
      BY <2>7, <2>10, <3>3, <3>5, <3>6, <3>7 DEF QueueTemperatures
  <2>11. CASE QueueIntro
    <3> DEFINE data == got["clock"] \o got["state"] \o got["error"]
               more == IF \A r \in {"clock", "state", "error"} : got[r] # <<>>
                       THEN Pack("INTRO", data) ELSE <<>>
    <3>1. data \in Seq(Reply)
      BY ConcatProperties DEF Requests
    <3>2. more \in Seq(Packet)
      <4>1. "INTRO" \in Types
        BY DEF Types
      <4> HIDE DEF data
      <4> QED
        BY <3>1, <4>1, PackType, EmptySeq
    <3>3. downlink' = downlink \o more
      BY <2>11 DEF QueueIntro
    <3> HIDE DEF more
    <3>4. downlink' \in Seq(Packet)
      BY <3>2, <3>3, ConcatProperties
    <3>5. UNCHANGED <<inbox, measurement, sent, attempts, got, enable, counter, errors,
                      commands, lost, late>>
      BY <2>11 DEF QueueIntro, board, bound
    <3>6. todo' \in Seq(Requests) /\ pc' \in {"poll", "ask", "leave"} /\ (pc' = "ask" => todo' # <<>>)
      BY <2>7, <2>11, Zenon DEF QueueIntro
    <3>7. zero_found' \in BOOLEAN
      BY <2>11 DEF QueueIntro
    <3> QED
      BY <3>4, <3>5, <3>6, <3>7
  <2>12. CASE Leave
    <3>0. counter \in 0 .. LoopEvery - 1 /\ LoopEvery \in Nat \ {0}
      BY BoundsAssumption
    <3>0a. (counter + 1) % LoopEvery \in 0 .. LoopEvery - 1
      BY ONLY <3>0
    <3>0b. counter' = counter \/ counter' = (counter + 1) % LoopEvery
      BY <2>12, Zenon DEF Leave, CountAfter, CountVisit
    <3>1. counter' \in 0 .. LoopEvery - 1
      BY ONLY <3>0, <3>0a, <3>0b, Zenon
    <3>2. got' \in [Requests -> Seq(Reply)] /\ downlink' \in Seq(Packet)
      BY <2>12, NoRepliesType, EmptySeq DEF Leave
    <3>3. zero_found' = FALSE /\ pc' = "others"
      BY <2>12 DEF Leave
    <3>4. UNCHANGED <<inbox, measurement, sent, todo, attempts, enable, errors, commands,
                      lost, late>>
      BY <2>12 DEF Leave, board, bound
    <3> QED
      BY <3>1, <3>2, <3>3, <3>4
  <2>13. CASE Restart
    <3>2. measurement' \in [Sensors -> 0 .. Measurements - 1]
      BY <2>13, MeasureType DEF Restart
    <3>3. /\ inbox' \in Seq(Reply) /\ downlink' \in Seq(Packet)
          /\ todo' \in Seq(Requests) /\ got' \in [Requests -> Seq(Reply)]
      BY <2>13, NoRepliesType, EmptySeq DEF Restart
    <3>4a. lost + 1 <= MaxLost /\ lost' = lost + 1 /\ counter' = 0 /\ attempts' = 0
      BY <2>13, Zenon DEF Restart, Lose
    <3>4b. /\ lost \in 0 .. MaxLost /\ MaxLost \in Nat
           /\ LoopEvery \in Nat \ {0} /\ RetryMax \in Nat \ {0}
      BY BoundsAssumption
    <3>4. lost' \in 0 .. MaxLost /\ counter' \in 0 .. LoopEvery - 1
          /\ attempts' \in 0 .. RetryMax - 1
      BY ONLY <3>4a, <3>4b
    <3>5. /\ pc' = "others" /\ zero_found' = FALSE /\ enable' = {} /\ errors' = {}
          /\ UNCHANGED <<sent, commands, late>>
      BY <2>13 DEF Restart
    <3> QED
      BY <3>2, <3>3, <3>4, <3>5
  <2>14. CASE UNCHANGED vars
    BY <2>14 DEF vars, board, local, bound
  <2> HIDE DEF TypeOK
  <2> QED
    BY <2>1, <2>2, <2>3, <2>4, <2>5, <2>6, <2>8, <2>9, <2>10, <2>11, <2>12, <2>13, <2>14
    DEF Next, Formatter
<1> QED
  BY <1>1, <1>2, PTL DEF Spec
-----------------------------------------------------------------------------
(* Labels.                                                                 *)

\* The socket and the replies match the requests as long as nothing was late.
THEOREM InTimeAlways == Spec => []InTime
<1>1. Init => InTime
  BY EmptySeq DEF Init, InTime, InboxMatches, GotMatches, LabelsAreTrue, NoReplies
<1>2. TypeOK /\ InTime /\ [Next]_vars => InTime'
  <2> SUFFICES ASSUME TypeOK, InTime, [Next]_vars, late' = 0
               PROVE  InboxMatches' /\ GotMatches' /\ LabelsAreTrue'
    BY DEF InTime
  <2>1. late = 0
    <3>1. late' = late \/ \E n \in {0, 1} : late' = late + n
      BY DEF Next, Formatter, OtherVisits, Command, StartPoll, Ask, Receive, Timeout,
             Delay, Keep, QueueReply, QueueTemperatures, QueueIntro, Leave, Restart,
             vars, bound
    <3> QED
      BY <3>1, BoundsAssumption DEF TypeOK
  <2>2. InboxMatches /\ GotMatches /\ LabelsAreTrue
    BY <2>1 DEF InTime
  <2>3. ASSUME UNCHANGED got PROVE GotMatches'
    BY <2>2, <2>3 DEF GotMatches
  <2>4. ASSUME UNCHANGED downlink PROVE LabelsAreTrue'
    BY <2>2, <2>4, ZenonT(30) DEF LabelsAreTrue, Labelled, Belongs
  <2>5. ASSUME pc # "await", UNCHANGED inbox PROVE InboxMatches'
    BY <2>2, <2>5 DEF InboxMatches
  <2>6. ASSUME NEW more \in Seq(Packet), \A i \in 1 .. Len(more) : Labelled(more[i]),
               downlink' = downlink \o more
        PROVE  LabelsAreTrue'
    <3>1. downlink \in Seq(Packet) /\ \A i \in 1 .. Len(downlink) : Labelled(downlink[i])
      BY <2>2 DEF TypeOK, LabelsAreTrue
    <3>2. \A i \in 1 .. Len(downlink \o more) : Labelled((downlink \o more)[i])
      BY <2>6, <3>1, Join
    <3> QED
      BY <2>6, <3>2 DEF LabelsAreTrue
  <2>7. \A r \in Requests : got[r] \in Seq(Reply) /\ Len(got[r]) <= 1
                             /\ (got[r] # <<>> => got[r][1].of = r)
    BY <2>2 DEF TypeOK, GotMatches
  <2>10. CASE OtherVisits
    <3>1. "PING" \in Types /\ <<>> \in Seq(Reply)
      BY EmptySeq DEF Types
    <3>2. \A i \in 1 .. Len(Pack("PING", <<>>)) : Labelled(Pack("PING", <<>>)[i])
      <4>1. Belongs("PING") = <<>>
        BY DEF Belongs
      <4>2. Len(<<>>) = 0
        BY EmptySeq
      <4>3. \A i \in 1 .. Len(<<>>) : <<>>[i].of = Belongs("PING")[i]
        BY <4>2
      <4> QED
        BY <3>1, <4>1, <4>3, LabelledPack
    <3>3. LabelsAreTrue'
      BY <2>10, <3>2, ZenonT(30) DEF OtherVisits, LabelsAreTrue, Labelled, Belongs
    <3> QED
      BY <2>3, <2>5, <2>10, <3>3 DEF OtherVisits, board
  <2>11. CASE Command
    BY <2>3, <2>4, <2>5, <2>11 DEF Command
  <2>12. CASE StartPoll
    BY <2>3, <2>4, <2>5, <2>12 DEF StartPoll, board
  <2>13. CASE Ask
    <3>1. Head(todo) \in Requests
      BY <2>13, HeadTail DEF Ask, TypeOK
    <3>2. AnswerTo(Head(todo)) \in Reply /\ AnswerTo(Head(todo)).of = Head(todo)
      BY <3>1, AnswerType DEF TypeOK
    <3>3. inbox = <<>>
      BY <2>2, <2>13 DEF Ask, InboxMatches
    <3>4. inbox' = <<>> \/ inbox' = <<AnswerTo(Head(todo))>>
      BY <2>13, <3>3 DEF Ask
    <3>5. InboxMatches'
      BY <2>13, <3>2, <3>4 DEF Ask, InboxMatches
    <3> QED
      BY <2>3, <2>4, <2>13, <3>5 DEF Ask
  <2>14. CASE Receive
    <3>1. Head(todo) \in Requests /\ Head(inbox) \in Reply /\ Head(inbox) = inbox[1]
          /\ Len(Tail(inbox)) = Len(inbox) - 1 /\ Tail(inbox) \in Seq(Reply)
      BY <2>14, HeadTail DEF Receive, TypeOK
    <3>2. Len(inbox) = 1 /\ inbox[1].of = Head(todo)
      BY <2>2, <2>14 DEF Receive, InboxMatches
    <3>3. inbox' = <<>>
      BY <2>14, <3>1, <3>2, EmptySeq DEF Receive
    <3>4. got' = [got EXCEPT ![Head(todo)] = <<Head(inbox)>>]
      BY <2>14 DEF Receive
    <3>5. Len(<<Head(inbox)>>) = 1 /\ <<Head(inbox)>>[1].of = Head(todo)
      BY <3>1, <3>2
    <3>6. GotMatches'
      BY <2>7, <3>1, <3>4, <3>5 DEF GotMatches, TypeOK
    <3>7. InboxMatches'
      BY <3>3 DEF InboxMatches
    <3> QED
      BY <2>4, <2>14, <3>6, <3>7 DEF Receive
  <2>15. CASE Timeout
    <3>1. inbox = <<>>
      BY <2>1, <2>15 DEF Timeout, Delay
    <3>2. InboxMatches'
      BY <2>15, <3>1 DEF Timeout, board, InboxMatches
    <3>3. UNCHANGED <<got, downlink>>
      BY <2>15 DEF Timeout
    <3> QED
      BY <2>3, <2>4, <3>2, <3>3
  <2>16. CASE Keep
    BY <2>3, <2>4, <2>5, <2>16 DEF Keep, board
  <2>17. CASE QueueReply
    <3> DEFINE t == IF Head(todo) = "power" THEN "POW" ELSE "REPLY"
    <3>1. t \in Types /\ Head(todo) \in Requests /\ Belongs(t) = <<Head(todo)>>
      BY <2>17 DEF QueueReply, Types, Requests, Belongs
    <3>2. downlink' = downlink \o PackIf(t, got[Head(todo)])
      BY <2>17 DEF QueueReply
    <3> HIDE DEF t
    <3>3. \A i \in 1 .. Len(PackIf(t, got[Head(todo)])) : Labelled(PackIf(t, got[Head(todo)])[i])
      BY <2>7, <3>1, LabelledOne
    <3>4. PackIf(t, got[Head(todo)]) \in Seq(Packet)
      BY <2>7, <3>1, PackType
    <3>5. LabelsAreTrue'
      BY <2>6, <3>2, <3>3, <3>4
    <3> QED
      BY <2>3, <2>5, <2>17, <3>5 DEF QueueReply, board
  <2>18. CASE QueueTemperatures
    <3> DEFINE one == PackIf(SensorType("temp1"), got["temp1"])
               two == PackIf(SensorType("temp2"), got["temp2"])
    <3>1. /\ "temp1" \in Requests /\ "temp2" \in Requests
          /\ SensorType("temp1") \in Types /\ SensorType("temp2") \in Types
      BY DEF Requests, Sensors, SensorType, Types
    <3>2. Belongs(SensorType("temp1")) = <<"temp1">> /\ Belongs(SensorType("temp2")) = <<"temp2">>
      BY DEF SensorType, Belongs
    <3>3. one \in Seq(Packet) /\ two \in Seq(Packet)
      BY <2>7, <3>1, PackType
    <3>4. /\ \A i \in 1 .. Len(one) : Labelled(one[i])
          /\ \A i \in 1 .. Len(two) : Labelled(two[i])
      BY <2>7, <3>1, <3>2, LabelledOne
    <3>5. downlink' = (downlink \o one) \o two
      BY <2>18 DEF QueueTemperatures
    <3> HIDE DEF one, two
    <3>6. one \o two \in Seq(Packet) /\ \A i \in 1 .. Len(one \o two) : Labelled((one \o two)[i])
      BY <3>3, <3>4, Join
    <3>7. downlink' = downlink \o (one \o two)
      <4>1. downlink \in Seq(Packet)
        BY DEF TypeOK
      <4> QED
        BY <3>3, <3>5, <4>1, ConcatAssociative
    <3>8. LabelsAreTrue'
      BY <2>6, <3>6, <3>7
    <3> QED
      BY <2>3, <2>5, <2>18, <3>8 DEF QueueTemperatures
  <2>19. CASE QueueIntro
    <3> DEFINE data == got["clock"] \o got["state"] \o got["error"]
               all  == \A r \in {"clock", "state", "error"} : got[r] # <<>>
    <3>1. downlink' = downlink \o IF all THEN Pack("INTRO", data) ELSE <<>>
      BY <2>19 DEF QueueIntro
    <3>2. CASE all
      <4>1. ASSUME NEW r \in {"clock", "state", "error"}
            PROVE  \E x \in Reply : got[r] = <<x>> /\ x.of = r
        <5>1. r \in Requests
          BY <4>1 DEF Requests
        <5>2. got[r] \in Seq(Reply) /\ Len(got[r]) <= 1 /\ got[r] # <<>> /\ got[r][1].of = r
          BY <2>7, <3>2, <4>1, <5>1
        <5> QED
          BY <5>2, Sole
      <4>2. PICK x \in Reply : got["clock"] = <<x>> /\ x.of = "clock"
        BY <4>1
      <4>3. PICK y \in Reply : got["state"] = <<y>> /\ y.of = "state"
        BY <4>1
      <4>4. PICK z \in Reply : got["error"] = <<z>> /\ z.of = "error"
        BY <4>1
      <4>5. data \in Seq(Reply) /\ Len(data) = 3 /\ data[1] = x /\ data[2] = y /\ data[3] = z
        BY <4>2, <4>3, <4>4, Three
      <4>6. Len(data) = Len(Belongs("INTRO")) /\ \A i \in 1 .. Len(data) : data[i].of = Belongs("INTRO")[i]
        BY <4>2, <4>3, <4>4, <4>5 DEF Belongs
      <4>7. "INTRO" \in Types
        BY DEF Types
      <4> HIDE DEF data
      <4>8. \A i \in 1 .. Len(Pack("INTRO", data)) : Labelled(Pack("INTRO", data)[i])
        BY <4>5, <4>6, <4>7, LabelledPack
      <4>9. Pack("INTRO", data) \in Seq(Packet)
        BY <4>5, <4>7, PackType
      <4> QED
        BY <2>3, <2>5, <2>6, <2>19, <3>1, <3>2, <4>8, <4>9 DEF QueueIntro, board
    <3>3. CASE ~all
      <4>1. downlink' = downlink
        BY <3>1, <3>3, ConcatEmptySeq DEF TypeOK
      <4> QED
        BY <2>3, <2>4, <2>5, <2>19, <4>1 DEF QueueIntro, board
    <3> QED
      BY <3>2, <3>3
  <2>20. CASE Leave
    <3>1. downlink' = downlink \/ downlink' = <<>>
      BY <2>20 DEF Leave
    <3>2. LabelsAreTrue'
      BY <2>4, <3>1, EmptySeq DEF LabelsAreTrue
    <3>3. GotMatches'
      BY <2>20, EmptySeq DEF Leave, NoReplies, GotMatches
    <3> QED
      BY <2>5, <2>20, <3>2, <3>3 DEF Leave, board
  <2>21. CASE Restart
    BY <2>21, EmptySeq DEF Restart, InboxMatches, GotMatches, NoReplies, LabelsAreTrue
  <2>22. CASE UNCHANGED vars
    <3>1. InboxMatches'
      BY <2>2, <2>22 DEF vars, board, local, InboxMatches
    <3> QED
      BY <2>3, <2>4, <2>22, <3>1 DEF vars, local
  <2> QED
    BY <2>10, <2>11, <2>12, <2>13, <2>14, <2>15, <2>16, <2>17, <2>18, <2>19, <2>20,
       <2>21, <2>22 DEF Next, Formatter
<1> QED
  BY <1>1, <1>2, TypeCorrect, PTL DEF Spec

\* As long as no reply misses its timeout, the data of every packet is what the
\* type of the packet says, whatever requests and replies are lost.
THEOREM TrueLabels == Spec => []LabelsAreTrueInTime
<1>1. InTime => LabelsAreTrueInTime
  BY DEF InTime, LabelsAreTrueInTime
<1> QED
  BY <1>1, InTimeAlways, PTL

-----------------------------------------------------------------------------
(* What a visit has still to ask.                                          *)

ToAsk(r) == \E i \in 1 .. Len(todo) : todo[i] = r

\* A command is asked alone, and before the poll.
CommandAlone ==
  pc \in {"ask", "await", "answered"} /\ ToAsk("command") => Len(todo) = 1

\* The second sensor, whose reply restarts both, is asked once.
Temp2Once == \A i, j \in 1 .. Len(todo) : todo[i] = "temp2" /\ todo[j] = "temp2" => i = j

\* The sensors have not answered before the poll.
SensorsUnasked ==
  pc \in {"others", "command", "poll"}
    \/ (pc \in {"ask", "await", "answered"} /\ ToAsk("command"))
  => \A s \in Sensors : got[s] = <<>>

\* What a poll without a missing reply has not got it will ask for.
PollUnderWay ==
  /\ pc \in {"ask", "await", "answered", "leave"}
  /\ ~ ToAsk("command")
  /\ counter = 0 /\ ~ zero_found
  => \A i \in 1 .. Len(Poll) :
       \/ got[Poll[i]] # <<>>
       \/ \E j \in 1 .. Len(todo) : todo[j] = Poll[i] /\ (pc = "answered" => j > 1)

\* At its end there is nothing left to ask for.
NothingLeft == pc \in {"others", "command", "poll", "leave"} => todo = <<>>

Visit == CommandAlone /\ Temp2Once /\ SensorsUnasked /\ PollUnderWay /\ NothingLeft

\* The measurement that is on its way, or was answered, is the one a sensor holds.
Current ==
  late = 0 =>
    /\ inbox # <<>> /\ inbox[1].of \in Sensors => inbox[1].number = measurement[inbox[1].of]
    /\ ToAsk("temp2") => \A s \in Sensors : got[s] # <<>> => got[s][1].number = measurement[s]

LEMMA PollParts ==
  /\ \A i \in 1 .. Len(Poll) : Poll[i] # "command"
  /\ \A i, j \in 1 .. Len(Poll) : Poll[i] = "temp2" /\ Poll[j] = "temp2" => i = j
<1> DEFINE a == Asked("power", <<"power">>)
           b == Asked("temperature", <<"temp1", "temp2">>)
           c == Asked("introspection", <<"clock", "state", "error">>)
<1>0. <<>> \in Seq(Requests) /\ Len(<<>>) = 0
  BY EmptySeq
<1>0a. /\ <<"power">> \in Seq(Requests) /\ Len(<<"power">>) = 1
       /\ <<"power">>[1] = "power"
  BY DEF Requests
<1>0b. /\ <<"temp1", "temp2">> \in Seq(Requests) /\ Len(<<"temp1", "temp2">>) = 2
       /\ <<"temp1", "temp2">>[1] = "temp1" /\ <<"temp1", "temp2">>[2] = "temp2"
  BY DEF Requests, Sensors
<1>0c. /\ <<"clock", "state", "error">> \in Seq(Requests)
       /\ Len(<<"clock", "state", "error">>) = 3
       /\ <<"clock", "state", "error">>[1] = "clock"
       /\ <<"clock", "state", "error">>[2] = "state"
       /\ <<"clock", "state", "error">>[3] = "error"
  BY DEF Requests
<1>1. /\ a \in Seq(Requests) /\ Len(a) \in Nat
      /\ \A i \in 1 .. Len(a) : a[i] \notin {"temp2", "command"}
  <2> DEFINE t == <<"power">>
  <2>1. a = t \/ a = <<>>
    BY DEF Asked
  <2>2. t \in Seq(Requests) /\ Len(t) \in Nat
        /\ \A i \in 1 .. Len(t) : t[i] \notin {"temp2", "command"}
    BY <1>0a
  <2>3. <<>> \in Seq(Requests) /\ Len(<<>>) \in Nat
        /\ \A i \in 1 .. Len(<<>>) : <<>>[i] \notin {"temp2", "command"}
    BY <1>0
  <2> HIDE DEF a, t
  <2> QED
    BY <2>1, <2>2, <2>3, Zenon
<1>2. /\ b \in Seq(Requests) /\ Len(b) \in Nat
      /\ \A i \in 1 .. Len(b) : b[i] # "command" /\ (b[i] = "temp2" => i = 2)
  <2> DEFINE t == <<"temp1", "temp2">>
  <2>1. b = t \/ b = <<>>
    BY DEF Asked
  <2>2. t \in Seq(Requests) /\ Len(t) \in Nat
        /\ \A i \in 1 .. Len(t) : t[i] # "command" /\ (t[i] = "temp2" => i = 2)
    BY <1>0b
  <2>3. <<>> \in Seq(Requests) /\ Len(<<>>) \in Nat
        /\ \A i \in 1 .. Len(<<>>) : <<>>[i] # "command" /\ (<<>>[i] = "temp2" => i = 2)
    BY <1>0
  <2> HIDE DEF b, t
  <2> QED
    BY <2>1, <2>2, <2>3, Zenon
<1>3. /\ c \in Seq(Requests) /\ Len(c) \in Nat
      /\ \A i \in 1 .. Len(c) : c[i] \notin {"temp2", "command"}
  <2> DEFINE t == <<"clock", "state", "error">>
  <2>1. c = t \/ c = <<>>
    BY DEF Asked
  <2>2. t \in Seq(Requests) /\ Len(t) \in Nat
        /\ \A i \in 1 .. Len(t) : t[i] \notin {"temp2", "command"}
    BY <1>0c
  <2>3. <<>> \in Seq(Requests) /\ Len(<<>>) \in Nat
        /\ \A i \in 1 .. Len(<<>>) : <<>>[i] \notin {"temp2", "command"}
    BY <1>0
  <2> HIDE DEF c, t
  <2> QED
    BY <2>1, <2>2, <2>3, Zenon
<1>4. Poll = Cat(Cat(a, b), c)
  BY DEF Poll, Cat
<1> HIDE DEF a, b, c
<1> DEFINE ab == Cat(a, b)
           p  == Cat(ab, c)
<1>5. /\ ab \in Seq(Requests) /\ Len(ab) = Len(a) + Len(b)
      /\ \A i \in 1 .. Len(a) + Len(b) : ab[i] = IF i <= Len(a) THEN a[i] ELSE b[i - Len(a)]
  BY <1>1, <1>2, CatProperties
<1> HIDE DEF ab
<1>6. /\ Len(p) = Len(ab) + Len(c)
      /\ \A i \in 1 .. Len(ab) + Len(c) : p[i] = IF i <= Len(ab) THEN ab[i] ELSE c[i - Len(ab)]
  BY <1>3, <1>5, CatProperties
<1> HIDE DEF p
<1>7. ASSUME NEW i \in 1 .. Len(ab) PROVE ab[i] # "command" /\ (ab[i] = "temp2" => i = Len(a) + 2)
  <2>1. CASE i <= Len(a)
    <3>1. i \in 1 .. Len(a) /\ ab[i] = a[i]
      BY <1>1, <1>2, <1>5, <2>1
    <3> QED
      BY <1>1, <3>1
  <2>2. CASE ~ (i <= Len(a))
    <3>1. i - Len(a) \in 1 .. Len(b) /\ ab[i] = b[i - Len(a)]
      BY <1>1, <1>2, <1>5, <2>2
    <3>2. i - Len(a) = 2 => i = Len(a) + 2
      BY <1>1
    <3> QED
      BY <1>2, <3>1, <3>2
  <2> QED
    BY <2>1, <2>2
<1>8. ASSUME NEW i \in 1 .. Len(p) PROVE p[i] # "command" /\ (p[i] = "temp2" => i = Len(a) + 2)
  <2>1. CASE i <= Len(ab)
    <3>1. i \in 1 .. Len(ab) /\ p[i] = ab[i]
      BY <1>1, <1>2, <1>3, <1>5, <1>6, <2>1
    <3> QED
      BY <1>7, <3>1
  <2>2. CASE ~ (i <= Len(ab))
    <3>1. i - Len(ab) \in 1 .. Len(c) /\ p[i] = c[i - Len(ab)]
      BY <1>1, <1>2, <1>3, <1>5, <1>6, <2>2
    <3> QED
      BY <1>3, <3>1
  <2> QED
    BY <2>1, <2>2
<1>9. Poll = p
  BY <1>4 DEF p, ab
<1> QED
  BY <1>8, <1>9, Zenon

LEMMA TailParts ==
  ASSUME NEW S, NEW s \in Seq(S), s # <<>>
  PROVE  \A i \in 1 .. Len(Tail(s)) : i + 1 \in 1 .. Len(s) /\ Tail(s)[i] = s[i + 1]
<1>1. Len(s) \in Nat \ {0} /\ Len(Tail(s)) = Len(s) - 1
  BY HeadTail
<1>2. \A i \in 1 .. Len(Tail(s)) : Tail(s)[i] = s[i + 1]
  BY HeadTailProperties
<1> QED
  BY <1>1, <1>2

\* A reply to the current request, and going on to the next one.
LEMMA VisitGoesOn ==
  ASSUME TypeOK, Visit, pc = "answered", GoOn, UNCHANGED <<got, zero_found, counter, enable>>
  PROVE  Visit'
<1>0. /\ todo \in Seq(Requests) /\ todo # <<>> /\ todo' = Tail(todo)
      /\ Len(todo) \in Nat \ {0} /\ Len(todo') = Len(todo) - 1 /\ Head(todo) = todo[1]
      /\ todo' \in Seq(Requests)
  BY HeadTail DEF TypeOK, GoOn
<1>1. \A i \in 1 .. Len(todo') : i + 1 \in 1 .. Len(todo) /\ todo'[i] = todo[i + 1]
  BY <1>0, TailParts
<1>2. todo' = <<>> <=> Len(todo) = 1
  <2>1. todo' = <<>> => Len(todo') = 0
    BY EmptySeq
  <2>2. todo' # <<>> => Len(todo') \in Nat \ {0}
    BY <1>0, EmptySeq
  <2> QED
    BY <1>0, <2>1, <2>2
<1>3. pc' = IF Head(todo) = "command" THEN "poll"
            ELSE IF todo' = <<>> THEN "leave" ELSE "ask"
  BY <1>0 DEF GoOn
<1>4. 1 \in 1 .. Len(todo)
  BY <1>0
<1>5. ToAsk("command") => Len(todo) = 1 /\ Head(todo) = "command"
  <2>1. ToAsk("command") => Len(todo) = 1
    BY DEF Visit, CommandAlone
  <2> QED
    BY <1>0, <2>1 DEF ToAsk
<1>6. Head(todo) = "command" => ToAsk("command")
  BY <1>0, <1>4 DEF ToAsk
<1>7. ~ ToAsk("command")'
  <2>1. ToAsk("command")' => ToAsk("command")
    BY <1>1 DEF ToAsk
  <2>2. Len(todo) = 1 => ~ ToAsk("command")'
    BY <1>0 DEF ToAsk
  <2> QED
    BY <1>5, <2>1, <2>2
<1>8. CommandAlone'
  BY <1>7 DEF CommandAlone
<1>9. Temp2Once'
  <2> SUFFICES ASSUME NEW i \in 1 .. Len(todo'), NEW j \in 1 .. Len(todo'),
                      todo'[i] = "temp2", todo'[j] = "temp2"
               PROVE  i = j
    BY DEF Temp2Once
  <2>1. i + 1 = j + 1
    BY <1>1 DEF Visit, Temp2Once
  <2>2. i \in Int /\ j \in Int
    OBVIOUS
  <2> QED
    BY ONLY <2>1, <2>2
<1>10. SensorsUnasked'
  <2>1. CASE Head(todo) = "command"
    BY <1>6, <2>1 DEF Visit, SensorsUnasked
  <2>2. CASE Head(todo) # "command"
    <3>1. pc' \in {"leave", "ask"}
      BY <1>3, <2>2
    <3> QED
      BY <1>7, <3>1 DEF SensorsUnasked
  <2> QED
    BY <2>1, <2>2
<1>11. PollUnderWay'
  <2>1. CASE Head(todo) = "command"
    <3>1. pc' = "poll"
      BY <1>3, <2>1, Zenon
    <3> QED
      BY ONLY <3>1, Zenon DEF PollUnderWay
  <2>2. CASE Head(todo) # "command"
    <3>1. Poll' = Poll
      BY DEF Poll, Asked
    <3> SUFFICES ASSUME counter = 0, ~ zero_found, NEW i \in 1 .. Len(Poll), got[Poll[i]] = <<>>
                 PROVE  \E j \in 1 .. Len(todo') : todo'[j] = Poll[i]
      <4>1. pc' # "answered"
        BY <1>3
      <4> QED
        BY <3>1, <4>1 DEF PollUnderWay
    <3>2. ~ ToAsk("command")
      BY <1>5, <2>2
    <3>3. PICK j \in 1 .. Len(todo) : todo[j] = Poll[i] /\ j > 1
      BY <3>2 DEF Visit, PollUnderWay
    <3>4. j - 1 \in 1 .. Len(todo') /\ (j - 1) + 1 = j
      BY <1>0, <3>3
    <3> QED
      BY <1>1, <3>3, <3>4
  <2> QED
    BY <2>1, <2>2
<1>12. NothingLeft'
  <2>1. CASE Head(todo) = "command"
    BY <1>2, <1>5, <1>6, <2>1 DEF NothingLeft
  <2>2. CASE Head(todo) # "command"
    BY <1>3, <2>2 DEF NothingLeft
  <2> QED
    BY <2>1, <2>2
<1> QED
  BY <1>8, <1>9, <1>10, <1>11, <1>12 DEF Visit

LEMMA NothingAsked ==
  ASSUME todo' = <<>>
  PROVE  /\ \A r : ~ ToAsk(r)'
         /\ CommandAlone' /\ Temp2Once'
<1>1. \A i : ~ (i \in 1 .. Len(<<>>))
  BY EmptySeq
<1> QED
  BY <1>1 DEF ToAsk, CommandAlone, Temp2Once

\* Outside a poll.
LEMMA Idle ==
  ASSUME todo' = <<>>, pc' \in {"others", "command", "poll"}, \A s \in Sensors : got'[s] = <<>>
  PROVE  Visit'
BY NothingAsked DEF Visit, SensorsUnasked, PollUnderWay, NothingLeft

LEMMA VisitStep ==
  ASSUME TypeOK, Visit, [Next]_vars
  PROVE  Visit'
<1>0. /\ todo \in Seq(Requests) /\ got \in [Requests -> Seq(Reply)] /\ Sensors \subseteq Requests
      /\ (pc \in {"ask", "await", "answered"} => todo # <<>>)
  BY DEF TypeOK, Requests
<1>1. CASE OtherVisits
  <2>1. todo' = <<>> /\ pc' = "command" /\ \A s \in Sensors : got'[s] = <<>>
    BY <1>1 DEF OtherVisits, Visit, NothingLeft, SensorsUnasked
  <2> QED
    BY <2>1, Idle
<1>2. CASE Command
  <2>1. UNCHANGED got /\ \A s \in Sensors : got[s] = <<>>
    BY <1>2 DEF Command, Visit, SensorsUnasked
  <2>2. CASE pc' = "poll" /\ todo' = <<>>
    BY <2>1, <2>2, Idle
  <2>3. CASE pc' = "ask" /\ todo' = <<"command">>
    <3>1. Len(todo') = 1 /\ todo'[1] = "command"
      BY <2>3
    <3>2. \A i \in 1 .. 1 : i = 1
      OBVIOUS
    <3>3. ToAsk("command")' /\ CommandAlone' /\ Temp2Once'
      BY <3>1, <3>2 DEF ToAsk, CommandAlone, Temp2Once
    <3> QED
      BY <2>1, <2>3, <3>3 DEF Visit, SensorsUnasked, PollUnderWay, NothingLeft
  <2> QED
    BY <1>2, <2>2, <2>3 DEF Command
<1>3. CASE StartPoll
  <2>1. /\ todo' = IF counter = 0 THEN Poll ELSE <<>>
        /\ pc' = IF todo' = <<>> THEN "leave" ELSE "ask"
        /\ UNCHANGED <<got, zero_found, enable, counter>>
    BY <1>3 DEF StartPoll, DueNow
  <2>2. Poll' = Poll
    BY <2>1 DEF Poll, Asked
  <2>3. CASE todo' = <<>>
    <3>1. pc' = "leave"
      BY <2>1, <2>3
    <3>2. counter = 0 => Poll = <<>>
      BY <2>1, <2>3
    <3>3. \A i : ~ (i \in 1 .. Len(<<>>))
      BY EmptySeq
    <3>4. PollUnderWay'
      BY <2>1, <2>2, <3>2, <3>3 DEF PollUnderWay
    <3> QED
      BY <2>3, <3>1, <3>4, NothingAsked DEF Visit, SensorsUnasked, NothingLeft
  <2>4. CASE todo' # <<>>
    <3>1. pc' = "ask" /\ todo' = Poll
      BY <2>1, <2>4
    <3>2. ~ ToAsk("command")'
      BY <3>1, PollParts DEF ToAsk
    <3>3. Temp2Once'
      BY <3>1, PollParts DEF Temp2Once
    <3>4. PollUnderWay'
      BY <2>2, <3>1 DEF PollUnderWay
    <3> QED
      BY <3>1, <3>2, <3>3, <3>4 DEF Visit, CommandAlone, SensorsUnasked, NothingLeft
  <2> QED
    BY <2>3, <2>4
<1>4. CASE Ask
  <2>1. pc' = "await" /\ UNCHANGED <<todo, got, zero_found, counter, enable>> /\ pc = "ask"
    BY <1>4 DEF Ask
  <2>2. Poll' = Poll
    BY <2>1 DEF Poll, Asked
  <2> QED
    BY <2>1, <2>2 DEF Visit, CommandAlone, Temp2Once, SensorsUnasked, PollUnderWay, NothingLeft,
                      ToAsk
<1>5. CASE Receive
  <2> DEFINE r == Head(todo)
  <2>1. /\ pc' = "answered" /\ UNCHANGED <<todo, zero_found, counter, enable>> /\ pc = "await"
        /\ got' = [got EXCEPT ![r] = <<Head(inbox)>>]
    BY <1>5 DEF Receive
  <2>2. /\ r \in Requests /\ r = todo[1] /\ Len(todo) \in Nat \ {0} /\ 1 \in 1 .. Len(todo)
    BY <1>0, <2>1, HeadTail
  <2> HIDE DEF r
  <2>3. <<Head(inbox)>> # <<>>
    OBVIOUS
  <2>4. got'[r] # <<>> /\ \A q \in Requests : q # r => got'[q] = got[q]
    BY <1>0, <2>1, <2>2, <2>3
  <2>5. Poll' = Poll /\ ToAsk("command")' = ToAsk("command")
    BY <2>1 DEF Poll, Asked, ToAsk
  <2>6. CommandAlone' /\ Temp2Once' /\ NothingLeft'
    BY <2>1, <2>5 DEF Visit, CommandAlone, Temp2Once, NothingLeft
  <2>7. SensorsUnasked'
    <3>1. ToAsk("command") => r = "command"
      BY <2>1, <2>2 DEF ToAsk, Visit, CommandAlone
    <3>2. "command" \notin Sensors
      BY DEF Sensors
    <3> QED
      BY <1>0, <2>1, <2>4, <2>5, <3>1, <3>2 DEF Visit, SensorsUnasked
  <2>8. PollUnderWay'
    <3> SUFFICES ASSUME ~ ToAsk("command"), counter = 0, ~ zero_found, NEW i \in 1 .. Len(Poll),
                        got'[Poll[i]] = <<>>
                 PROVE  \E j \in 1 .. Len(todo) : todo[j] = Poll[i] /\ j > 1
      BY <2>1, <2>5 DEF PollUnderWay
    <3>1. Poll[i] \in Requests
      BY PollType, ElementOfSeq
    <3>2. Poll[i] # r /\ got[Poll[i]] = <<>>
      BY <2>4, <3>1
    <3>3. PICK j \in 1 .. Len(todo) : todo[j] = Poll[i]
      BY <2>1, <3>2 DEF Visit, PollUnderWay
    <3>4. j # 1
      BY <2>2, <3>2, <3>3
    <3>5. j > 1
      BY <2>2, <3>4
    <3> QED
      BY <3>3, <3>5
  <2> QED
    BY <2>6, <2>7, <2>8 DEF Visit
<1>6. CASE Timeout
  <2>1. /\ UNCHANGED <<todo, counter, enable, got>> /\ pc = "await"
        /\ \/ UNCHANGED <<pc, zero_found>>
           \/ pc' = "answered" /\ zero_found' = (zero_found \/ Head(todo) # "command")
    BY <1>6 DEF Timeout
  <2>2. Poll' = Poll /\ ToAsk("command")' = ToAsk("command")
    BY <2>1 DEF Poll, Asked, ToAsk
  <2>3. CommandAlone' /\ Temp2Once' /\ NothingLeft' /\ SensorsUnasked'
    BY <2>1, <2>2 DEF Visit, CommandAlone, Temp2Once, NothingLeft, SensorsUnasked
  <2>4. PollUnderWay'
    <3>1. CASE UNCHANGED <<pc, zero_found>>
      BY <2>1, <2>2, <3>1 DEF Visit, PollUnderWay
    <3>2. CASE pc' = "answered" /\ zero_found' = (zero_found \/ Head(todo) # "command")
      <4>1. ~ ToAsk("command") => Head(todo) # "command"
        <5>1. 1 \in 1 .. Len(todo) /\ Head(todo) = todo[1]
          BY <1>0, <2>1, HeadTail
        <5> QED
          BY <5>1 DEF ToAsk
      <4> QED
        BY <2>1, <2>2, <3>2, <4>1 DEF PollUnderWay
    <3> QED
      BY <2>1, <3>1, <3>2
  <2> QED
    BY <2>3, <2>4 DEF Visit
<1>7. CASE Keep \/ QueueReply \/ QueueTemperatures \/ QueueIntro
  <2>1. pc = "answered" /\ GoOn /\ UNCHANGED <<got, zero_found, counter, enable>>
    BY <1>7 DEF Keep, QueueReply, QueueTemperatures, QueueIntro
  <2> QED
    BY <2>1, VisitGoesOn
<1>8. CASE Leave
  <2>1. todo' = <<>> /\ pc' = "others" /\ \A s \in Sensors : got'[s] = <<>>
    BY <1>8 DEF Leave, Visit, NothingLeft, NoReplies, Requests
  <2> QED
    BY <2>1, Idle
<1>9. CASE Restart
  <2>1. todo' = <<>> /\ pc' = "others" /\ \A s \in Sensors : got'[s] = <<>>
    BY <1>9 DEF Restart, NoReplies, Requests
  <2> QED
    BY <2>1, Idle
<1>10. CASE UNCHANGED vars
  <2>1. UNCHANGED <<pc, todo, got, zero_found, counter, enable>>
    BY <1>10 DEF vars, local
  <2>2. Poll' = Poll
    BY <2>1 DEF Poll, Asked
  <2> QED
    BY <2>1, <2>2 DEF Visit, CommandAlone, Temp2Once, SensorsUnasked, PollUnderWay, NothingLeft,
                      ToAsk
<1> QED
  BY <1>1, <1>2, <1>3, <1>4, <1>5, <1>6, <1>7, <1>8, <1>9, <1>10 DEF Next, Formatter

THEOREM VisitAlways == Spec => []Visit
<1>1. Init => Visit
  <2> SUFFICES ASSUME Init PROVE Visit
    OBVIOUS
  <2>1. todo = <<>> /\ pc = "others" /\ \A s \in Sensors : got[s] = <<>>
    BY DEF Init, NoReplies, Requests
  <2>2. \A i : ~ (i \in 1 .. Len(<<>>))
    BY EmptySeq
  <2> QED
    BY <2>1, <2>2 DEF Visit, CommandAlone, Temp2Once, SensorsUnasked, PollUnderWay, NothingLeft,
                      ToAsk
<1>2. TypeOK /\ Visit /\ [Next]_vars => Visit'
  BY VisitStep
<1> QED
  BY <1>1, <1>2, TypeCorrect, PTL DEF Spec

\* The counter leaves 0 only after a poll that got all its replies.
THEOREM CompletePolls == Spec => CountedWhenComplete
<1>1. TypeOK /\ Visit /\ [Next]_vars => [counter = 0 /\ counter' # 0 => CompletePoll]_vars
  <2> SUFFICES ASSUME TypeOK, Visit, Next, counter = 0, counter' # 0
               PROVE  CompletePoll
    BY DEF vars
  <2>1. Leave
    BY DEF Next, Formatter, OtherVisits, Command, StartPoll, Ask, Receive, Timeout, Keep,
           QueueReply, QueueTemperatures, QueueIntro, Restart
  <2>2. ~ zero_found /\ pc = "leave"
    BY <2>1 DEF Leave, CountAfter
  <2>3. todo = <<>>
    BY <2>2 DEF Visit, NothingLeft
  <2>4. \A i : ~ (i \in 1 .. Len(todo))
    BY <2>3, EmptySeq
  <2> QED
    BY <2>2, <2>4 DEF Visit, PollUnderWay, CompletePoll, ToAsk
<1> QED
  BY <1>1, TypeCorrect, VisitAlways, PTL DEF Spec, CountedWhenComplete

-----------------------------------------------------------------------------
(* Measurements.                                                           *)

LEMMA CurrentStep ==
  ASSUME TypeOK, Visit, InTime, Current, [Next]_vars
  PROVE  Current'
<1> SUFFICES ASSUME late' = 0
             PROVE  /\ inbox' # <<>> /\ inbox'[1].of \in Sensors =>
                         inbox'[1].number = measurement'[inbox'[1].of]
                    /\ ToAsk("temp2")' =>
                         \A s \in Sensors : got'[s] # <<>> => got'[s][1].number = measurement'[s]
  BY DEF Current
<1>0. late = 0
  <2>1. late' = late \/ \E n \in {0, 1} : late' = late + n
    BY DEF Next, Formatter, OtherVisits, Command, StartPoll, Ask, Receive, Timeout,
           Delay, Keep, QueueReply, QueueTemperatures, QueueIntro, Leave, Restart,
           vars, bound
  <2> QED
    BY <2>1, BoundsAssumption DEF TypeOK
<1>1. InboxMatches /\ GotMatches
  BY <1>0 DEF InTime
<1>2. /\ inbox # <<>> /\ inbox[1].of \in Sensors => inbox[1].number = measurement[inbox[1].of]
      /\ ToAsk("temp2") => \A s \in Sensors : got[s] # <<>> => got[s][1].number = measurement[s]
  BY <1>0 DEF Current
<1>3. /\ todo \in Seq(Requests) /\ got \in [Requests -> Seq(Reply)] /\ Sensors \subseteq Requests
      /\ (pc \in {"ask", "await", "answered"} => todo # <<>>) /\ inbox \in Seq(Reply)
      /\ measurement \in [Sensors -> 0 .. Measurements - 1]
  BY DEF TypeOK, Requests
<1>4. pc # "await" => inbox = <<>>
  BY <1>1 DEF InboxMatches
<1>5. \A r : todo' = <<>> => ~ ToAsk(r)'
  BY NothingAsked
<1>6. CASE UNCHANGED <<inbox, measurement, todo, got>>
  BY <1>2, <1>6 DEF ToAsk
<1>7. CASE OtherVisits \/ Timeout
  BY <1>6, <1>7 DEF OtherVisits, Timeout, board
<1>8. CASE Command
  <2>1. inbox' = <<>>
    BY <1>4, <1>8 DEF Command
  <2>2. todo' = <<>> \/ todo' = <<"command">>
    BY <1>8 DEF Command
  <2>3. todo' = <<"command">> => ~ ToAsk("temp2")'
    <3>1. Len(<<"command">>) = 1 /\ <<"command">>[1] = "command"
      OBVIOUS
    <3>2. \A i \in 1 .. 1 : i = 1
      OBVIOUS
    <3> QED
      BY <3>1, <3>2 DEF ToAsk
  <2> QED
    BY <1>5, <2>1, <2>2, <2>3
<1>9. CASE StartPoll
  <2>1. inbox' = <<>> /\ UNCHANGED got
    BY <1>4, <1>9 DEF StartPoll, board
  <2>2. \A s \in Sensors : got[s] = <<>>
    BY <1>9 DEF StartPoll, Visit, SensorsUnasked
  <2> QED
    BY <2>1, <2>2
<1>10. CASE Ask
  <2>1. inbox = <<>> /\ UNCHANGED <<todo, got, measurement>>
    BY <1>4, <1>10 DEF Ask
  <2>2. inbox' = <<>> \/ inbox' = <<AnswerTo(Head(todo))>>
    BY <1>10, <2>1 DEF Ask
  <2>3. inbox' # <<>> /\ inbox'[1].of \in Sensors => inbox'[1].number = measurement[inbox'[1].of]
    BY <2>2 DEF AnswerTo
  <2> QED
    BY <1>2, <2>1, <2>3 DEF ToAsk
<1>11. CASE Receive
  <2> DEFINE r == Head(todo)
             x == Head(inbox)
  <2>1. /\ r \in Requests /\ x = inbox[1] /\ Len(Tail(inbox)) = Len(inbox) - 1
        /\ Tail(inbox) \in Seq(Reply)
    BY <1>3, <1>11, HeadTail DEF Receive
  <2>2. Len(inbox) = 1 /\ inbox[1].of = r
    BY <1>1, <1>11 DEF Receive, InboxMatches
  <2>3. inbox' = <<>>
    BY <1>11, <2>1, <2>2, EmptySeq DEF Receive
  <2>4. got' = [got EXCEPT ![r] = <<x>>] /\ UNCHANGED <<todo, measurement>> /\ inbox # <<>>
    BY <1>11 DEF Receive
  <2> HIDE DEF r, x
  <2>5. r \in Sensors => x.number = measurement[r]
    BY <1>2, <2>1, <2>2, <2>4
  <2>6. ASSUME ToAsk("temp2"), NEW s \in Sensors, got'[s] # <<>>
        PROVE  got'[s][1].number = measurement[s]
    <3>1. CASE s = r
      <4>1. got'[s] = <<x>>
        BY <1>3, <2>1, <2>4, <3>1
      <4>2. got'[s][1] = x
        BY <4>1
      <4> QED
        BY <2>5, <3>1, <4>2
    <3>2. CASE s # r
      <4>1. got'[s] = got[s]
        BY <1>3, <2>4, <3>2
      <4> QED
        BY <1>2, <2>6, <4>1
    <3> QED
      BY <3>1, <3>2
  <2> QED
    BY <2>3, <2>4, <2>6 DEF ToAsk
<1>12. ASSUME pc = "answered", GoOn, UNCHANGED <<inbox, got>>,
              UNCHANGED measurement \/ Head(todo) = "temp2"
       PROVE  /\ inbox' = <<>>
              /\ ToAsk("temp2")' =>
                   \A s \in Sensors : got'[s] # <<>> => got'[s][1].number = measurement'[s]
  <2>1. inbox' = <<>>
    BY <1>4, <1>12
  <2>2. todo # <<>> /\ todo' = Tail(todo)
    BY <1>3, <1>12 DEF GoOn
  <2>3. \A i \in 1 .. Len(todo') : i + 1 \in 1 .. Len(todo) /\ todo'[i] = todo[i + 1]
    BY <1>3, <2>2, TailParts
  <2>4. ToAsk("temp2")' => ToAsk("temp2")
    BY <2>3 DEF ToAsk
  <2>5. Head(todo) = "temp2" => ~ ToAsk("temp2")'
    <3> SUFFICES ASSUME Head(todo) = "temp2", NEW i \in 1 .. Len(todo'), todo'[i] = "temp2"
                 PROVE  FALSE
      BY DEF ToAsk
    <3>1. 1 \in 1 .. Len(todo) /\ todo[1] = "temp2"
      BY <1>3, <2>2, HeadTail
    <3>2. i + 1 = 1
      BY <2>3, <3>1 DEF Visit, Temp2Once
    <3>3. i \in Nat /\ i # 0
      OBVIOUS
    <3> QED
      BY ONLY <3>2, <3>3
  <2> QED
    BY <1>2, <1>12, <2>1, <2>4, <2>5
<1>13. CASE Keep \/ QueueReply \/ QueueIntro
  <2>1. pc = "answered" /\ GoOn /\ UNCHANGED <<inbox, got, measurement>>
    BY <1>13 DEF Keep, QueueReply, QueueIntro, board
  <2> QED
    BY <1>12, <2>1
<1>14. CASE QueueTemperatures
  <2>1. pc = "answered" /\ GoOn /\ UNCHANGED <<inbox, got>> /\ Head(todo) = "temp2"
    BY <1>14 DEF QueueTemperatures
  <2> QED
    BY <1>12, <2>1
<1>15. CASE Leave
  <2>1. UNCHANGED <<inbox, todo, measurement>> /\ todo = <<>> /\ inbox = <<>>
    BY <1>4, <1>15 DEF Leave, board, Visit, NothingLeft
  <2> QED
    BY <1>5, <2>1
<1>16. CASE Restart
  <2>1. inbox' = <<>> /\ todo' = <<>>
    BY <1>16 DEF Restart
  <2> QED
    BY <1>5, <2>1
<1>17. CASE UNCHANGED vars
  BY <1>6, <1>17 DEF vars, board, local
<1> QED
  BY <1>7, <1>8, <1>9, <1>10, <1>11, <1>13, <1>14, <1>15, <1>16, <1>17 DEF Next, Formatter

THEOREM CurrentAlways == Spec => []Current
<1>1. Init => Current
  <2> SUFFICES ASSUME Init PROVE Current
    OBVIOUS
  <2>1. inbox = <<>> /\ \A s \in Sensors : got[s] = <<>>
    BY DEF Init, NoReplies, Requests
  <2> QED
    BY <2>1 DEF Current
<1>2. TypeOK /\ Visit /\ InTime /\ Current /\ [Next]_vars => Current'
  BY CurrentStep
<1> QED
  BY <1>1, <1>2, TypeCorrect, VisitAlways, InTimeAlways, PTL DEF Spec

\* No measurement is overwritten before it was queued, whatever is lost.
THEOREM NothingSkipped == Spec => NoMeasurementSkipped
<1>1. TypeOK /\ Current /\ [Next]_vars =>
        [late = 0 => \A s \in Sensors :
           measurement'[s] # measurement[s] =>
             sent'[s] = measurement[s] \/ pc = "command" \/ Restart]_vars
  <2> SUFFICES ASSUME TypeOK, Current, Next, late = 0, NEW s \in Sensors,
                      measurement'[s] # measurement[s], pc # "command", ~ Restart
               PROVE  sent'[s] = measurement[s]
    OBVIOUS
  <2>1. QueueTemperatures
    BY DEF Next, Formatter, OtherVisits, Command, StartPoll, Ask, Receive, Timeout, Keep,
           QueueReply, QueueIntro, Leave, board
  <2>2. PICK started \in SUBSET ToRestart : Measure(started)
    BY <2>1 DEF QueueTemperatures
  <2>3. measurement \in [Sensors -> 0 .. Measurements - 1]
    BY DEF TypeOK
  <2>4. s \in started
    BY <2>2, <2>3 DEF Measure
  <2>5. got[s] # <<>>
    BY <2>2, <2>4 DEF ToRestart
  <2>6. sent'[s] = got[s][1].number
    BY <2>1, <2>5 DEF QueueTemperatures
  <2>7. ToAsk("temp2")
    <3>1. todo \in Seq(Requests) /\ todo # <<>> /\ Head(todo) = "temp2"
      BY <2>1 DEF TypeOK, QueueTemperatures
    <3>2. 1 \in 1 .. Len(todo) /\ Head(todo) = todo[1]
      BY <3>1, HeadTail
    <3> QED
      BY <3>1, <3>2 DEF ToAsk
  <2> QED
    BY <2>5, <2>6, <2>7 DEF Current
<1> QED
  BY <1>1, TypeCorrect, CurrentAlways, PTL DEF Spec, NoMeasurementSkipped
=============================================================================
