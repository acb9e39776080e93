------------------------- MODULE CommandUplinkProofs -------------------------
(* Theorems about CommandUplink, for all visits, systems, decks, sizes and    *)
(* bounds that satisfy DeckAssumption and LimitsAssumption.                   *)
EXTENDS CommandUplink, SequenceTheorems, TLAPS

-----------------------------------------------------------------------------
(* The types, in groups of variables that change together.                    *)

Idle == pc \in {"uplink", "flush", "dispatch"}
Busy == pc \in {"send", "await", "judge", "finished"}

LineOK ==
  /\ uplinked \in Seq(Uplinks) /\ half \in BOOLEAN /\ uart \in Seq(Bytes)
  /\ half => uplinked # <<>>

\* A command is sent to a system of the visit.
VisitOK ==
  /\ visit \in 1 .. Len(Cycle) /\ place \in 1 .. Len(Cycle[visit]) + 1
  /\ Idle \/ Busy
  /\ Busy => place <= Len(Cycle[visit])
  /\ pairs \in 0 .. PairsMax - 1 /\ attempts \in 0 .. RetryMax - 1

QueuesOK ==
  /\ uplink_buffer \in [Queued -> Seq(Bytes)]
  /\ dispatched \in [Queued -> Seq(Bytes)]
  /\ counter \in 0 .. CounterMod - 1

StreamOK ==
  /\ net \in Seq(Unit) /\ closed \in BOOLEAN /\ late \in BOOLEAN
  /\ torn \in 0 .. MaxTorn /\ faults \in 0 .. MaxFaults

\* Between commands the locals are as if new; and a command is sent at most
\* once for each try.
SendingOK ==
  /\ kind \in Kinds /\ try_counter \in 0 .. TriesMax - 1 /\ write_again \in BOOLEAN
  /\ reply \in Seq(Unit) /\ confirmed \in BOOLEAN
  /\ sends \in Nat /\ accepted \in 0 .. sends
  /\ sends <= try_counter + 1
  /\ pc = "send" => sends <= try_counter
  /\ Idle => reply = <<>> /\ try_counter = 0 /\ sends = 0 /\ ~confirmed
  /\ Busy => kind \in {"write", "write only", "read"}

RecordOK ==
  /\ errors \in [Managers -> SUBSET ErrorFlags]
  /\ failed \subseteq Queued

Typed == LineOK /\ VisitOK /\ QueuesOK /\ StreamOK /\ SendingOK /\ RecordOK

LEMMA TypedSuffices == Typed => TypeOK
<1> SUFFICES ASSUME Typed PROVE TypeOK
  OBVIOUS
<1>1. TriesMax \in Nat \ {0}
  BY LimitsAssumption
<1>2. try_counter \in 0 .. TriesMax - 1 /\ sends \in Nat /\ sends <= try_counter + 1
  BY DEF Typed, SendingOK
<1>3. sends \in 0 .. TriesMax
  BY <1>1, <1>2
<1> QED
  BY <1>3 DEF Typed, TypeOK, LineOK, VisitOK, QueuesOK, StreamOK, SendingOK, RecordOK,
              Idle, Busy

-----------------------------------------------------------------------------
(* Facts about the constants and the operators.                               *)

LEMMA Limits ==
  /\ PairsMax \in Nat \ {0} /\ TriesMax \in Nat \ {0} /\ RetryMax \in Nat \ {0}
  /\ WriteSize \in Nat \ {0} /\ ReadSize \in Nat \ {0} /\ CounterMod \in Nat \ {0}
  /\ MaxUplinks \in Nat /\ MaxTorn \in Nat /\ MaxFaults \in Nat
BY LimitsAssumption

LEMMA DropType ==
  ASSUME NEW S, NEW s \in Seq(S), NEW k \in 0 .. Len(s)
  PROVE  /\ Drop(s, k) \in Seq(S)
         /\ Len(Drop(s, k)) = Len(s) - k
         /\ \A i \in 1 .. Len(s) - k : Drop(s, k)[i] = s[i + k]
<1>1. Len(s) \in Nat /\ k \in Nat /\ k <= Len(s)
  BY LenProperties
<1>2. \A i \in k + 1 .. Len(s) : s[i] \in S
  BY <1>1, ElementOfSeq
<1>3. /\ SubSeq(s, k + 1, Len(s)) \in Seq(S)
      /\ Len(SubSeq(s, k + 1, Len(s))) =
           IF k + 1 <= Len(s) THEN Len(s) - (k + 1) + 1 ELSE 0
      /\ \A i \in 1 .. Len(s) - (k + 1) + 1 : SubSeq(s, k + 1, Len(s))[i] = s[k + 1 + i - 1]
  BY <1>1, <1>2, SubSeqProperties
<1> DEFINE d == SubSeq(s, k + 1, Len(s))
<1> HIDE DEF d
<1>4. d \in Seq(S) /\ Len(d) = Len(s) - k
  BY <1>1, <1>3 DEF d
<1>5. ASSUME NEW i \in 1 .. Len(s) - k PROVE d[i] = s[i + k]
  <2>1. i \in 1 .. Len(s) - (k + 1) + 1 /\ k + 1 + i - 1 = i + k
    BY <1>1
  <2>2. d[i] = s[k + 1 + i - 1]
    BY <1>3, <2>1 DEF d
  <2> QED
    BY <2>1, <2>2
<1> QED
  BY <1>4, <1>5 DEF Drop, d

LEMMA CycleOK == Cycle \in Seq(Seq(Queued)) /\ Len(Cycle) \in Nat \ {0}
  BY DeckAssumption, EmptySeq, LenProperties

LEMMA VisitType ==
  ASSUME NEW v \in 1 .. Len(Cycle)
  PROVE  /\ Cycle[v] \in Seq(Queued) /\ Len(Cycle[v]) \in Nat
         /\ \A p \in 1 .. Len(Cycle[v]) : Cycle[v][p] \in Queued
<1>1. Cycle[v] \in Seq(Queued)
  BY CycleOK, ElementOfSeq
<1> QED
  BY <1>1, ElementOfSeq, LenProperties

\* While a command is sent, or if there is a system to serve, it has a queue.
LEMMA SysType ==
  ASSUME VisitOK, Busy \/ Served(visit, place)
  PROVE  sys \in Queued
<1>1. place \in 1 .. Len(Cycle[visit])
  BY VisitType DEF VisitOK, Served
<1> QED
  BY <1>1, VisitType DEF VisitOK, sys

LEMMA BodyType ==
  ASSUME NEW c \in Managers \X Nat, NEW k \in Nat
  PROVE  /\ Body(c, k) \in Seq(Unit) /\ Len(Body(c, k)) = k
         /\ \A i \in 1 .. k : Body(c, k)[i].to = c
BY DEF Body, Unit

LEMMA WriteReplyType ==
  ASSUME NEW c \in Managers \X Nat, NEW s \in {"ok", "bad"}
  PROVE  /\ WriteReply(c, s) \in Seq(Unit) /\ Len(WriteReply(c, s)) = WriteSize
         /\ \A i \in 1 .. WriteSize : WriteReply(c, s)[i].to = c
         /\ WriteReply(c, s)[WriteSize].status = s
<1> DEFINE b == Body(c, WriteSize - 1)
           u == [to |-> c, status |-> s]
<1>1. WriteSize - 1 \in Nat
  BY Limits
<1>2. b \in Seq(Unit) /\ Len(b) = WriteSize - 1 /\ \A i \in 1 .. WriteSize - 1 : b[i].to = c
  BY <1>1, BodyType
<1>3. u \in Unit /\ u.to = c /\ u.status = s
  BY DEF Unit
<1> HIDE DEF b, u
<1>4. /\ Append(b, u) \in Seq(Unit) /\ Len(Append(b, u)) = Len(b) + 1
      /\ \A i \in 1 .. Len(b) : Append(b, u)[i] = b[i]
      /\ Append(b, u)[Len(b) + 1] = u
  BY <1>2, <1>3, AppendProperties
<1>5. Len(b) + 1 = WriteSize
  BY <1>2, Limits
<1>6. \A i \in 1 .. WriteSize : Append(b, u)[i].to = c
  BY <1>2, <1>3, <1>4, <1>5, Limits
<1> QED
  BY <1>3, <1>4, <1>5, <1>6 DEF WriteReply, b, u

LEMMA CommandType ==
  ASSUME VisitOK, QueuesOK, Busy
  PROVE  command \in Managers \X Nat
<1>1. sys \in Queued
  BY SysType
<1>2. Len(dispatched[sys]) \in Nat
  BY <1>1, LenProperties DEF QueuesOK
<1> QED
  BY <1>1, <1>2 DEF command, Managers

LEMMA NoCommandType == NoCommand \in Managers \X Nat
  BY DEF NoCommand, Managers

LEMMA CostType ==
  ASSUME faults \in 0 .. MaxFaults, NEW n \in {0, 1}, Cost(n)
  PROVE  faults' \in 0 .. MaxFaults
BY Limits DEF Cost

LEMMA ByteType ==
  ASSUME NEW p \in Uplinks PROVE p[1] \in Bytes /\ p[2] \in Bytes
BY DEF Bytes

-----------------------------------------------------------------------------
(* Each group of variables keeps its types.                                   *)

LEMMA TypedInit == Init => Typed
<1> SUFFICES ASSUME Init PROVE Typed
  OBVIOUS
<1>1. 1 \in 1 .. Len(Cycle) /\ Len(Cycle[1]) \in Nat
  BY CycleOK, VisitType
<1>2. LineOK
  BY EmptySeq DEF Init, LineOK
<1>5. StreamOK
  <2>1. 0 \in 0 .. MaxTorn /\ 0 \in 0 .. MaxFaults
    BY Limits
  <2> QED
    BY <2>1, EmptySeq DEF Init, StreamOK
<1>6. SendingOK
  <2>1. 0 \in 0 .. TriesMax - 1 /\ 0 \in 0 .. 0 /\ 0 \in Nat /\ 0 <= 0 + 1
    BY Limits
  <2>2. /\ kind = "unknown" /\ try_counter = 0 /\ write_again = TRUE /\ reply = <<>>
        /\ confirmed = FALSE /\ sends = 0 /\ accepted = 0 /\ pc = "uplink"
    BY DEF Init
  <2>3. /\ kind \in Kinds /\ try_counter \in 0 .. TriesMax - 1 /\ write_again \in BOOLEAN
        /\ reply \in Seq(Unit) /\ confirmed \in BOOLEAN
    BY <2>1, <2>2, EmptySeq DEF Kinds
  <2>4. sends \in Nat /\ accepted \in 0 .. sends /\ sends <= try_counter + 1
    BY <2>1, <2>2
  <2> QED
    BY <2>2, <2>3, <2>4 DEF SendingOK, Idle, Busy
<1>7. RecordOK
  BY DEF Init, RecordOK
<1>3. VisitOK
  BY <1>1, Limits DEF Init, VisitOK, Idle, Busy
<1>4. QueuesOK
  BY Limits DEF Init, QueuesOK
<1> QED
  BY <1>2, <1>3, <1>4, <1>5, <1>6, <1>7 DEF Typed

LEMMA LineStep == Typed /\ [Next]_vars => LineOK'
<1> SUFFICES ASSUME Typed, [Next]_vars PROVE LineOK'
  OBVIOUS
<1>1. LineOK
  BY DEF Typed
<1>2. CASE UNCHANGED <<uplinked, half, uart>>
  BY <1>1, <1>2 DEF LineOK
<1>3. CASE GroundSends
  <2>1. CASE half
    <3>1. uplinked[Len(uplinked)] \in Uplinks
      BY <1>1, <2>1, ElementOfSeq, EmptySeq, LenProperties DEF LineOK
    <3>2. uart' \in Seq(Bytes)
      BY <1>1, <1>3, <2>1, <3>1, ByteType, AppendProperties DEF GroundSends, LineOK
    <3> QED
      BY <1>1, <1>3, <2>1, <3>2 DEF GroundSends, LineOK
  <2>2. CASE ~half
    <3>1. PICK p \in Uplinks : uplinked' = Append(uplinked, p) /\ uart' = Append(uart, p[1])
      BY <1>3, <2>2 DEF GroundSends
    <3>2. uplinked' \in Seq(Uplinks) /\ uplinked' # <<>>
      BY <1>1, <3>1, AppendProperties DEF LineOK
    <3>3. uart' \in Seq(Bytes)
      BY <1>1, <3>1, ByteType, AppendProperties DEF LineOK
    <3> QED
      BY <1>1, <1>3, <3>2, <3>3 DEF GroundSends, LineOK
  <2> QED
    BY <2>1, <2>2
<1>4. CASE ReceiveUplink
  <2>1. uart' = Drop(uart, 2) /\ 2 \in 0 .. Len(uart) /\ UNCHANGED <<uplinked, half>>
    BY <1>1, <1>4, LenProperties DEF ReceiveUplink, ground, LineOK
  <2>2. uart' \in Seq(Bytes)
    BY <1>1, <2>1, DropType DEF LineOK
  <2> QED
    BY <1>1, <2>1, <2>2 DEF LineOK
<1>5. CASE UplinkTimeout \/ Restart
  <2>1. uart' = <<>> /\ UNCHANGED <<uplinked, half>>
    BY <1>5 DEF UplinkTimeout, Restart, LeftOnLine, ground
  <2> QED
    BY <1>1, <2>1, EmptySeq DEF LineOK
<1>6. CASE UNCHANGED vars
  BY <1>2, <1>6 DEF vars, ground, line
<1>7. CASE Flush \/ Dispatch \/ Send \/ SendThrows \/ ReceiveReply \/ ReplyTimeout
           \/ JudgeWrite \/ JudgeRead \/ Finish \/ RestOfVisit
  BY <1>2, <1>7 DEF Flush, Dispatch, Send, SendThrows, ReceiveReply, ReplyTimeout, JudgeWrite,
                    JudgeRead, Finish, RestOfVisit, ground, line
<1>8. CASE Close
  BY <1>2, <1>8 DEF Close, ground
<1> QED
  BY <1>3, <1>4, <1>5, <1>6, <1>7, <1>8 DEF Next, Formatter

LEMMA QueuesStep == Typed /\ [Next]_vars => QueuesOK'
<1> SUFFICES ASSUME Typed, [Next]_vars PROVE QueuesOK'
  OBVIOUS
<1>1. LineOK /\ VisitOK /\ QueuesOK
  BY DEF Typed
<1>2. CASE UNCHANGED queues
  BY <1>1, <1>2 DEF QueuesOK, queues
<1>3. CASE ReceiveUplink
  <2>1. CASE uart[1] \in Queued
    <3>1. uart[2] \in Bytes
      BY <1>1, <1>3, ElementOfSeq, LenProperties DEF ReceiveUplink, LineOK
    <3>2. uplink_buffer' \in [Queued -> Seq(Bytes)]
      <4>1. Append(uplink_buffer[uart[1]], uart[2]) \in Seq(Bytes)
        BY <1>1, <2>1, <3>1, AppendProperties DEF QueuesOK
      <4> QED
        BY <1>1, <1>3, <2>1, <4>1 DEF ReceiveUplink, Enqueue, QueuesOK
    <3>3. counter' \in 0 .. CounterMod - 1
      BY <1>1, <1>3, <2>1, Limits DEF ReceiveUplink, CountOne, QueuesOK
    <3> QED
      BY <1>1, <1>3, <3>2, <3>3 DEF ReceiveUplink, QueuesOK
  <2>2. CASE uart[1] \notin Queued
    BY <1>2, <1>3, <2>2 DEF ReceiveUplink, queues
  <2> QED
    BY <2>1, <2>2
<1>4. CASE Dispatch
  <2>1. CASE uplink_buffer[sys] = <<>>
    BY <1>2, <1>4, <2>1 DEF Dispatch
  <2>2. CASE uplink_buffer[sys] # <<>>
    <3>1. sys \in Queued
      BY <1>1, <1>4, SysType DEF Dispatch
    <3> DEFINE q == uplink_buffer[sys]
    <3>2. q \in Seq(Bytes) /\ q # <<>> /\ dispatched[sys] \in Seq(Bytes)
      BY <1>1, <2>2, <3>1 DEF QueuesOK
    <3>3. Tail(q) \in Seq(Bytes) /\ q[1] \in Bytes
      BY <3>2, HeadTailProperties, EmptySeq, LenProperties, ElementOfSeq
    <3>4. Append(dispatched[sys], q[1]) \in Seq(Bytes)
      BY <3>2, <3>3, AppendProperties
    <3>5. /\ uplink_buffer' = [uplink_buffer EXCEPT ![sys] = Tail(q)]
          /\ dispatched' = [dispatched EXCEPT ![sys] = Append(dispatched[sys], q[1])]
          /\ counter' = counter
      BY <1>4, <2>2 DEF Dispatch, Take
    <3> HIDE DEF q
    <3> QED
      BY <1>1, <3>1, <3>3, <3>4, <3>5 DEF QueuesOK
  <2> QED
    BY <2>1, <2>2
<1>5. CASE Restart
  <2>1. /\ uplink_buffer' = [s \in Queued |-> <<>>] /\ counter' = 0
        /\ UNCHANGED dispatched
    BY <1>5 DEF Restart
  <2> QED
    BY <1>1, <2>1, Limits DEF QueuesOK
<1>6. CASE UNCHANGED vars
  BY <1>2, <1>6 DEF vars
<1>7. CASE GroundSends \/ UplinkTimeout \/ Flush \/ Send \/ SendThrows \/ ReceiveReply
           \/ ReplyTimeout \/ JudgeWrite \/ JudgeRead \/ Finish \/ RestOfVisit \/ Close
  BY <1>2, <1>7 DEF GroundSends, UplinkTimeout, Flush, Send, SendThrows, ReceiveReply,
                    ReplyTimeout, JudgeWrite, JudgeRead, Finish, RestOfVisit, Close
<1> QED
  BY <1>3, <1>4, <1>5, <1>6, <1>7 DEF Next, Formatter

LEMMA RecordStep == Typed /\ [Next]_vars => RecordOK'
<1> SUFFICES ASSUME Typed, [Next]_vars PROVE RecordOK'
  OBVIOUS
<1>1. VisitOK /\ RecordOK
  BY DEF Typed
<1>2. CASE UNCHANGED record
  BY <1>1, <1>2 DEF RecordOK, record
<1>3. CASE ReceiveUplink \/ UplinkTimeout \/ ReceiveReply \/ ReplyTimeout
  BY <1>1, <1>3 DEF ReceiveUplink, UplinkTimeout, ReceiveReply, ReplyTimeout, Raise, Clear,
                    RecordOK, ErrorFlags
<1>4. CASE JudgeWrite
  <2>1. sys \in Queued
    BY <1>1, <1>4, SysType DEF JudgeWrite, Busy
  <2>2. failed' \subseteq Queued
    BY <1>1, <1>4, <2>1 DEF JudgeWrite, TryAgain, record, RecordOK
  <2>3. errors' \in [Managers -> SUBSET ErrorFlags]
    BY <1>1, <1>4 DEF JudgeWrite, Raise, Rejected, record, RecordOK, ErrorFlags
  <2> QED
    BY <2>2, <2>3 DEF RecordOK
<1>5. CASE JudgeRead
  BY <1>1, <1>5 DEF JudgeRead, Raise, RecordOK, ErrorFlags
<1>6. CASE Restart
  BY <1>6 DEF Restart, RecordOK
<1>7. CASE UNCHANGED vars
  BY <1>2, <1>7 DEF vars
<1>8. CASE GroundSends \/ Flush \/ Dispatch \/ Send \/ SendThrows \/ Finish \/ RestOfVisit
           \/ Close
  BY <1>2, <1>8 DEF GroundSends, Flush, Dispatch, Send, SendThrows, Finish, RestOfVisit, Close
<1> QED
  BY <1>3, <1>4, <1>5, <1>6, <1>7, <1>8 DEF Next, Formatter

LEMMA VisitStep == Typed /\ [Next]_vars => VisitOK'
<1> SUFFICES ASSUME Typed, [Next]_vars PROVE VisitOK'
  OBVIOUS
<1>1. VisitOK
  BY DEF Typed
<1> DEFINE here == <<visit, place, pc, pairs, attempts>>
<1>2. CASE UNCHANGED here
  BY <1>1, <1>2 DEF VisitOK, Idle, Busy
<1>3. ASSUME NEW n \in {pairs + 1, PairsMax}, ReadOn(n), UNCHANGED cursor PROVE VisitOK'
  <2>1. attempts' \in 0 .. RetryMax - 1 /\ pairs' \in 0 .. PairsMax - 1
    BY <1>1, <1>3, Limits DEF ReadOn, VisitOK
  <2>2. pc' \in {"uplink", "flush"}
    BY <1>3 DEF ReadOn
  <2> QED
    BY <1>1, <1>3, <2>1, <2>2 DEF VisitOK, cursor, Idle, Busy
<1>4. ASSUME NextSystem, Busy \/ Served(visit, place), UNCHANGED <<visit, reading>>
      PROVE  VisitOK'
  <2>1. place \in 1 .. Len(Cycle[visit]) + 1 /\ place <= Len(Cycle[visit])
    BY <1>1, <1>4 DEF VisitOK, Served
  <2>2. Len(Cycle[visit]) \in Nat
    BY <1>1, VisitType DEF VisitOK
  <2>3. place + 1 \in 1 .. Len(Cycle[visit]) + 1
    BY <2>1, <2>2
  <2>4. place' = place + 1 /\ pc' = "dispatch" /\ UNCHANGED <<visit, pairs, attempts>>
    BY <1>4 DEF NextSystem, reading
  <2> QED
    BY <1>1, <2>3, <2>4 DEF VisitOK, Idle, Busy
<1>5. ASSUME Busy \/ Served(visit, place), UNCHANGED <<visit, place, pairs>>, Busy',
             attempts' \in 0 .. RetryMax - 1
      PROVE  VisitOK'
  BY <1>1, <1>5 DEF VisitOK, Served, Busy, Idle
<1>6. CASE ReceiveUplink \/ UplinkTimeout
  <2>1. UNCHANGED cursor
    BY <1>6 DEF ReceiveUplink, UplinkTimeout
  <2>2. CASE ReadOn(pairs + 1) \/ ReadOn(PairsMax)
    BY <1>3, <2>1, <2>2
  <2>3. CASE attempts + 1 < RetryMax /\ attempts' = attempts + 1 /\ UNCHANGED <<pc, pairs>>
    <3>1. attempts' \in 0 .. RetryMax - 1
      BY <1>1, <2>3, Limits DEF VisitOK
    <3> QED
      BY <1>1, <2>1, <2>3, <3>1 DEF VisitOK, cursor, Idle, Busy
  <2> QED
    BY <1>6, <2>2, <2>3 DEF ReceiveUplink, UplinkTimeout
<1>7. CASE Flush
  BY <1>1, <1>7 DEF Flush, VisitOK, cursor, reading, Idle, Busy
<1>8. CASE Dispatch
  <2>1. Served(visit, place) /\ UNCHANGED <<visit, reading>>
    BY <1>8 DEF Dispatch
  <2>2. CASE NextSystem
    BY <1>4, <2>1, <2>2
  <2>3. CASE pc' = "send" /\ UNCHANGED place
    BY <1>1, <1>5, <2>1, <2>3 DEF VisitOK, reading, Busy
  <2> QED
    BY <1>8, <2>2, <2>3 DEF Dispatch
<1>9. CASE Send
  <2>1. UNCHANGED <<visit, place, pairs, attempts>> /\ Busy'
    BY <1>9 DEF Send, cursor, reading, Busy
  <2> QED
    BY <1>1, <1>5, <1>9, <2>1 DEF Send, VisitOK, Busy
<1>10. CASE SendThrows
  BY <1>4, <1>10 DEF SendThrows, Busy
<1>11. CASE ReceiveReply
  BY <1>5, <1>11, Limits DEF ReceiveReply, Busy, cursor
<1>12. CASE ReplyTimeout
  <2>1. attempts' \in 0 .. RetryMax - 1
    BY <1>1, <1>12, Limits DEF ReplyTimeout, VisitOK
  <2> QED
    BY <1>5, <1>12, <2>1 DEF ReplyTimeout, Busy, cursor
<1>13. CASE JudgeWrite
  BY <1>1, <1>5, <1>13 DEF JudgeWrite, TryAgain, Busy, cursor, reading, VisitOK
<1>14. CASE JudgeRead
  BY <1>1, <1>5, <1>14 DEF JudgeRead, Busy, cursor, reading, VisitOK
<1>15. CASE Finish
  BY <1>4, <1>15 DEF Finish, Busy
<1>16. CASE RestOfVisit
  <2>1. visit' = (visit % Len(Cycle)) + 1 /\ place' = 1 /\ pc' = "uplink" /\ UNCHANGED reading
    BY <1>16 DEF RestOfVisit
  <2>2. visit' \in 1 .. Len(Cycle)
    BY <1>1, <2>1, CycleOK DEF VisitOK
  <2>3. Len(Cycle[visit']) \in Nat
    BY <2>2, VisitType
  <2>4. place' \in 1 .. Len(Cycle[visit']) + 1
    BY <2>1, <2>3
  <2> QED
    BY <1>1, <2>1, <2>2, <2>4 DEF VisitOK, reading, Idle, Busy
<1>17. CASE Restart
  <2>1. visit' = 1 /\ place' = 1 /\ pc' = "uplink" /\ pairs' = 0 /\ attempts' = 0
    BY <1>17 DEF Restart
  <2>2. 1 \in 1 .. Len(Cycle) /\ Len(Cycle[1]) \in Nat
    BY CycleOK, VisitType
  <2> QED
    BY <2>1, <2>2, Limits DEF VisitOK, Idle, Busy
<1>18. CASE GroundSends \/ Close
  BY <1>2, <1>18 DEF GroundSends, Close, cursor, reading
<1>19. CASE UNCHANGED vars
  BY <1>2, <1>19 DEF vars, cursor, reading
<1> QED
  BY <1>6, <1>7, <1>8, <1>9, <1>10, <1>11, <1>12, <1>13, <1>14, <1>15, <1>16, <1>17, <1>18,
     <1>19 DEF Next, Formatter

LEMMA StreamStep == Typed /\ [Next]_vars => StreamOK'
<1> SUFFICES ASSUME Typed, [Next]_vars PROVE StreamOK'
  OBVIOUS
<1>1. VisitOK /\ QueuesOK /\ StreamOK /\ SendingOK /\ LineOK
  BY DEF Typed
<1>2. net \in Seq(Unit) /\ Len(net) \in Nat /\ faults \in 0 .. MaxFaults
  BY <1>1, LenProperties DEF StreamOK
<1>3. CASE UNCHANGED <<stream, late, torn>>
  BY <1>1, <1>3 DEF StreamOK, stream
<1>4. ASSUME NEW n \in {0, 1}, Cost(n), net' \in Seq(Unit), UNCHANGED <<closed, torn>>,
             late' \in BOOLEAN
      PROVE  StreamOK'
  BY <1>1, <1>4, CostType DEF StreamOK
<1>5. CASE UplinkTimeout
  <2>1. torn' \in 0 .. MaxTorn
    BY <1>1, <1>5, Limits DEF UplinkTimeout, StreamOK
  <2> QED
    BY <1>1, <1>5, <2>1 DEF UplinkTimeout, StreamOK, stream
<1>6. CASE Flush
  <2>1. PICK k \in 0 .. Len(net) :
          /\ Cost(IF k = Len(net) THEN 0 ELSE 1) /\ net' = Drop(net, k)
          /\ late' = (k < Len(net))
    BY <1>6 DEF Flush, Discard
  <2>2. net' \in Seq(Unit)
    BY <1>2, <2>1, DropType
  <2>3. late' \in BOOLEAN /\ UNCHANGED <<closed, torn>>
    BY <1>6, <2>1 DEF Flush, line
  <2> QED
    BY <1>4, <2>1, <2>2, <2>3
<1>7. CASE Dispatch \/ SendThrows \/ Finish
  <2>1. UNCHANGED <<stream, torn>> /\ (late' = late \/ late' = (late \/ net # <<>>))
    BY <1>7 DEF Dispatch, SendThrows, Finish, NextSystem, line
  <2>2. late' \in BOOLEAN
    BY <1>1, <2>1 DEF StreamOK
  <2> QED
    BY <1>1, <2>1, <2>2 DEF StreamOK, stream
<1>8. CASE Send
  <2>1. command \in Managers \X Nat
    BY <1>1, <1>8, CommandType DEF Send, Busy
  <2>2. /\ WriteReply(command, "ok") \in Seq(Unit) /\ WriteReply(command, "bad") \in Seq(Unit)
        /\ Body(command, ReadSize) \in Seq(Unit) /\ <<>> \in Seq(Unit)
    BY <2>1, BodyType, WriteReplyType, Limits, EmptySeq
  <2>3. \A r \in Seq(Unit) : net \o r \in Seq(Unit)
    BY <1>2, ConcatProperties
  <2>4. net' \in Seq(Unit)
    <3>1. \/ UNCHANGED net \/ net' = net \o WriteReply(command, "ok")
          \/ net' = net \o Body(command, ReadSize) \/ net' = net \o <<>>
          \/ net' = net \o WriteReply(command, "bad")
      BY <1>8 DEF Send
    <3> QED
      BY <1>2, <2>2, <2>3, <3>1
  <2>5. Cost(0) \/ Cost(1) \/ UNCHANGED faults
    BY <1>8 DEF Send
  <2>6. UNCHANGED <<closed, torn, late>>
    BY <1>8 DEF Send, line
  <2> QED
    BY <1>1, <1>4, <2>4, <2>5, <2>6 DEF StreamOK
<1>9. CASE ReceiveReply
  <2>1. ExpectedSize \in Nat
    BY Limits DEF ExpectedSize
  <2>2. Least(ExpectedSize, Len(net)) \in 0 .. Len(net)
    BY <1>2, <2>1 DEF Least
  <2>3. net' = Drop(net, Least(ExpectedSize, Len(net)))
    BY <1>9 DEF ReceiveReply
  <2>4. net' \in Seq(Unit)
    BY <1>2, <2>2, <2>3, DropType
  <2> QED
    BY <1>1, <1>9, <2>4 DEF ReceiveReply, StreamOK, line
<1>10. CASE ReplyTimeout
  <2>1. ExpectedSize \in Nat
    BY Limits DEF ExpectedSize
  <2>2. PICK k \in 0 .. Least(Len(net), ExpectedSize - 1) :
          Cost(IF k = Len(net) THEN 0 ELSE 1) /\ net' = Drop(net, k)
    BY <1>10 DEF ReplyTimeout
  <2>3. k \in 0 .. Len(net)
    BY <1>2, <2>1 DEF Least
  <2>4. net' \in Seq(Unit)
    BY <1>2, <2>2, <2>3, DropType
  <2>5. UNCHANGED <<closed, torn, late>>
    BY <1>10 DEF ReplyTimeout, line
  <2> QED
    BY <1>1, <1>4, <2>2, <2>4, <2>5 DEF StreamOK
<1>11. CASE RestOfVisit
  <2>1. \/ UNCHANGED <<net, faults>>
        \/ net' = <<>> /\ Cost(0)
        \/ net' = net \o Body(NoCommand, 1) /\ Cost(1)
    BY <1>11 DEF RestOfVisit
  <2>2. net \o Body(NoCommand, 1) \in Seq(Unit) /\ <<>> \in Seq(Unit)
    BY <1>2, NoCommandType, BodyType, ConcatProperties
  <2>3. UNCHANGED <<closed, torn, late>>
    BY <1>11 DEF RestOfVisit, line
  <2>4. late' \in BOOLEAN
    BY <1>1, <2>3 DEF StreamOK
  <2>5. CASE UNCHANGED <<net, faults>>
    BY <1>1, <2>3, <2>5 DEF StreamOK
  <2>6. CASE net' = <<>> /\ Cost(0)
    BY <1>4, <2>2, <2>3, <2>4, <2>6
  <2>7. CASE net' = net \o Body(NoCommand, 1) /\ Cost(1)
    <3>1. net' \in Seq(Unit)
      BY <2>2, <2>7
    <3> QED
      BY <1>4, <2>3, <2>4, <2>7, <3>1
  <2> QED
    BY <2>1, <2>5, <2>6, <2>7
<1>12. CASE Restart
  <2>1. net' = <<>> /\ closed' = FALSE /\ late' = FALSE /\ UNCHANGED <<torn, faults>>
    BY <1>12 DEF Restart
  <2> QED
    BY <1>1, <2>1, EmptySeq DEF StreamOK
<1>13. CASE Close
  <2>1. torn' \in 0 .. MaxTorn
    BY <1>1, <1>13, Limits DEF Close, StreamOK
  <2> QED
    BY <1>1, <1>13, <2>1 DEF Close, StreamOK
<1>14. CASE GroundSends \/ ReceiveUplink \/ JudgeWrite \/ JudgeRead
  BY <1>3, <1>14 DEF GroundSends, ReceiveUplink, JudgeWrite, JudgeRead, line
<1>15. CASE UNCHANGED vars
  BY <1>3, <1>15 DEF vars, line
<1> QED
  BY <1>5, <1>6, <1>7, <1>8, <1>9, <1>10, <1>11, <1>12, <1>13, <1>14, <1>15
     DEF Next, Formatter

LEMMA SendingStep == Typed /\ [Next]_vars => SendingOK'
<1> SUFFICES ASSUME Typed, [Next]_vars PROVE SendingOK'
  OBVIOUS
<1>1. VisitOK /\ StreamOK /\ SendingOK
  BY DEF Typed
<1>2. ASSUME NextSystem PROVE SendingOK'
  <2>1. 0 \in 0 .. TriesMax - 1 /\ 0 \in 0 .. 0 /\ 0 \in Nat /\ 0 <= 0 + 1
    BY Limits
  <2>2. /\ kind' = "unknown" /\ try_counter' = 0 /\ write_again' = TRUE /\ reply' = <<>>
        /\ confirmed' = FALSE /\ sends' = 0 /\ accepted' = 0 /\ pc' = "dispatch"
    BY <1>2 DEF NextSystem
  <2>3. /\ kind' \in Kinds /\ try_counter' \in 0 .. TriesMax - 1 /\ write_again' \in BOOLEAN
        /\ reply' \in Seq(Unit) /\ confirmed' \in BOOLEAN
    BY <2>1, <2>2, EmptySeq DEF Kinds
  <2>4. sends' \in Nat /\ accepted' \in 0 .. sends' /\ sends' <= try_counter' + 1
    BY <2>1, <2>2
  <2> QED
    BY <2>2, <2>3, <2>4 DEF SendingOK, Idle, Busy
<1>3. ASSUME UNCHANGED sending, Idle' => Idle, Busy' => Busy, pc' = "send" => pc = "send"
      PROVE  SendingOK'
  <2>1. UNCHANGED <<kind, try_counter, write_again, reply, confirmed, sends, accepted>>
    BY <1>3 DEF sending
  <2> QED
    BY <1>1, <1>3, <2>1 DEF SendingOK
<1>4. CASE ReceiveUplink \/ UplinkTimeout \/ Flush
  BY <1>3, <1>4 DEF ReceiveUplink, UplinkTimeout, Flush, ReadOn, Idle, Busy
<1>5. CASE RestOfVisit \/ Restart \/ JudgeRead
  BY <1>3, <1>5 DEF RestOfVisit, Restart, JudgeRead, Idle, Busy
<1>6. CASE GroundSends \/ Close \/ UNCHANGED vars
  BY <1>3, <1>6 DEF GroundSends, Close, vars, Idle, Busy
<1>7. CASE Dispatch
  <2> DEFINE k == Kind(sys, uplink_buffer[sys][1])
  <2>1. k \in Kinds
    BY DeckAssumption DEF Kind, Pairs, Kinds
  <2> HIDE DEF k
  <2>2. CASE NextSystem
    BY <1>2, <2>2
  <2>3. CASE ~NextSystem
    <3>1. /\ k \notin {"refused", "unknown"} /\ kind' = k /\ pc' = "send"
          /\ UNCHANGED <<try_counter, write_again, reply, confirmed, sends, accepted>>
      BY <1>7, <2>3 DEF Dispatch, k
    <3>2. kind' \in {"write", "write only", "read"} /\ kind' \in Kinds
      BY <2>1, <3>1 DEF Kinds
    <3>3. Idle
      BY <1>7 DEF Dispatch, Idle
    <3>4. sends = 0 /\ try_counter = 0
      BY <1>1, <3>3 DEF SendingOK
    <3>5. sends' <= try_counter'
      BY <3>1, <3>4
    <3>6. ~Idle'
      BY <3>1 DEF Idle
    <3> QED
      BY <1>1, <3>1, <3>2, <3>5, <3>6 DEF SendingOK
  <2> QED
    BY <2>2, <2>3
<1>8. CASE Send
  <2>1. sends' = sends + 1 /\ accepted' \in {accepted, accepted + 1}
    BY <1>8 DEF Send
  <2>2. pc = "send" /\ Busy /\ ~Idle /\ pc' \in {"finished", "await"}
    BY <1>8 DEF Send, Busy, Idle
  <2>3. UNCHANGED <<kind, try_counter, write_again, reply, confirmed>>
    BY <1>8 DEF Send
  <2>4. /\ sends \in Nat /\ accepted \in 0 .. sends /\ sends <= try_counter
        /\ try_counter \in 0 .. TriesMax - 1
    BY <1>1, <2>2 DEF SendingOK
  <2>5. sends' \in Nat /\ accepted' \in 0 .. sends' /\ sends' <= try_counter + 1
    BY <2>1, <2>4
  <2> QED
    <3>1. ~Idle' /\ pc' # "send"
      BY <2>2 DEF Idle
    <3> QED
      BY <1>1, <2>2, <2>3, <2>5, <3>1 DEF SendingOK
<1>9. ASSUME Busy, Busy', pc' # "send", reply' \in Seq(Unit),
             UNCHANGED <<kind, try_counter, write_again, confirmed, sends, accepted>>
      PROVE  SendingOK'
  <2>1. ~Idle'
    BY <1>9 DEF Idle, Busy
  <2> QED
    BY <1>1, <1>9, <2>1 DEF SendingOK
<1>10. CASE ReceiveReply
  <2>1. net \in Seq(Unit) /\ Len(net) \in Nat /\ ExpectedSize \in Nat
    BY <1>1, LenProperties, Limits DEF StreamOK, ExpectedSize
  <2>2. PICK k \in 0 .. Len(net) : reply' = SubSeq(net, 1, k)
    BY <1>10, <2>1 DEF ReceiveReply, Least
  <2>3. \A i \in 1 .. k : net[i] \in Unit
    BY <2>1, <2>2, ElementOfSeq
  <2>4. reply' \in Seq(Unit)
    BY <2>2, <2>3, SubSeqProperties
  <2>5. Busy /\ Busy' /\ pc' # "send"
    BY <1>10 DEF ReceiveReply, Busy
  <2> QED
    BY <1>9, <1>10, <2>4, <2>5 DEF ReceiveReply
<1>11. CASE ReplyTimeout
  <2>1. reply' \in Seq(Unit)
    BY <1>1, <1>11, EmptySeq DEF ReplyTimeout, SendingOK
  <2>2. Busy /\ Busy' /\ pc' # "send"
    BY <1>11 DEF ReplyTimeout, Busy
  <2> QED
    BY <1>9, <1>11, <2>1, <2>2 DEF ReplyTimeout
<1>12. CASE JudgeWrite
  <2>1. pc = "judge" /\ Busy /\ Busy' /\ ~Idle /\ ~Idle'
    BY <1>12 DEF JudgeWrite, TryAgain, Busy, Idle
  <2>2. UNCHANGED <<kind, reply, sends, accepted>> /\ confirmed' \in {confirmed, TRUE}
    BY <1>12 DEF JudgeWrite, TryAgain
  <2>3. write_again' \in BOOLEAN
    BY <1>1, <1>12 DEF JudgeWrite, TryAgain, RewriteAfter, SendingOK
  <2>4. \/ try_counter + 1 < TriesMax /\ try_counter' = try_counter + 1
        \/ try_counter' = try_counter /\ pc' # "send"
    BY <1>12 DEF JudgeWrite, TryAgain
  <2>5. try_counter \in 0 .. TriesMax - 1 /\ sends \in Nat /\ sends <= try_counter + 1
    BY <1>1 DEF SendingOK
  <2>6. /\ try_counter' \in 0 .. TriesMax - 1 /\ sends <= try_counter' + 1
        /\ pc' = "send" => sends <= try_counter'
    BY <2>4, <2>5, Limits
  <2> QED
    BY <1>1, <2>1, <2>2, <2>3, <2>6 DEF SendingOK
<1>13. CASE SendThrows \/ Finish
  BY <1>2, <1>13 DEF SendThrows, Finish
<1> QED
  BY <1>4, <1>5, <1>6, <1>7, <1>8, <1>10, <1>11, <1>12, <1>13 DEF Next, Formatter

LEMMA TypedStep == Typed /\ [Next]_vars => Typed'
  BY LineStep, VisitStep, QueuesStep, StreamStep, SendingStep, RecordStep DEF Typed

LEMMA TypedAlways == Spec => []Typed
  BY TypedInit, TypedStep, PTL DEF Spec

\* Every variable keeps its type: no counter of tries, attempts or pairs leaves
\* its bounds, and a command is never sent more often than it may be tried.
THEOREM TypeCorrect == Spec => []TypeOK
  BY TypedAlways, TypedSuffices, PTL

-----------------------------------------------------------------------------
(* A write that is given up is flagged.                                       *)

LEMMA FlaggedStep == Typed /\ FailedWriteIsFlagged /\ [Next]_vars => FailedWriteIsFlagged'
<1> SUFFICES ASSUME Typed, FailedWriteIsFlagged, [Next]_vars PROVE FailedWriteIsFlagged'
  OBVIOUS
<1>1. /\ errors \in [Managers -> SUBSET ErrorFlags] /\ failed \subseteq Queued
      /\ Queued \subseteq Managers /\ Uplink \notin Queued /\ VisitOK
  BY DeckAssumption DEF Typed, RecordOK, Managers
<1>2. CASE UNCHANGED record
  BY <1>2 DEF FailedWriteIsFlagged, record
<1>3. CASE ReceiveUplink \/ UplinkTimeout \/ ReceiveReply \/ ReplyTimeout
  BY <1>1, <1>3 DEF ReceiveUplink, UplinkTimeout, ReceiveReply, ReplyTimeout, Raise, Clear,
                    FailedWriteIsFlagged
<1>4. CASE JudgeWrite
  <2>1. sys \in Queued
    BY <1>1, <1>4, SysType DEF JudgeWrite, Busy
  <2>2. \/ UNCHANGED record
        \/ /\ errors' = [errors EXCEPT ![sys] = @ \cup {"writing_invalid"}]
           /\ failed' \in {failed, failed \cup {sys}}
    BY <1>4 DEF JudgeWrite, Raise, Rejected, TryAgain, record
  <2> QED
    BY <1>1, <1>2, <2>1, <2>2 DEF FailedWriteIsFlagged
<1>5. CASE JudgeRead
  BY <1>1, <1>5 DEF JudgeRead, Raise, FailedWriteIsFlagged
<1>6. CASE Restart
  BY <1>6 DEF Restart, FailedWriteIsFlagged
<1>7. CASE UNCHANGED vars
  BY <1>2, <1>7 DEF vars
<1>8. CASE GroundSends \/ Flush \/ Dispatch \/ Send \/ SendThrows \/ Finish \/ RestOfVisit
           \/ Close
  BY <1>2, <1>8 DEF GroundSends, Flush, Dispatch, Send, SendThrows, Finish, RestOfVisit, Close
<1> QED
  BY <1>3, <1>4, <1>5, <1>6, <1>7, <1>8 DEF Next, Formatter

\* A system to which a write was given up has writing_invalid up until the
\* program starts again: no later reply, whole or not, takes it down.
THEOREM FailureStays == Spec => []FailedWriteIsFlagged
<1>1. Init => FailedWriteIsFlagged
  BY DEF Init, FailedWriteIsFlagged
<1> QED
  BY <1>1, FlaggedStep, TypedAlways, PTL DEF Spec

-----------------------------------------------------------------------------
(* As long as no reply may be late, what the stream holds while a command is  *)
(* sent answers that command, and nothing is left for the next.               *)

AllTo(r, c) == \A i \in 1 .. Len(r) : r[i].to = c

Owned ==
  ~late => /\ pc = "dispatch" => net = <<>>
           /\ Busy => AllTo(net, command) /\ AllTo(reply, command)

LEMMA AllToDrop ==
  ASSUME NEW r \in Seq(Unit), NEW k \in 0 .. Len(r), NEW c, AllTo(r, c)
  PROVE  AllTo(Drop(r, k), c)
<1>1. Len(r) \in Nat
  BY LenProperties
<1>2. /\ Len(Drop(r, k)) = Len(r) - k
      /\ \A i \in 1 .. Len(r) - k : Drop(r, k)[i] = r[i + k]
  BY DropType
<1>3. \A i \in 1 .. Len(r) - k : i + k \in 1 .. Len(r)
  BY <1>1
<1> QED
  BY <1>2, <1>3 DEF AllTo

LEMMA AllToConcat ==
  ASSUME NEW r \in Seq(Unit), NEW s \in Seq(Unit), NEW c, AllTo(r, c), AllTo(s, c)
  PROVE  AllTo(r \o s, c)
<1>1. /\ Len(r) \in Nat /\ Len(s) \in Nat /\ Len(r \o s) = Len(r) + Len(s)
      /\ \A i \in 1 .. Len(r) + Len(s) :
           (r \o s)[i] = IF i <= Len(r) THEN r[i] ELSE s[i - Len(r)]
  BY ConcatProperties, LenProperties
<1> DEFINE t == r \o s
<1> HIDE DEF t
<1>2. ASSUME NEW i \in 1 .. Len(t) PROVE t[i].to = c
  <2>1. CASE i <= Len(r)
    <3>1. i \in 1 .. Len(r) /\ t[i] = r[i]
      BY <1>1, <1>2, <2>1 DEF t
    <3> QED
      BY <3>1 DEF AllTo
  <2>2. CASE ~(i <= Len(r))
    <3>1. i - Len(r) \in 1 .. Len(s) /\ t[i] = s[i - Len(r)]
      BY <1>1, <1>2, <2>2 DEF t
    <3> QED
      BY <3>1 DEF AllTo
  <2> QED
    BY <2>1, <2>2
<1> QED
  BY <1>2 DEF AllTo, t

LEMMA AllToEmpty == ASSUME NEW c PROVE AllTo(<<>>, c)
  BY DEF AllTo

LEMMA AllToReplies ==
  ASSUME NEW c \in Managers \X Nat
  PROVE  /\ AllTo(WriteReply(c, "ok"), c) /\ AllTo(WriteReply(c, "bad"), c)
         /\ AllTo(Body(c, ReadSize), c)
<1>1. ASSUME NEW s \in {"ok", "bad"} PROVE AllTo(WriteReply(c, s), c)
  <2>1. /\ Len(WriteReply(c, s)) = WriteSize
        /\ \A i \in 1 .. WriteSize : WriteReply(c, s)[i].to = c
    BY WriteReplyType
  <2> QED
    BY <2>1 DEF AllTo
<1>2. AllTo(Body(c, ReadSize), c)
  <2>1. ReadSize \in Nat
    BY Limits
  <2>2. Len(Body(c, ReadSize)) = ReadSize /\ \A i \in 1 .. ReadSize : Body(c, ReadSize)[i].to = c
    BY <2>1, BodyType
  <2> QED
    BY <2>2 DEF AllTo
<1> QED
  BY <1>1, <1>2

\* What is to be sent stays the same until the next system is turned to.
LEMMA CommandStays ==
  ASSUME UNCHANGED <<visit, place, dispatched>>
  PROVE  command' = command
BY DEF command, sys

LEMMA OwnedStep == Typed /\ Owned /\ [Next]_vars => Owned'
<1> SUFFICES ASSUME Typed, Owned, [Next]_vars, ~late'
             PROVE  /\ pc' = "dispatch" => net' = <<>>
                    /\ Busy' => AllTo(net', command') /\ AllTo(reply', command')
  BY DEF Owned
<1>1. VisitOK /\ QueuesOK /\ StreamOK /\ SendingOK /\ net \in Seq(Unit) /\ Len(net) \in Nat
  BY LenProperties DEF Typed, StreamOK
<1>2. CASE UNCHANGED <<pc, visit, place, dispatched, net, reply, late>>
  <2>1. command' = command
    BY <1>2, CommandStays
  <2> QED
    BY <1>2, <2>1 DEF Owned, Busy
<1>3. CASE ReceiveUplink \/ UplinkTimeout \/ RestOfVisit \/ Restart
  <2>1. pc' \in {"uplink", "flush"}
    BY <1>3 DEF ReceiveUplink, UplinkTimeout, RestOfVisit, Restart, ReadOn
  <2> QED
    BY <2>1 DEF Busy
<1>4. CASE Flush
  <2>1. PICK k \in 0 .. Len(net) : net' = Drop(net, k) /\ late' = (k < Len(net))
    BY <1>4 DEF Flush, Discard
  <2>2. k = Len(net)
    <3>1. ~(k < Len(net))
      BY <2>1
    <3> QED
      BY <1>1, <2>1, <3>1
  <2>3. net' \in Seq(Unit) /\ Len(net') = 0
    BY <1>1, <2>1, <2>2, DropType
  <2>4. net' = <<>>
    BY <2>3, EmptySeq
  <2>5. pc' = "dispatch"
    BY <1>4 DEF Flush
  <2> QED
    BY <2>4, <2>5 DEF Busy
<1>5. ASSUME NextSystem, UNCHANGED net
      PROVE  net' = <<>> /\ pc' = "dispatch" /\ ~Busy'
  BY <1>5 DEF NextSystem, Busy
<1>6. CASE SendThrows \/ Finish
  BY <1>5, <1>6 DEF SendThrows, Finish, stream
<1>7. CASE Dispatch
  <2>1. UNCHANGED net /\ pc = "dispatch"
    BY <1>7 DEF Dispatch, stream
  <2>2. CASE NextSystem
    BY <1>5, <2>1, <2>2
  <2>3. CASE ~NextSystem
    <3>1. UNCHANGED <<late, reply>> /\ pc' = "send"
      BY <1>7, <2>3 DEF Dispatch
    <3>2. net' = <<>>
      BY <2>1, <3>1 DEF Owned
    <3>3. reply' = <<>>
      BY <1>1, <2>1, <3>1 DEF SendingOK, Idle
    <3> QED
      BY <3>1, <3>2, <3>3, AllToEmpty
  <2> QED
    BY <2>2, <2>3
<1>8. ASSUME Busy, Busy', UNCHANGED <<visit, place, dispatched, late>>,
             AllTo(net', command) \/ ~AllTo(net, command),
             AllTo(reply', command) \/ ~(AllTo(net, command) /\ AllTo(reply, command))
      PROVE  /\ pc' # "dispatch"
             /\ AllTo(net', command') /\ AllTo(reply', command')
  <2>1. command' = command
    BY <1>8, CommandStays
  <2> QED
    BY <1>8, <2>1 DEF Owned, Busy
<1>9. CASE Send
  <2>1. Busy /\ Busy' /\ UNCHANGED <<visit, place, dispatched, late, reply>>
    BY <1>9 DEF Send, Busy, cursor, queues
  <2>2. command \in Managers \X Nat
    BY <1>1, <2>1, CommandType
  <2>3. /\ WriteReply(command, "ok") \in Seq(Unit) /\ WriteReply(command, "bad") \in Seq(Unit)
        /\ Body(command, ReadSize) \in Seq(Unit) /\ <<>> \in Seq(Unit)
    BY <2>2, BodyType, WriteReplyType, Limits, EmptySeq
  <2>4. \/ UNCHANGED net \/ net' = net \o WriteReply(command, "ok")
        \/ net' = net \o Body(command, ReadSize) \/ net' = net \o <<>>
        \/ net' = net \o WriteReply(command, "bad")
    BY <1>9 DEF Send
  <2>5. ASSUME AllTo(net, command) PROVE AllTo(net', command)
    <3>1. ASSUME NEW r \in Seq(Unit), AllTo(r, command), net' = net \o r
          PROVE  AllTo(net', command)
      <4>1. AllTo(net \o r, command)
        BY <1>1, <2>5, <3>1, AllToConcat
      <4> QED
        BY <3>1, <4>1
    <3>2. AllTo(WriteReply(command, "ok"), command) /\ AllTo(WriteReply(command, "bad"), command)
          /\ AllTo(Body(command, ReadSize), command) /\ AllTo(<<>>, command)
      BY <2>2, AllToReplies, AllToEmpty
    <3> QED
      BY <2>3, <2>4, <2>5, <3>1, <3>2
  <2> QED
    BY <1>8, <2>1, <2>5
<1>10. CASE ReceiveReply
  <2>1. Busy /\ Busy' /\ UNCHANGED <<visit, place, dispatched, late>>
    BY <1>10 DEF ReceiveReply, Busy, cursor, queues
  <2>2. PICK k \in 0 .. Len(net) : reply' = SubSeq(net, 1, k) /\ net' = Drop(net, k)
    BY <1>1, <1>10, Limits DEF ReceiveReply, Least, ExpectedSize
  <2>3. AllTo(net', command) \/ ~AllTo(net, command)
    BY <1>1, <2>2, AllToDrop
  <2>4. AllTo(reply', command) \/ ~AllTo(net, command)
    <3>1. Len(reply') = k /\ \A i \in 1 .. k : reply'[i] = net[i] /\ i \in 1 .. Len(net)
      BY <1>1, <2>2
    <3> QED
      BY <3>1 DEF AllTo
  <2> QED
    BY <1>8, <2>1, <2>3, <2>4
<1>11. CASE ReplyTimeout
  <2>1. Busy /\ Busy' /\ UNCHANGED <<visit, place, dispatched, late>>
    BY <1>11 DEF ReplyTimeout, Busy, cursor, queues
  <2>2. PICK k \in 0 .. Least(Len(net), ExpectedSize - 1) : net' = Drop(net, k)
    BY <1>11 DEF ReplyTimeout
  <2>3. k \in 0 .. Len(net)
    BY <1>1, <2>2, Limits DEF Least, ExpectedSize
  <2>4. AllTo(net', command) \/ ~AllTo(net, command)
    BY <1>1, <2>2, <2>3, AllToDrop
  <2>5. reply' = reply \/ reply' = <<>>
    BY <1>11 DEF ReplyTimeout
  <2> QED
    BY <1>8, <2>1, <2>4, <2>5, AllToEmpty
<1>12. CASE JudgeWrite \/ JudgeRead
  <2>1. Busy /\ Busy'
    BY <1>12 DEF JudgeWrite, JudgeRead, TryAgain, Busy
  <2>2. UNCHANGED <<visit, place, dispatched, late, net, reply>>
    BY <1>12 DEF JudgeWrite, JudgeRead, cursor, queues, stream, sending
  <2> QED
    BY <1>8, <2>1, <2>2
<1>13. CASE GroundSends \/ Close \/ UNCHANGED vars
  BY <1>2, <1>13 DEF GroundSends, Close, vars, cursor, queues, stream, sending
<1> QED
  BY <1>3, <1>4, <1>6, <1>7, <1>9, <1>10, <1>11, <1>12, <1>13 DEF Next, Formatter

\* If the flush emptied the stream and no earlier command of the visit left any
\* of its replies there, the bytes taken for the reply to a command are of the
\* reply to that command, however its tries and timeouts interleave.
THEOREM RepliesAreOwn == Spec => []OwnReply
<1>1. Init => Owned
  BY DEF Init, Owned, Busy
<1>2. Typed /\ Owned => OwnReply
  <2> SUFFICES ASSUME Typed, Owned, ~late PROVE \A i \in 1 .. Len(reply) : reply[i].to = command
    BY DEF OwnReply
  <2>1. CASE Idle
    <3>1. reply = <<>>
      BY <2>1 DEF Typed, SendingOK
    <3>2. AllTo(reply, command)
      BY <3>1, AllToEmpty
    <3> QED
      BY <3>2 DEF AllTo
  <2>2. CASE Busy
    BY <2>2 DEF Owned, AllTo
  <2> QED
    BY <2>1, <2>2 DEF Typed, VisitOK
<1> QED
  BY <1>1, <1>2, OwnedStep, TypedAlways, PTL DEF Spec

-----------------------------------------------------------------------------
(* What a confirmation that is still to come, or has just been read, says is  *)
(* what became of the one write that the detector got.                        *)

Verdict(r, n) == r[WriteSize].status = IF n = 1 THEN "ok" ELSE "bad"

\* Only a write is tried again, or confirmed.
SingleTry == kind # "write" => try_counter = 0 /\ ~confirmed

\* A write is sent again, on a connection that lasts, only after it was rejected
\* in a confirmation that came whole: nothing of it is then left.  A confirmation
\* that lost a part is never read.
Settled ==
  /\ accepted <= 1
  /\ confirmed => accepted = 1
  /\ Len(net) <= WriteSize
  /\ Len(net) = WriteSize => Verdict(net, accepted)
  /\ pc = "send" /\ ~closed => net = <<>> /\ accepted = 0
  /\ pc = "judge" /\ Len(reply) = WriteSize => net = <<>> /\ Verdict(reply, accepted)
  /\ pc = "judge" /\ Len(reply) # WriteSize /\ ~closed => reply = <<>>

Outcome == ~late /\ Busy /\ kind = "write" => Settled

LEMMA SingleTryStep == Typed /\ SingleTry /\ [Next]_vars => SingleTry'
<1> SUFFICES ASSUME Typed, SingleTry, [Next]_vars PROVE SingleTry'
  OBVIOUS
<1>1. CASE UNCHANGED <<kind, try_counter, confirmed>>
  BY <1>1 DEF SingleTry
<1>2. CASE NextSystem
  BY <1>2 DEF NextSystem, SingleTry
<1>3. CASE Dispatch
  <2>1. CASE ~NextSystem
    <3>1. try_counter = 0 /\ ~confirmed
      BY <1>3 DEF Typed, SendingOK, Dispatch, Idle
    <3>2. UNCHANGED <<try_counter, confirmed>>
      BY <1>3, <2>1 DEF Dispatch
    <3> QED
      BY <3>1, <3>2 DEF SingleTry
  <2> QED
    BY <1>2, <2>1
<1>4. CASE JudgeWrite
  BY <1>4 DEF JudgeWrite, SingleTry
<1>5. CASE SendThrows \/ Finish
  BY <1>2, <1>5 DEF SendThrows, Finish
<1>6. CASE ReceiveUplink \/ UplinkTimeout \/ Flush \/ Send \/ ReceiveReply \/ ReplyTimeout
           \/ JudgeRead \/ RestOfVisit \/ Restart \/ GroundSends \/ Close \/ UNCHANGED vars
  BY <1>1, <1>6 DEF ReceiveUplink, UplinkTimeout, Flush, Send, ReceiveReply, ReplyTimeout,
                    JudgeRead, RestOfVisit, Restart, GroundSends, Close, vars, sending
<1> QED
  BY <1>3, <1>4, <1>5, <1>6 DEF Next, Formatter

LEMMA OutcomeStep == Typed /\ Owned /\ Outcome /\ [Next]_vars => Outcome'
<1> SUFFICES ASSUME Typed, Owned, Outcome, [Next]_vars, ~late', Busy', kind' = "write"
             PROVE  Settled'
  BY DEF Outcome
<1>1. /\ VisitOK /\ StreamOK /\ SendingOK /\ net \in Seq(Unit) /\ Len(net) \in Nat
      /\ reply \in Seq(Unit) /\ accepted \in Nat /\ WriteSize \in Nat \ {0}
  <2>1. /\ VisitOK /\ StreamOK /\ SendingOK /\ net \in Seq(Unit)
        /\ reply \in Seq(Unit) /\ accepted \in 0 .. sends /\ sends \in Nat
    BY DEF Typed, StreamOK, SendingOK
  <2>2. accepted \in Nat
    BY <2>1
  <2> QED
    BY <2>1, <2>2, LenProperties, Limits
<1>2. CASE UNCHANGED <<pc, net, kind, closed, late, reply, confirmed, accepted>>
  <2>1. Settled
    BY <1>2 DEF Outcome, Busy
  <2> QED
    BY <1>2, <2>1 DEF Settled
<1>3. CASE ReceiveUplink \/ UplinkTimeout \/ RestOfVisit \/ Restart \/ Flush
  BY <1>3 DEF ReceiveUplink, UplinkTimeout, RestOfVisit, Restart, Flush, ReadOn, Busy
<1>4. CASE NextSystem
  BY <1>4 DEF NextSystem, Busy
<1>5. CASE Dispatch
  <2>1. ~NextSystem
    BY <1>4 DEF NextSystem, Busy
  <2>2. pc' = "send" /\ UNCHANGED <<net, closed, late, reply, confirmed, accepted>>
    BY <1>5, <2>1 DEF Dispatch, stream
  <2>3. Idle /\ pc = "dispatch"
    BY <1>5 DEF Dispatch, Idle
  <2>4. net = <<>>
    BY <2>2, <2>3 DEF Owned
  <2>5. accepted = 0 /\ ~confirmed
    <3>1. sends = 0 /\ accepted \in 0 .. sends /\ ~confirmed
      BY <1>1, <2>3 DEF SendingOK
    <3> QED
      BY <3>1
  <2> QED
    <3>1. net' = <<>> /\ accepted' = 0 /\ ~confirmed'
      BY <2>2, <2>4, <2>5
    <3>2. Len(net') = 0 /\ accepted' <= 1
      BY <3>1
    <3>3. Len(net') <= WriteSize /\ Len(net') # WriteSize
      BY <1>1, <3>2
    <3> QED
      BY <2>2, <3>1, <3>2, <3>3 DEF Settled
<1>6. CASE Send
  <2>1. /\ pc = "send" /\ pc' = "await" /\ kind = "write"
        /\ UNCHANGED <<kind, closed, late, reply, confirmed>>
    BY <1>6 DEF Send
  <2>2. Settled
    BY <2>1 DEF Outcome, Busy
  <2>3. CASE UNCHANGED <<net, accepted>>
    BY <2>1, <2>2, <2>3 DEF Settled
  <2>4. ASSUME ~closed, NEW v \in {"ok", "bad"}, net' = net \o WriteReply(command, v),
               accepted' = IF v = "ok" THEN accepted + 1 ELSE accepted
        PROVE  Settled'
    <3>1. net = <<>> /\ accepted = 0
      BY <2>1, <2>2, <2>4 DEF Settled
    <3>2. command \in Managers \X Nat
      BY <2>1, CommandType DEF Typed, Busy
    <3> DEFINE r == WriteReply(command, v)
    <3>3. r \in Seq(Unit) /\ Len(r) = WriteSize /\ r[WriteSize].status = v
      BY <3>2, WriteReplyType
    <3>4. net' = net \o r
      BY <2>4
    <3> HIDE DEF r
    <3>5. net' = r
      BY <3>1, <3>3, <3>4, ConcatEmptySeq
    <3>6. accepted' = IF v = "ok" THEN 1 ELSE 0
      BY <2>4, <3>1
    <3>7. Verdict(net', accepted')
      BY <2>4, <3>3, <3>5, <3>6 DEF Verdict
    <3>8. Len(net') <= WriteSize /\ accepted' <= 1
      BY <1>1, <3>3, <3>5, <3>6
    <3>9. ~confirmed
      BY <2>2, <3>1 DEF Settled
    <3> QED
      BY <2>1, <3>7, <3>8, <3>9 DEF Settled
  <2>5. \/ UNCHANGED <<net, accepted>>
        \/ ~closed /\ net' = net \o WriteReply(command, "ok") /\ accepted' = accepted + 1
        \/ ~closed /\ net' = net \o WriteReply(command, "bad") /\ accepted' = accepted
    BY <1>6, <2>1 DEF Send
  <2> QED
    BY <2>3, <2>4, <2>5
<1>7. CASE ReceiveReply
  <2>1. /\ pc = "await" /\ pc' = "judge" /\ kind = "write"
        /\ UNCHANGED <<kind, closed, late, confirmed, accepted>>
    BY <1>7 DEF ReceiveReply
  <2>2. Settled
    BY <2>1 DEF Outcome, Busy
  <2>3. ExpectedSize = WriteSize
    BY <2>1 DEF ExpectedSize
  <2>4. Least(ExpectedSize, Len(net)) = Len(net)
    BY <1>1, <2>2, <2>3 DEF Settled, Least
  <2>5. reply' = SubSeq(net, 1, Len(net)) /\ net' = Drop(net, Len(net))
    BY <1>7, <2>4 DEF ReceiveReply
  <2>6. reply' = net
    BY <1>1, <2>5, SubSeqFull
  <2>7. Len(net') = 0 /\ net' \in Seq(Unit)
    BY <1>1, <2>5, DropType
  <2>8. net' = <<>>
    BY <2>7, EmptySeq
  <2>9. Len(reply') # WriteSize => closed
    <3>1. Len(net) >= WriteSize \/ closed
      BY <1>7, <2>3 DEF ReceiveReply
    <3>2. Len(net) <= WriteSize
      BY <2>2 DEF Settled
    <3> QED
      BY <1>1, <2>6, <3>1, <3>2
  <2>10. Len(net') <= WriteSize /\ Len(net') # WriteSize
    BY <1>1, <2>7
  <2> QED
    BY <2>1, <2>2, <2>6, <2>8, <2>9, <2>10 DEF Settled
<1>8. CASE ReplyTimeout
  <2>1. /\ pc = "await" /\ kind = "write" /\ UNCHANGED <<kind, closed, late, confirmed, accepted>>
        /\ pc' = "await" \/ (pc' = "judge" /\ reply' = <<>>)
    BY <1>8 DEF ReplyTimeout
  <2>2. Settled
    BY <2>1 DEF Outcome, Busy
  <2>3. PICK k \in 0 .. Least(Len(net), ExpectedSize - 1) : net' = Drop(net, k)
    BY <1>8 DEF ReplyTimeout
  <2>4. k \in 0 .. Len(net)
    BY <1>1, <2>3, Limits DEF Least, ExpectedSize
  <2>5. /\ Len(net') = Len(net) - k
        /\ \A i \in 1 .. Len(net) - k : net'[i] = net[i + k]
    BY <1>1, <2>3, <2>4, DropType
  <2>6. Len(net') <= WriteSize
    BY <1>1, <2>2, <2>4, <2>5 DEF Settled
  <2>7. ASSUME Len(net') = WriteSize PROVE Verdict(net', accepted')
    <3>1. k = 0 /\ Len(net) = WriteSize
      BY <1>1, <2>2, <2>4, <2>5, <2>7 DEF Settled
    <3>2. net'[WriteSize] = net[WriteSize]
      BY <1>1, <2>5, <3>1
    <3> QED
      BY <2>1, <2>2, <3>1, <3>2 DEF Settled, Verdict
  <2>8. pc' = "judge" => reply' = <<>> /\ Len(reply') # WriteSize
    BY <1>1, <2>1
  <2> QED
    BY <2>1, <2>2, <2>6, <2>7, <2>8 DEF Settled
<1>9. CASE JudgeWrite
  <2>1. /\ pc = "judge" /\ kind = "write" /\ pc' \in {"send", "await", "finished"}
        /\ UNCHANGED <<net, closed, late, reply, accepted>>
    BY <1>9 DEF JudgeWrite, TryAgain, stream
  <2>2. Settled
    BY <2>1 DEF Outcome, Busy
  <2>3. ASSUME confirmed' => accepted = 1,
               pc' = "send" /\ ~closed => net = <<>> /\ accepted = 0
        PROVE  Settled'
    BY <2>1, <2>2, <2>3 DEF Settled
  <2>4. CASE Len(reply) # WriteSize
    <3>1. UNCHANGED confirmed /\ (pc' = "send" => RewriteAfter(reply))
      BY <1>9, <2>4 DEF JudgeWrite, TryAgain
    <3>2. pc' = "send" => closed
      BY <2>1, <2>2, <2>4, <3>1 DEF Settled, RewriteAfter
    <3> QED
      BY <2>2, <2>3, <3>1, <3>2 DEF Settled
  <2>5. CASE Len(reply) = WriteSize
    <3>1. net = <<>> /\ Verdict(reply, accepted)
      BY <2>1, <2>2, <2>5 DEF Settled
    <3>2. StatusOf(reply) = {IF accepted = 1 THEN "ok" ELSE "bad"}
      BY <2>5, <3>1 DEF Verdict, StatusOf
    <3>3. CASE "bad" \in StatusOf(reply)
      <4>1. accepted # 1
        BY <3>2, <3>3
      <4>2. accepted = 0
        BY <1>1, <2>2, <4>1 DEF Settled
      <4>3. "ok" \notin StatusOf(reply)
        BY <3>2, <4>1
      <4>4. UNCHANGED confirmed
        BY <1>9, <2>5, <4>3 DEF JudgeWrite, TryAgain
      <4> QED
        BY <2>2, <2>3, <3>1, <4>2, <4>4 DEF Settled
    <3>4. CASE "bad" \notin StatusOf(reply)
      <4>1. accepted = 1
        BY <3>2, <3>4
      <4>2. pc' = "finished"
        BY <1>9, <2>5, <3>4 DEF JudgeWrite
      <4> QED
        BY <2>3, <4>1, <4>2
    <3> QED
      BY <3>3, <3>4
  <2> QED
    BY <2>4, <2>5
<1>10. CASE JudgeRead
  BY <1>10 DEF JudgeRead, sending
<1>11. CASE SendThrows \/ Finish
  BY <1>4, <1>11 DEF SendThrows, Finish
<1>12. CASE GroundSends \/ UNCHANGED vars
  BY <1>2, <1>12 DEF GroundSends, vars, stream, sending
<1>13. CASE Close
  <2>1. UNCHANGED <<pc, net, kind, late, reply, confirmed, accepted>> /\ closed'
    BY <1>13 DEF Close, sending
  <2>2. Settled
    BY <2>1 DEF Outcome, Busy
  <2> QED
    BY <2>1, <2>2 DEF Settled
<1> QED
  BY <1>3, <1>5, <1>6, <1>7, <1>8, <1>9, <1>10, <1>11, <1>12, <1>13 DEF Next, Formatter

\* Under the same condition, and although a write is tried several times with
\* timeouts that may come after the reply has started, the detector accepts it
\* at most once, and it is taken for confirmed only if it was accepted.
THEOREM OutcomeHolds == Spec => []OutcomeIsTrue
<1>1. Init => Owned /\ SingleTry /\ Outcome
  BY DEF Init, Owned, SingleTry, Outcome, Busy
<1>2. Typed /\ SingleTry /\ Outcome => OutcomeIsTrue
  <2> SUFFICES ASSUME Typed, SingleTry, Outcome, ~late
               PROVE  accepted <= 1 /\ (confirmed => accepted = 1)
    BY DEF OutcomeIsTrue
  <2>1. /\ sends \in Nat /\ accepted \in 0 .. sends /\ sends <= try_counter + 1
        /\ Idle => sends = 0 /\ ~confirmed
        /\ Idle \/ Busy
    BY DEF Typed, SendingOK, VisitOK
  <2>2. CASE Idle
    BY <2>1, <2>2
  <2>3. CASE Busy /\ kind = "write"
    BY <2>3 DEF Outcome, Settled
  <2>4. CASE kind # "write"
    <3>1. try_counter = 0 /\ ~confirmed
      BY <2>4 DEF SingleTry
    <3>2. accepted <= 1
      BY <2>1, <3>1
    <3> QED
      BY <3>1, <3>2
  <2> QED
    BY <2>1, <2>2, <2>3, <2>4
<1> QED
  BY <1>1, <1>2, OwnedStep, SingleTryStep, OutcomeStep, TypedAlways, PTL DEF Spec
=============================================================================
