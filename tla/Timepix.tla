------------------------------- MODULE Timepix -------------------------------
(***************************************************************************)
(* How the Formatter polls the Timepix detector over a serial line.        *)
(*                                                                         *)
(* Every visit asks for flags, housekeeping, rates and pcap, one after the *)
(* other, and puts the first three in one health packet, with zeros for a  *)
(* reply that is missing.  A reply is as many bytes as the reply to this   *)
(* request should have, whatever they are; a read that times out throws    *)
(* away what it had, and what comes later stays on the line, which nothing *)
(* ever flushes.  A unit is a run of bytes that only a timeout splits.     *)
(***************************************************************************)
EXTENDS Integers, Sequences

CONSTANTS
  Size,        \* [Requests -> units of the reply]
  RetryMax,    \* Timing::retry_max_count
  MaxCommands, \* bound: commands from the ground
  MaxLost,     \* bound: requests and replies lost, and restarts
  MaxLate      \* bound: timeouts that a reply misses

Fields   == <<"flags", "hk", "rates">>
Requests == {"ping", "command", "flags", "hk", "rates", "pcap"}

ASSUME SizeAssumption ==
  /\ Size \in [Requests -> Nat \ {0}]
  /\ RetryMax \in Nat \ {0}
  /\ {MaxCommands, MaxLost, MaxLate} \subseteq Nat

VARIABLES
  line,         \* units on the serial line that have not been read
  is_open,      \* the serial port could be opened
  system_state, \* SystemManager::system_state
  pc,           \* where the loop is
  request,      \* the request under way
  attempts,     \* failed attempts of the read() under way
  got,          \* [Requests -> Seq(Unit)]: replies of this visit, <<>> if none
  errors,       \* SystemManager::errors
  downlink,     \* TransportLayerMachine::downlink_buffer
  commands, lost, late   \* so far

port  == <<line, is_open>>
local == <<pc, request, attempts, got>>
bound == <<commands, lost, late>>
vars  == <<port, local, system_state, errors, downlink, bound>>

-----------------------------------------------------------------------------
(* Requests, replies and packets.                                          *)

\* A unit of the reply to a request, or a byte the Formatter filled in.
Unit == [of : Requests \cup {"nothing"}, part : Nat]

Answer(r) == [i \in 1 .. Size[r] |-> [of |-> r, part |-> i]]
Zeros(r)  == [i \in 1 .. Size[r] |-> [of |-> "nothing", part |-> 0]]

Least(m, n) == IF m <= n THEN m ELSE n
Drop(s, k)  == SubSeq(s, k + 1, Len(s))

\* Mutant: a missing reply is left out, and the others move up.
FillNothing(r) == got[r]
Fill(r)        == IF got[r] = <<>> THEN Zeros(r) ELSE got[r]

\* Mutant: the fields are in another order.
HealthSwapped == Fill("hk") \o Fill("flags") \o Fill("rates")
Health        == Fill("flags") \o Fill("hk") \o Fill("rates")

Packet     == [type : {"PING", "REPLY", "TPX", "PCAP"}, data : Seq(Unit)]
Pack(t, d) == <<[type |-> t, data |-> d]>>
\* A packet is queued only if there is a reply to put in it.
PackIf(t, d) == IF d = <<>> THEN <<>> ELSE Pack(t, d)

NoReplies == [r \in Requests |-> <<>>]

NothingCame == \A i \in 1 .. 3 : got[Fields[i]] = <<>>

Lose(n)  == lost + n <= MaxLost /\ lost' = lost + n
Delay(n) == late + n <= MaxLate /\ late' = late + n

-----------------------------------------------------------------------------
(* Initialisation, and the beginning of a visit.                           *)

Init ==
  /\ line = <<>> /\ is_open \in BOOLEAN
  /\ system_state = "OFF"
  /\ pc = "init" /\ request = "ping" /\ attempts = 0 /\ got = NoReplies
  /\ errors = {} /\ downlink = <<>>
  /\ commands = 0 /\ lost = 0 /\ late = 0

\* Mutant: the state of the port is not looked at.
AbandonedNever == FALSE
Abandoned      == ~is_open

\* init_timepix: without a port the system is abandoned, otherwise it is pinged.
InitTimepix ==
  /\ pc = "init"
  /\ IF Abandoned THEN /\ system_state' = "ABANDON"
                       /\ pc' = "others"
                  ELSE /\ pc' = "ask"
                       /\ UNCHANGED system_state
  /\ UNCHANGED <<port, request, attempts, got, errors, downlink, bound>>

\* The visits to the other systems, which send the queue, and the status packet
\* with which this one begins, and ends if the system was abandoned.
OtherVisits ==
  /\ pc = "others"
  /\ downlink' = Pack("PING", <<>>)
  /\ pc' = IF system_state = "ABANDON" THEN "others" ELSE "command"
  /\ UNCHANGED <<port, system_state, request, attempts, got, errors, bound>>

\* sync_send_buffer_commands_to_system: no command, or one that asks for nothing,
\* or one that reads.
Command ==
  /\ pc = "command"
  /\ \/ /\ request' = "flags"
        /\ UNCHANGED commands
     \/ /\ commands < MaxCommands
        /\ commands' = commands + 1
        /\ request' = "command"
  /\ pc' = "ask"
  /\ UNCHANGED <<port, system_state, attempts, got, errors, downlink, lost, late>>

-----------------------------------------------------------------------------
(* One request.                                                            *)

\* The request goes out, and is answered or lost.
Ask ==
  /\ pc = "ask"
  /\ \/ line' = line \o Answer(request) /\ UNCHANGED lost
     \/ line' = line /\ Lose(1)
  /\ pc' = "await"
  /\ UNCHANGED <<is_open, system_state, request, attempts, got, errors, downlink, commands,
                 late>>

\* read(): as many units as the reply should have.
Receive ==
  /\ pc = "await"
  /\ Len(line) >= Size[request]
  /\ got' = [got EXCEPT ![request] = SubSeq(line, 1, Size[request])]
  /\ line' = Drop(line, Size[request])
  /\ errors' = errors \ {"reading_packet"}
  /\ attempts' = 0
  /\ pc' = "answered"
  /\ UNCHANGED <<is_open, system_state, request, downlink, bound>>

\* Mutants: a retry too many; a retry that is not counted.
AttemptsLeftOneMore(n) == n <= RetryMax
AttemptsLeft(n)        == n < RetryMax
AttemptsAfterStuck(n)  == 0
AttemptsAfter(n)       == n + 1

\* Too little came in time; what did is thrown away.
Timeout ==
  /\ pc = "await"
  /\ \E k \in 0 .. Least(Len(line), Size[request] - 1) :
       /\ line' = Drop(line, k)
       /\ Delay(IF k = Len(line) THEN 0 ELSE 1)
  /\ IF AttemptsLeft(AttemptsAfter(attempts))
     THEN /\ attempts' = AttemptsAfter(attempts)
          /\ UNCHANGED <<pc, errors>>
     ELSE /\ attempts' = 0
          /\ errors' = errors \cup {"reading_packet"}
          /\ pc' = "answered"
  /\ UNCHANGED <<is_open, system_state, request, got, downlink, commands, lost>>

-----------------------------------------------------------------------------
(* What becomes of the replies.                                            *)

\* The end of init_timepix: without an answer the state stays as it was.
Pinged ==
  /\ pc = "answered"
  /\ request = "ping"
  /\ system_state' = IF got["ping"] # <<>> THEN "LOOP" ELSE system_state
  /\ got' = NoReplies
  /\ pc' = "others"
  /\ UNCHANGED <<port, request, attempts, errors, downlink, bound>>

\* The reply to the ground's command is passed on, and the poll begins.
QueueReply ==
  /\ pc = "answered"
  /\ request = "command"
  /\ downlink' = downlink \o PackIf("REPLY", got["command"])
  /\ request' = "flags"
  /\ pc' = "ask"
  /\ UNCHANGED <<port, system_state, attempts, got, errors, bound>>

After(r) == CASE r = "flags" -> "hk" [] r = "hk" -> "rates" [] r = "rates" -> "pcap"

NextRequest ==
  /\ pc = "answered"
  /\ request \in {"flags", "hk", "rates"}
  /\ request' = After(request)
  /\ pc' = "ask"
  /\ UNCHANGED <<port, system_state, attempts, got, errors, downlink, bound>>

\* Without any of the three replies the visit returns at once, whatever pcap has
\* brought; otherwise the packets are queued.
QueuePackets ==
  /\ pc = "answered"
  /\ request = "pcap"
  /\ IF NothingCame
     THEN /\ pc' = "others"
          /\ got' = NoReplies
          /\ UNCHANGED downlink
     ELSE /\ pc' = "drain"
          /\ downlink' = downlink \o Pack("TPX", Health) \o PackIf("PCAP", got["pcap"])
          /\ UNCHANGED got
  /\ UNCHANGED <<port, system_state, request, attempts, errors, bound>>

Drain ==
  /\ pc = "drain"
  /\ downlink' = <<>>
  /\ got' = NoReplies
  /\ pc' = "others"
  /\ UNCHANGED <<port, system_state, request, attempts, errors, bound>>

\* The program ends and starts again; the port may open or not, and what the
\* Timepix was still sending may be found on it.
Restart ==
  /\ Lose(1)
  /\ \E k \in 0 .. Len(line) : /\ line' = Drop(line, k)
                               /\ Delay(IF k = Len(line) THEN 0 ELSE 1)
  /\ is_open' \in BOOLEAN
  /\ system_state' = "OFF"
  /\ pc' = "init" /\ request' = "ping" /\ attempts' = 0 /\ got' = NoReplies
  /\ errors' = {} /\ downlink' = <<>>
  /\ UNCHANGED commands

Formatter ==
  \/ InitTimepix
  \/ OtherVisits
  \/ Command
  \/ Ask
  \/ Receive
  \/ Timeout
  \/ Pinged
  \/ QueueReply
  \/ NextRequest
  \/ QueuePackets
  \/ Drain

Next == Formatter \/ Restart

Spec     == Init /\ [][Next]_vars
LiveSpec == Spec /\ WF_vars(Formatter)

-----------------------------------------------------------------------------
(* Properties.                                                             *)

TypeOK ==
  /\ line \in Seq(Unit) /\ is_open \in BOOLEAN
  /\ system_state \in {"OFF", "LOOP", "ABANDON"}
  /\ pc \in {"init", "others", "command", "ask", "await", "answered", "drain"}
  /\ request \in Requests
  /\ attempts \in 0 .. RetryMax - 1
  /\ got \in [Requests -> Seq(Unit)]
  /\ errors \subseteq {"reading_packet"}
  /\ downlink \in Seq(Packet)
  /\ commands \in 0 .. MaxCommands /\ lost \in 0 .. MaxLost /\ late \in 0 .. MaxLate

\* Field i of a health packet.
FieldStart(i) == CASE i = 1 -> 0
                   [] i = 2 -> Size["flags"]
                   [] i = 3 -> Size["flags"] + Size["hk"]
Field(d, i)   == SubSeq(d, FieldStart(i) + 1, FieldStart(i) + Size[Fields[i]])

FieldIsTrue(d, i) == Field(d, i) \in {Answer(Fields[i]), Zeros(Fields[i])}

\* What the ground is sent is what the types of the packets say: every field of a
\* health packet is the reply to its request, or zeros.
PacketIsTrue(p) ==
  CASE p.type = "PING"  -> p.data = <<>>
    [] p.type = "REPLY" -> p.data = Answer("command")
    [] p.type = "PCAP"  -> p.data = Answer("pcap")
    [] p.type = "TPX"   -> \A i \in 1 .. 3 : FieldIsTrue(p.data, i)

PacketsAreTrue == \A i \in 1 .. Len(downlink) : PacketIsTrue(downlink[i])

\* Requests and replies that are lost never put a reply in the place of another.
PacketsAreTrueInTime == late = 0 => PacketsAreTrue

\* Whatever came late, a health packet has its length, so that its fields can be
\* told apart, and at least one of them was sent by the Timepix.
HealthLength == Size["flags"] + Size["hk"] + Size["rates"]
HealthIsWhole ==
  \A i \in 1 .. Len(downlink) : downlink[i].type = "TPX" =>
    /\ Len(downlink[i].data) = HealthLength
    /\ \E j \in 1 .. 3 : Field(downlink[i].data, j) # Zeros(Fields[j])

\* A Timepix that cannot be reached is left alone: nothing is ever sent to, or
\* waited for on, a port that is not open.
ClosedPortIsLeftAlone == ~is_open => pc \in {"init", "others"}

\* Health packets go on being sent, unless the system was abandoned for good.
HealthGoesOn ==
  <>[](system_state # "ABANDON") => []<>(\E i \in 1 .. Len(downlink) : downlink[i].type = "TPX")

\* A TPX packet is documented to hold housekeeping, software status and rates: in
\* the end, when nothing is late any more, that should be so again.
RecoversStep == <>[]PacketsAreTrue
=============================================================================
