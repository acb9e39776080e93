------------------------------ MODULE Housekeeping ------------------------------
(***************************************************************************)
(* How the Formatter polls the housekeeping board for power, temperatures  *)
(* and the board's own state.                                              *)
(*                                                                         *)
(* The ground chooses what is polled with commands that never reach the    *)
(* board (handle_intercept_cmd).  Every second successful visit sends the  *)
(* requests over UDP, one at a time, and packs the replies for the ground; *)
(* a visit in which a reply is missing ends early and is repeated.  A      *)
(* temperature sensor measures when it is told to, which is right after    *)
(* its last measurement was read.                                          *)
(*                                                                         *)
(* A reply is the next datagram of the socket, whatever request it is the  *)
(* answer to: nothing in it is compared with the request, and Circle::flush *)
(* reads the socket of the detectors only.                                 *)
(***************************************************************************)
EXTENDS Integers, Sequences

CONSTANTS
  RetryMax,     \* Timing::retry_max_count
  LoopEvery,    \* HOUSEKEEPING_LOOP_EVERY: 2 in the code
  Measurements, \* bound: measurements are numbered modulo this
  MaxCommands,  \* bound: commands that the ground sends
  MaxLost,      \* bound: requests, replies and restarts that are lost
  MaxLate       \* bound: replies that miss their timeout and come later

ASSUME BoundsAssumption ==
  /\ {RetryMax, LoopEvery} \subseteq Nat \ {0}
  /\ Measurements \in Nat /\ Measurements > 1
  /\ {MaxCommands, MaxLost, MaxLate} \subseteq Nat

VARIABLES
  inbox,       \* datagrams in local_udp_housekeeping_sock
  measurement, \* [Sensors -> number of the measurement a sensor holds]
  sent,        \* [Sensors -> number of the measurement last queued as its own]
  pc,          \* where the loop is
  todo,        \* requests this visit has still to make, the current one first
  attempts,    \* failed attempts of the read_udp() under way
  got,         \* [Requests -> Seq(Reply)]: replies of this visit, <<>> if none
  zero_found,  \* a reply of this visit's poll is missing: zero_finder == 0
  enable,      \* SystemManager::enable, a set for its bits
  counter,     \* SystemManager::counter, modulo LoopEvery
  errors,      \* SystemManager::errors
  downlink,    \* TransportLayerMachine::downlink_buffer
  commands, lost, late   \* so far

board == <<inbox, measurement>>
local == <<pc, todo, attempts, got, zero_found>>
bound == <<commands, lost, late>>
vars  == <<board, sent, local, enable, counter, errors, downlink, bound>>

-----------------------------------------------------------------------------
(* Requests, replies and packets.                                          *)

Sensors  == {"temp1", "temp2"}
Bits     == {"power", "temperature", "introspection"}
Requests == Sensors \cup {"power", "clock", "state", "error", "command"}

\* What the board answers: which request it answers, and which measurement.
Reply == [of : Requests, number : 0 .. Measurements - 1]

AnswerTo(r) ==
  [of |-> r, number |-> IF r \in Sensors THEN measurement[r] ELSE 0]

\* What the ground is told: the type of a packet and the replies in it.
Types  == {"PING", "POW", "RTD 1", "RTD 2", "INTRO", "REPLY"}
Packet == [type : Types, data : Seq(Reply)]

Pack(t, d) == <<[type |-> t, data |-> d]>>

\* A packet is queued only if there is a reply to put in it.
PackIf(t, d) == IF d = <<>> THEN <<>> ELSE Pack(t, d)

\* The requests behind each bit of `enable', in the order of the code.
Asked(bit, rs) == IF bit \in enable THEN rs ELSE <<>>
Poll == Asked("power", <<"power">>)
          \o Asked("temperature", <<"temp1", "temp2">>)
          \o Asked("introspection", <<"clock", "state", "error">>)

DueNow == counter = 0

\* Mutant: the two temperatures are packed the wrong way round.
SensorTypeSwapped(s) == IF s = "temp1" THEN "RTD 2" ELSE "RTD 1"
SensorType(s)        == IF s = "temp1" THEN "RTD 1" ELSE "RTD 2"

Lose(n)  == lost + n <= MaxLost /\ lost' = lost + n
Delay(n) == late + n <= MaxLate /\ late' = late + n

NoReplies == [r \in Requests |-> <<>>]

-----------------------------------------------------------------------------
(* The beginning of a visit.                                               *)

\* init_housekeeping has set the sensors up and started a measurement of each.
Init ==
  /\ inbox = <<>>
  /\ measurement = [s \in Sensors |-> 1]
  /\ sent = [s \in Sensors |-> 0]
  /\ pc = "others"
  /\ todo = <<>> /\ attempts = 0 /\ got = NoReplies /\ zero_found = FALSE
  /\ enable = {} /\ counter = 0 /\ errors = {}
  /\ downlink = <<>>
  /\ commands = 0 /\ lost = 0 /\ late = 0

\* The visits to the other systems: they send what is queued, this board's
\* packets included, and the housekeeping visit begins with a status packet.
OtherVisits ==
  /\ pc = "others"
  /\ downlink' = Pack("PING", <<>>)
  /\ pc' = "command"
  /\ UNCHANGED <<board, sent, todo, attempts, got, zero_found, enable, counter, errors,
                 bound>>

\* The commands 0x30 .. 0x34 set and clear the bits, and stop here.
Bitsets == {{"power"}, {"temperature"}, {"power", "temperature"}, {"introspection"}}

\* A sensor takes its next measurement, which replaces the one it holds.
Measure(ss) ==
  measurement' = [s \in Sensors |->
    IF s \in ss THEN (measurement[s] + 1) % Measurements ELSE measurement[s]]

\* sync_send_buffer_commands_to_system: no command, an intercepted one, one that
\* reads from the board, or one that starts a measurement.
Command ==
  /\ pc = "command"
  /\ \/ /\ UNCHANGED <<enable, commands, measurement>>
        /\ pc' = "poll"
        /\ todo' = <<>>
     \/ /\ commands < MaxCommands
        /\ commands' = commands + 1
        /\ \/ /\ \/ enable' = {}
                 \/ \E bits \in Bitsets : enable' = enable \cup bits
              /\ pc' = "poll"
              /\ todo' = <<>>
              /\ UNCHANGED measurement
           \/ /\ pc' = "ask"
              /\ todo' = <<"command">>
              /\ UNCHANGED <<enable, measurement>>
           \/ /\ \E s \in Sensors : Measure({s})
              /\ pc' = "poll"
              /\ todo' = <<>>
              /\ UNCHANGED enable
  /\ UNCHANGED <<inbox, sent, attempts, got, zero_found, counter, errors, downlink, lost,
                 late>>

StartPoll ==
  /\ pc = "poll"
  /\ todo' = IF DueNow THEN Poll ELSE <<>>
  /\ pc' = IF todo' = <<>> THEN "leave" ELSE "ask"
  /\ UNCHANGED <<board, sent, attempts, got, zero_found, enable, counter, errors, downlink,
                 bound>>

-----------------------------------------------------------------------------
(* One request.                                                            *)

\* sync_send_command_to_system: the request goes out, and is answered or lost.
Ask ==
  /\ pc = "ask"
  /\ \/ inbox' = Append(inbox, AnswerTo(Head(todo))) /\ UNCHANGED lost
     \/ inbox' = inbox /\ Lose(1)
  /\ pc' = "await"
  /\ UNCHANGED <<measurement, sent, todo, attempts, got, zero_found, enable, counter,
                 errors, downlink, commands, late>>

\* read_udp: the first datagram of the socket.
Receive ==
  /\ pc = "await"
  /\ inbox # <<>>
  /\ got' = [got EXCEPT ![Head(todo)] = <<Head(inbox)>>]
  /\ inbox' = Tail(inbox)
  /\ errors' = errors \ {"reading_packet"}
  /\ attempts' = 0
  /\ pc' = "answered"
  /\ UNCHANGED <<measurement, sent, todo, zero_found, enable, counter, downlink, bound>>

\* Nothing came in time, and after the last attempt there is no reply.
Timeout ==
  /\ pc = "await"
  /\ Delay(IF inbox = <<>> THEN 0 ELSE 1)
  /\ IF attempts + 1 < RetryMax
     THEN attempts' = attempts + 1 /\ UNCHANGED <<pc, got, zero_found, errors>>
     ELSE /\ attempts' = 0
          /\ errors' = errors \cup {"reading_packet"}
          /\ zero_found' = (zero_found \/ Head(todo) # "command")
          /\ pc' = "answered"
          /\ UNCHANGED got
  /\ UNCHANGED <<board, sent, todo, enable, counter, downlink, commands, lost>>

\* The visit goes on with the next request, or to its end.
GoOn ==
  /\ todo' = Tail(todo)
  /\ pc' = IF Head(todo) = "command" THEN "poll"
           ELSE IF Tail(todo) = <<>> THEN "leave" ELSE "ask"

\* A reply that needs no packet of its own yet.
Keep ==
  /\ pc = "answered"
  /\ Head(todo) \in {"temp1", "clock", "state"}
  /\ GoOn
  /\ UNCHANGED <<board, sent, attempts, got, zero_found, enable, counter, errors, downlink,
                 bound>>

QueueReply ==
  /\ pc = "answered"
  /\ Head(todo) \in {"power", "command"}
  /\ downlink' = downlink \o PackIf(IF Head(todo) = "power" THEN "POW" ELSE "REPLY",
                                    got[Head(todo)])
  /\ GoOn
  /\ UNCHANGED <<board, sent, attempts, got, zero_found, enable, counter, errors, bound>>

\* Mutant: every sensor is restarted, read or not.
RestartAll == Sensors
ToRestart  == {s \in Sensors : got[s] # <<>>}

\* Both sensors were asked: queue what they answered, and start the next
\* measurement of those that did (a command that may get lost).
QueueTemperatures ==
  /\ pc = "answered"
  /\ Head(todo) = "temp2"
  /\ downlink' = downlink \o PackIf(SensorType("temp1"), got["temp1"])
                        \o PackIf(SensorType("temp2"), got["temp2"])
  /\ sent' = [s \in Sensors |-> IF got[s] # <<>> THEN got[s][1].number ELSE sent[s]]
  /\ \E started \in SUBSET ToRestart :
       /\ Lose(IF started = ToRestart THEN 0 ELSE 1)
       /\ Measure(started)
  /\ GoOn
  /\ UNCHANGED <<inbox, attempts, got, zero_found, enable, counter, errors, commands, late>>

\* The three introspection replies go in one packet, if all came.
QueueIntro ==
  /\ pc = "answered"
  /\ Head(todo) = "error"
  /\ downlink' = downlink \o
       IF \A r \in {"clock", "state", "error"} : got[r] # <<>>
       THEN Pack("INTRO", got["clock"] \o got["state"] \o got["error"])
       ELSE <<>>
  /\ GoOn
  /\ UNCHANGED <<board, sent, attempts, got, zero_found, enable, counter, errors, bound>>

\* Mutants: the counter does not come round to 0, or never stops; a failed visit
\* counts too.
CountVisitStuck(n)   == IF n + 1 < LoopEvery THEN n + 1 ELSE n
CountVisitForever(n) == n + 1
CountVisit(n)        == (n + 1) % LoopEvery
CountAlways(n, zero) == CountVisit(n)
CountAfter(n, zero)  == IF zero THEN n ELSE CountVisit(n)

\* A visit without a missing reply is counted and sends the queue; one with a
\* missing reply returns at once, and leaves its packets to the next visit.
Leave ==
  /\ pc = "leave"
  /\ counter' = CountAfter(counter, zero_found)
  /\ downlink' = IF zero_found THEN downlink ELSE <<>>
  /\ got' = NoReplies
  /\ zero_found' = FALSE
  /\ pc' = "others"
  /\ UNCHANGED <<board, sent, todo, attempts, enable, errors, bound>>

\* The program ends and starts again: it sets the sensors up and polls nothing
\* until the ground says so.
Restart ==
  /\ Lose(1)
  /\ inbox' = <<>>
  /\ Measure(Sensors)
  /\ pc' = "others"
  /\ todo' = <<>> /\ attempts' = 0 /\ got' = NoReplies /\ zero_found' = FALSE
  /\ enable' = {} /\ counter' = 0 /\ errors' = {}
  /\ downlink' = <<>>
  /\ UNCHANGED <<sent, commands, late>>

Formatter ==
  \/ OtherVisits
  \/ Command
  \/ StartPoll
  \/ Ask
  \/ Receive
  \/ Timeout
  \/ Keep
  \/ QueueReply
  \/ QueueTemperatures
  \/ QueueIntro
  \/ Leave

Next == Formatter \/ Restart

Spec     == Init /\ [][Next]_vars
LiveSpec == Spec /\ WF_vars(Formatter)

-----------------------------------------------------------------------------
(* Properties.                                                             *)

TypeOK ==
  /\ inbox \in Seq(Reply)
  /\ measurement \in [Sensors -> 0 .. Measurements - 1]
  /\ sent \in [Sensors -> 0 .. Measurements - 1]
  /\ pc \in {"others", "command", "poll", "ask", "await", "answered", "leave"}
  /\ todo \in Seq(Requests)
  /\ pc \in {"ask", "await", "answered"} => todo # <<>>
  /\ attempts \in 0 .. RetryMax - 1
  /\ got \in [Requests -> Seq(Reply)]
  /\ zero_found \in BOOLEAN
  /\ enable \subseteq Bits
  /\ counter \in 0 .. LoopEvery - 1
  /\ errors \subseteq {"reading_packet"}
  /\ downlink \in Seq(Packet)
  /\ commands \in 0 .. MaxCommands /\ lost \in 0 .. MaxLost /\ late \in 0 .. MaxLate

\* The replies that belong in a packet of each type.
Belongs(t) ==
  CASE t = "PING"  -> <<>>
    [] t = "POW"   -> <<"power">>
    [] t = "RTD 1" -> <<"temp1">>
    [] t = "RTD 2" -> <<"temp2">>
    [] t = "INTRO" -> <<"clock", "state", "error">>
    [] t = "REPLY" -> <<"command">>

Labelled(p) ==
  /\ Len(p.data) = Len(Belongs(p.type))
  /\ \A i \in 1 .. Len(p.data) : p.data[i].of = Belongs(p.type)[i]

\* The ground reads a packet by its type, and the type is true.
LabelsAreTrue == \A i \in 1 .. Len(downlink) : Labelled(downlink[i])

\* Lost requests and replies never put data under a wrong label; only a reply
\* that comes after its timeout does.
LabelsAreTrueInTime == late = 0 => LabelsAreTrue

\* Unless the ground or a restart asks for it, a sensor is told to measure again
\* only when the measurement it holds has been queued for the ground: however many
\* replies are lost, none is overwritten.
NoMeasurementSkipped ==
  [][late = 0 => \A s \in Sensors :
       measurement'[s] # measurement[s] =>
         sent'[s] = measurement[s] \/ pc = "command" \/ Restart]_vars

\* A visit that missed a reply is repeated: the counter, which decides whether
\* the next visit polls, does not move until a poll got all its replies.
CompletePoll == \A i \in 1 .. Len(Poll) : got[Poll[i]] # <<>>
CountedWhenComplete ==
  [][counter = 0 /\ counter' # 0 => CompletePoll]_vars

\* What the ground enabled it goes on getting, whatever was lost before.
Polled(bit, type) ==
  <>[](bit \in enable) => []<>(\E i \in 1 .. Len(downlink) : downlink[i].type = type)
PollingGoesOn ==
  /\ Polled("power", "POW")
  /\ Polled("temperature", "RTD 1")
  /\ Polled("temperature", "RTD 2")
  /\ Polled("introspection", "INTRO")
=============================================================================
