----------------------------- MODULE CommandUplink -----------------------------
(***************************************************************************)
(* How a command gets from the ground to a detector.                       *)
(*                                                                         *)
(* The ground sends a command as two bytes, a system and a code, on a      *)
(* serial line.  Every visit of the main loop starts by reading pairs of   *)
(* bytes and queueing them by system (record_uplink), discards what the    *)
(* TCP socket holds (flush), and then gives each system of this visit the  *)
(* first command of its queue (sync_send_buffer_commands_to_system).  A    *)
(* write that asks for a confirmation is tried up to eight times.          *)
(*                                                                         *)
(* Nothing frames the pairs: a read that times out between two bytes       *)
(* throws one away, and what follows is paired the wrong way round.  And   *)
(* nothing ties a reply to its command: the next bytes of the stream are   *)
(* taken for it.  The stream is a sequence of units, as in FrameReadout.   *)
(***************************************************************************)
EXTENDS Integers, Sequences, FiniteSets

CONSTANTS
  Cycle,       \* the visits of the loop: the systems each gives a command to
  Queued,      \* codes of the systems that have an uplink queue
  Uplink,      \* the manager of the uplink itself, which has none
  Deck,        \* kind of each known pair <<system, code>>
  Uplinks,     \* pairs that the ground sends
  PairsMax,    \* pairs read in one visit: 8 in the code
  TriesMax,    \* tries of a write: 8 in the code
  RetryMax,    \* Timing::retry_max_count
  WriteSize,   \* units of the confirmation of a write
  ReadSize,    \* units of the reply to a read
  CounterMod,  \* the counter is sent as one byte: 256 in the code
  MaxUplinks,  \* bound: commands the ground sends
  MaxTorn,     \* bound: pairs of which a timeout takes the first byte
  MaxFaults    \* bound: lost, late and rejected exchanges with detectors

Kinds == {"write", "write only", "read", "refused", "unknown"}
Pairs == DOMAIN Deck

ASSUME DeckAssumption ==
  /\ Deck \in [Pairs -> Kinds \ {"unknown"}]
  /\ \A p \in Pairs \cup Uplinks : p = <<p[1], p[2]>>
  /\ Uplink \notin Queued
  /\ Cycle \in Seq(Seq(Queued))
  /\ Cycle # <<>>

ASSUME LimitsAssumption ==
  /\ {PairsMax, TriesMax, RetryMax, WriteSize, ReadSize, CounterMod} \subseteq Nat \ {0}
  /\ {MaxUplinks, MaxTorn, MaxFaults} \subseteq Nat

VARIABLES
  uplinked,     \* every pair the ground has begun to send
  half,         \* the second byte of the last pair is still to come
  uart,         \* bytes on the serial line that have not been read
  visit,        \* place in Cycle
  place,        \* place of the system in the visit
  pc,           \* where the loop is in this visit
  pairs,        \* pairs read in this visit
  attempts,     \* failed attempts of the read() under way
  uplink_buffer,\* [Queued -> Seq(code)]
  counter,      \* SystemManager::counter of the uplink
  errors,       \* [Queued \cup {Uplink} -> SUBSET ErrorFlags]
  net,          \* units of the TCP stream that have not been read
  closed,       \* the other end has closed the connection
  kind,         \* kind of the command being sent
  try_counter, write_again, reply,     \* locals of sync_send_command_to_system
  confirmed,    \* its write was confirmed
  sends,        \* times it was sent
  accepted,     \* times the detector accepted it
  late,         \* the stream may hold replies to other requests
  dispatched,   \* [Queued -> Seq(code)]: what left the queue, in order
  failed,       \* systems for which a write ended without confirmation
  torn,         \* pairs torn, and connections lost, so far
  faults        \* faults so far

ground  == <<uplinked, half>>
line    == <<uart, torn>>
cursor  == <<visit, place>>
reading == <<pairs, attempts>>
queues  == <<uplink_buffer, counter, dispatched>>
stream  == <<net, closed, faults>>
sending == <<kind, try_counter, write_again, reply, confirmed, sends, accepted>>
record  == <<errors, failed>>
vars    == <<ground, line, cursor, pc, reading, queues, stream, sending, record, late>>

-----------------------------------------------------------------------------
(* Commands, replies and flags.                                            *)

ErrorFlags == {"reading_packet", "reading_invalid", "writing_invalid",
               "uplink_forwarding"}

Managers == Queued \cup {Uplink}
Bytes    == UNION {{p[1], p[2]} : p \in Uplinks}
Kind(s, c) == IF <<s, c>> \in Pairs THEN Deck[<<s, c>>] ELSE "unknown"

Least(m, n)  == IF m <= n THEN m ELSE n
Drop(s, k)   == SubSeq(s, k + 1, Len(s))

sys == Cycle[visit][place]

\* The command being sent, which is the last that left the queue of its system,
\* and what stands for a request that is none.
command   == <<sys, Len(dispatched[sys])>>
NoCommand == <<Uplink, 0>>

\* A unit of a reply: to which command, and the status if it is that unit.
Unit == [to : Managers \X Nat, status : {"body", "ok", "bad"}]

Body(c, k)       == [i \in 1 .. k |-> [to |-> c, status |-> "body"]]
WriteReply(c, s) == Append(Body(c, WriteSize - 1), [to |-> c, status |-> s])

ExpectedSize == IF kind = "write" THEN WriteSize ELSE ReadSize

\* The status byte is sought at its place, whatever the bytes are.
StatusOf(r) == LET u == r[Len(r)]
               IN  IF u.status = "body" THEN {"ok", "bad"} ELSE {u.status}

Raise(s, fs) == errors' = [errors EXCEPT ![s] = @ \cup fs]
Clear(s, fs) == errors' = [errors EXCEPT ![s] = @ \ fs]
Cost(n)      == /\ faults + n <= MaxFaults
                /\ faults' = faults + n

-----------------------------------------------------------------------------
(* The ground and the serial line.                                         *)

Init ==
  /\ uplinked = <<>> /\ half = FALSE /\ uart = <<>>
  /\ visit = 1 /\ place = 1 /\ pc = "uplink" /\ pairs = 0 /\ attempts = 0
  /\ uplink_buffer = [s \in Queued |-> <<>>]
  /\ dispatched = [s \in Queued |-> <<>>]
  /\ counter = 0
  /\ errors = [s \in Managers |-> {}]
  /\ net = <<>> /\ closed = FALSE /\ late = FALSE
  /\ kind = "unknown" /\ try_counter = 0 /\ write_again = TRUE /\ reply = <<>>
  /\ confirmed = FALSE /\ sends = 0 /\ accepted = 0
  /\ failed = {} /\ torn = 0 /\ faults = 0

\* One byte of a command.
GroundSends ==
  /\ \/ /\ ~half
        /\ Len(uplinked) < MaxUplinks
        /\ \E p \in Uplinks : /\ uplinked' = Append(uplinked, p)
                              /\ uart' = Append(uart, p[1])
     \/ /\ half
        /\ uart' = Append(uart, uplinked[Len(uplinked)][2])
        /\ UNCHANGED uplinked
  /\ half' = ~half
  /\ UNCHANGED <<torn, cursor, pc, reading, queues, stream, sending, record, late>>

\* sync_uart_receive_to_uplink_buffer goes on, or returns to the visit.
ReadOn(n) ==
  /\ attempts' = 0
  /\ IF n < PairsMax THEN pairs' = n /\ pc' = "uplink"
                     ELSE pairs' = 0 /\ pc' = "flush"

\* Mutant: the counter does not wrap.
CountOneUnwrapped(n) == n + 1
CountOne(n)          == (n + 1) % CounterMod

\* Mutant: a code that the deck does not know is not queued but counted.
EnqueueKnown(s, c) ==
  uplink_buffer' = IF Kind(s, c) = "unknown" THEN uplink_buffer
                   ELSE [uplink_buffer EXCEPT ![s] = Append(@, c)]
\* Mutant: the newest command goes first.
EnqueueFirst(s, c) == uplink_buffer' = [uplink_buffer EXCEPT ![s] = <<c>> \o @]
Enqueue(s, c)      == uplink_buffer' = [uplink_buffer EXCEPT ![s] = Append(@, c)]

\* A pair of bytes is read.  A system without a queue ends the reading and is
\* flagged, by a flag that nothing clears.
ReceiveUplink ==
  /\ pc = "uplink"
  /\ Len(uart) >= 2
  /\ uart' = Drop(uart, 2)
  /\ IF uart[1] \in Queued
     THEN /\ Enqueue(uart[1], uart[2])
          /\ counter' = CountOne(counter)
          /\ Clear(Uplink, {"reading_packet"})
          /\ ReadOn(pairs + 1)
     ELSE /\ errors' = [errors EXCEPT ![Uplink] =
                          (@ \ {"reading_packet"}) \cup {"uplink_forwarding"}]
          /\ ReadOn(PairsMax)
          /\ UNCHANGED <<uplink_buffer, counter>>
  /\ UNCHANGED <<ground, torn, cursor, dispatched, stream, sending, failed, late>>

\* Mutant: a lone byte is kept for the next read.
LeftOnLineKept == uart
LeftOnLine     == <<>>

\* Less than a pair arrived in time: a lone byte is thrown away.
UplinkTimeout ==
  /\ pc = "uplink"
  /\ Len(uart) < 2
  /\ torn' = torn + (IF uart # <<>> /\ half THEN 1 ELSE 0)
  /\ torn' <= MaxTorn
  /\ uart' = LeftOnLine
  /\ IF attempts + 1 < RetryMax
     THEN attempts' = attempts + 1 /\ UNCHANGED <<pc, pairs, errors>>
     ELSE Raise(Uplink, {"reading_packet"}) /\ ReadOn(PairsMax)
  /\ UNCHANGED <<ground, cursor, queues, stream, sending, failed, late>>

-----------------------------------------------------------------------------
(* One visit: flush, one command for each system, the rest of the visit.   *)

\* Mutant: the flush leaves what is there.
DiscardNothing(k) == net
Discard(k)        == Drop(net, k)

\* Circle::flush discards what arrives within 1 ms.
Flush ==
  /\ pc = "flush"
  /\ \E k \in 0 .. Len(net) :
       /\ Cost(IF k = Len(net) THEN 0 ELSE 1)
       /\ net' = Discard(k)
       /\ late' = (k < Len(net))
  /\ pc' = "dispatch"
  /\ UNCHANGED <<ground, line, cursor, reading, queues, closed, sending, record>>

\* The visit turns to its next system; replies that are still to come are now
\* replies to another request.
NextSystem ==
  /\ place' = place + 1
  /\ pc' = "dispatch"
  /\ late' = (late \/ net # <<>>)
  /\ kind' = "unknown" /\ try_counter' = 0 /\ write_again' = TRUE /\ reply' = <<>>
  /\ confirmed' = FALSE /\ sends' = 0 /\ accepted' = 0

\* Mutants: only the first system of a visit is served; the newest command first.
FirstServed(v, p) == p <= 1 /\ p <= Len(Cycle[v])
Served(v, p)      == p <= Len(Cycle[v])
TakeLast(q)       == SubSeq(q, 1, Len(q) - 1)
Take(q)           == Tail(q)

\* sync_send_buffer_commands_to_system: nothing to send, or a command that is
\* not sent (a frame read, an intercepted command, one the deck does not know),
\* or one to send.
Dispatch ==
  /\ pc = "dispatch"
  /\ Served(visit, place)
  /\ LET q == uplink_buffer[sys]
     IN  IF q = <<>>
         THEN NextSystem /\ UNCHANGED queues
         ELSE /\ uplink_buffer' = [uplink_buffer EXCEPT ![sys] = Take(@)]
              /\ dispatched' = [dispatched EXCEPT ![sys] = Append(@, q[1])]
              /\ UNCHANGED counter
              /\ IF Kind(sys, q[1]) \in {"refused", "unknown"}
                 THEN NextSystem
                 ELSE /\ kind' = Kind(sys, q[1])
                      /\ pc' = "send"
                      /\ UNCHANGED <<place, late, try_counter, write_again, reply,
                                     confirmed, sends, accepted>>
  /\ UNCHANGED <<ground, line, visit, reading, stream, record>>

\* The detector accepts the command, or rejects it, or never gets it.
Send ==
  /\ pc = "send"
  /\ sends' = sends + 1
  /\ \/ /\ ~closed
        /\ \/ /\ net' = net \o CASE kind = "write" -> WriteReply(command, "ok")
                                 [] kind = "read"  -> Body(command, ReadSize)
                                 [] OTHER          -> <<>>
              /\ accepted' = accepted + 1
              /\ Cost(0)
           \/ /\ kind = "write"
              /\ net' = net \o WriteReply(command, "bad")
              /\ Cost(1)
              /\ UNCHANGED accepted
           \/ Cost(1) /\ UNCHANGED <<net, accepted>>
     \/ closed /\ UNCHANGED <<net, accepted, faults>>
  /\ pc' = IF kind = "write only" THEN "finished" ELSE "await"
  /\ UNCHANGED <<ground, line, cursor, reading, queues, closed, kind, try_counter,
                 write_again, reply, confirmed, record, late>>

\* Writing to a closed connection throws, and the exception is only logged.
SendThrows ==
  /\ pc = "send"
  /\ closed
  /\ NextSystem
  /\ UNCHANGED <<ground, line, visit, reading, queues, stream, record>>

\* read(): the expected number of units, or what is left of a closed connection.
ReceiveReply ==
  /\ pc = "await"
  /\ \/ Len(net) >= ExpectedSize
     \/ closed /\ net # <<>>
  /\ LET k == Least(ExpectedSize, Len(net))
     IN  /\ reply' = SubSeq(net, 1, k)
         /\ net' = Drop(net, k)
  /\ attempts' = 0
  /\ Clear(sys, {"reading_packet"})
  /\ pc' = "judge"
  /\ UNCHANGED <<ground, line, cursor, pairs, queues, closed, faults, kind, try_counter,
                 write_again, confirmed, sends, accepted, failed, late>>

\* An attempt times out, and what arrived of the reply is thrown away.
ReplyTimeout ==
  /\ pc = "await"
  /\ closed => net = <<>>
  /\ \E k \in 0 .. Least(Len(net), ExpectedSize - 1) :
       /\ Cost(IF k = Len(net) THEN 0 ELSE 1)
       /\ net' = Drop(net, k)
  /\ IF attempts + 1 < RetryMax
     THEN attempts' = attempts + 1 /\ UNCHANGED <<pc, reply, errors>>
     ELSE /\ attempts' = 0
          /\ reply' = <<>>
          /\ Raise(sys, {"reading_packet"})
          /\ pc' = "judge"
  /\ UNCHANGED <<ground, line, cursor, pairs, queues, closed, kind, try_counter,
                 write_again, confirmed, sends, accepted, failed, late>>

\* Mutants: a write that got no reply is sent again; a rejected one is not flagged.
RewriteAlways(r) == TRUE
RewriteAfter(r)  == r # <<>>
RejectedUnflagged(r) == {}
Rejected(r)          == {"writing_invalid"}

\* The next try, if there is one left.
TryAgain(again) ==
  IF try_counter + 1 < TriesMax
  THEN /\ try_counter' = try_counter + 1
       /\ write_again' = again
       /\ pc' = IF again THEN "send" ELSE "await"
       /\ UNCHANGED <<confirmed, failed>>
  ELSE /\ failed' = failed \cup {sys}
       /\ pc' = "finished"
       /\ UNCHANGED <<try_counter, write_again, confirmed>>

\* A write is tried again after a reply of the wrong size, or a status that is
\* not 0; it is not sent again after a try that got no reply.
JudgeWrite ==
  /\ pc = "judge"
  /\ kind = "write"
  /\ \/ /\ Len(reply) # WriteSize
        /\ Raise(sys, {"writing_invalid"})
        /\ TryAgain(RewriteAfter(reply))
     \/ /\ Len(reply) = WriteSize
        /\ "bad" \in StatusOf(reply)
        /\ Raise(sys, Rejected(reply))
        /\ TryAgain(write_again)
     \/ /\ Len(reply) = WriteSize
        /\ "ok" \in StatusOf(reply)
        /\ confirmed' = TRUE
        /\ pc' = "finished"
        /\ UNCHANGED <<try_counter, write_again, record>>
  /\ UNCHANGED <<ground, line, cursor, reading, queues, stream, kind, reply, sends,
                 accepted, late>>

\* A read is tried once.
JudgeRead ==
  /\ pc = "judge"
  /\ kind = "read"
  /\ IF Len(reply) # ReadSize THEN Raise(sys, {"reading_invalid"}) ELSE UNCHANGED errors
  /\ pc' = "finished"
  /\ UNCHANGED <<ground, line, cursor, reading, queues, stream, sending, failed, late>>

\* The reply, if there is one, is queued for the ground, and the visit goes on.
Finish ==
  /\ pc = "finished"
  /\ NextSystem
  /\ UNCHANGED <<ground, line, visit, reading, queues, stream, record>>

\* The rest of the visit, which FrameReadout is about, reduced to what it leaves
\* on the stream: what was there, nothing, or late replies of its own.
RestOfVisit ==
  /\ pc = "dispatch"
  /\ ~Served(visit, place)
  /\ \/ UNCHANGED <<net, faults>>
     \/ /\ Cycle[visit] # <<>>
        /\ \/ net' = <<>> /\ Cost(0)
           \/ net' = net \o Body(NoCommand, 1) /\ Cost(1)
  /\ visit' = (visit % Len(Cycle)) + 1
  /\ place' = 1
  /\ pc' = "uplink"
  /\ UNCHANGED <<ground, line, reading, queues, closed, sending, record, late>>

-----------------------------------------------------------------------------
(* A lost connection, and the system.                                      *)

Close ==
  /\ ~closed
  /\ torn < MaxTorn
  /\ torn' = torn + 1
  /\ closed' = TRUE
  /\ UNCHANGED <<ground, uart, cursor, pc, reading, queues, net, faults, sending, record,
                 late>>

\* The frame read of the visit throws, main() ends, and the service manager
\* starts the program again, with empty queues and nothing on the serial line.
Restart ==
  /\ closed
  /\ pc = "dispatch"
  /\ ~Served(visit, place)
  /\ Cycle[visit] # <<>>
  /\ uart' = <<>>
  /\ visit' = 1 /\ place' = 1 /\ pc' = "uplink" /\ pairs' = 0 /\ attempts' = 0
  /\ uplink_buffer' = [s \in Queued |-> <<>>]
  /\ counter' = 0
  /\ errors' = [s \in Managers |-> {}]
  /\ net' = <<>> /\ closed' = FALSE /\ late' = FALSE
  /\ failed' = {}
  /\ UNCHANGED <<ground, torn, dispatched, faults, sending>>

Formatter ==
  \/ ReceiveUplink
  \/ UplinkTimeout
  \/ Flush
  \/ Dispatch
  \/ Send
  \/ SendThrows
  \/ ReceiveReply
  \/ ReplyTimeout
  \/ JudgeWrite
  \/ JudgeRead
  \/ Finish
  \/ RestOfVisit
  \/ Restart

Next == Formatter \/ GroundSends \/ Close

Spec     == Init /\ [][Next]_vars
LiveSpec == Spec /\ WF_vars(Formatter) /\ WF_vars(half /\ GroundSends)

-----------------------------------------------------------------------------
(* Properties.                                                             *)

TypeOK ==
  /\ uplinked \in Seq(Uplinks) /\ half \in BOOLEAN
  /\ uart \in Seq(Bytes)
  /\ visit \in 1 .. Len(Cycle) /\ place \in 1 .. Len(Cycle[visit]) + 1
  /\ pc \in {"uplink", "flush", "dispatch", "send", "await", "judge", "finished"}
  /\ pairs \in 0 .. PairsMax - 1 /\ attempts \in 0 .. RetryMax - 1
  /\ uplink_buffer \in [Queued -> Seq(Bytes)]
  /\ dispatched \in [Queued -> Seq(Bytes)]
  /\ counter \in 0 .. CounterMod - 1
  /\ errors \in [Managers -> SUBSET ErrorFlags]
  /\ net \in Seq(Unit) /\ closed \in BOOLEAN /\ late \in BOOLEAN
  /\ kind \in Kinds /\ try_counter \in 0 .. TriesMax - 1 /\ write_again \in BOOLEAN
  /\ reply \in Seq(Unit) /\ confirmed \in BOOLEAN
  /\ sends \in 0 .. TriesMax /\ accepted \in 0 .. sends
  /\ failed \subseteq Queued
  /\ torn \in 0 .. MaxTorn /\ faults \in 0 .. MaxFaults

\* What s was given and what waits for it.
Codes(s) == dispatched[s] \o uplink_buffer[s]

\* Pairs that were read, and the place of the i-th among those for system s.
PairsRead  == Len(uplinked) - ((Len(uart) + 1) \div 2)
Rank(s, i) == Cardinality({j \in 1 .. i : uplinked[j][1] = s})

\* As long as no pair is torn and the connection lasts, the commands a system
\* is given, and those that still wait for it, are the ones the ground sent to
\* it: in order, none twice, none lost, none made up.
InUplinkOrder ==
  torn = 0 => \A s \in Queued :
    /\ Len(Codes(s)) = Rank(s, PairsRead)
    /\ \A i \in 1 .. PairsRead : uplinked[i][1] = s => Codes(s)[Rank(s, i)] = uplinked[i][2]

\* Every command that was queued, by its system and its place in the queue.
EverQueued == UNION {{s} \X (1 .. Len(Codes(s))) : s \in Queued}

\* The counter that the ground is sent tells how many commands were queued,
\* whatever else came over the line.
CounterCountsQueued == torn = 0 => counter = Cardinality(EverQueued) % CounterMod

\* A write that is given up leaves writing_invalid up, until the restart.
FailedWriteIsFlagged == \A s \in failed : "writing_invalid" \in errors[s]

\* If the flush found all there was, and the commands before it in the visit got
\* all their replies, the reply to a command is its own.
OwnReply == ~late => \A i \in 1 .. Len(reply) : reply[i].to = command

\* Under the same condition a write is accepted at most once, although it is
\* tried eight times and replies come late, and is confirmed only if accepted.
OutcomeIsTrue == ~late => accepted <= 1 /\ (confirmed => accepted = 1)

\* Every command queued for a system that the loop serves leaves the queue.
CommandsDispatched ==
  \A v \in 1 .. Len(Cycle) : \A p \in 1 .. Len(Cycle[v]) :
    uplink_buffer[Cycle[v][p]] # <<>> ~> uplink_buffer[Cycle[v][p]] = <<>>

\* A torn pair does not put the line out of step for ever: when it falls quiet,
\* the lone byte is thrown away, and pairs are read as they were sent again.
OutOfStep == (Len(uart) % 2 = 0) = half
StepIsFound == OutOfStep ~> ~OutOfStep

\* The documentation of sync_send_command_to_system has a write sent again when
\* there is no reply.
NoReplyIsRetried ==
  pc = "finished" /\ kind = "write" /\ reply = <<>> => sends > 1
=============================================================================
