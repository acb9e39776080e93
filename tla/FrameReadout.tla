---------------------------- MODULE FrameReadout ----------------------------
(***************************************************************************)
(* How the Formatter reads detector frames and queues them for downlink.   *)
(*                                                                         *)
(* Every visit of the main loop to a detector discards what the TCP socket *)
(* holds (Circle::flush), asks the detector for its write pointer, decides *)
(* which frame of the detector's ring buffer to read, reads it packet by   *)
(* packet into a PacketFramer, cuts it into downlink packets with a        *)
(* FramePacketizer, queues them, talks to the detector about housekeeping, *)
(* and sends the queue to the ground.                                      *)
(* TransportLayerMachine::sync_remote_buffer_transaction is the heart.     *)
(*                                                                         *)
(* All detectors answer on one TCP connection.  A reply is matched with a  *)
(* request by its place in the byte stream alone, so a reply that misses   *)
(* its timeout is taken for the answer to some later request.  The stream  *)
(* is a sequence of units: a unit is a run of bytes that the code never    *)
(* splits unless a read takes part of a reply.  A detector answers when it *)
(* is asked; how late the answer arrives is decided by the reads.          *)
(***************************************************************************)
EXTENDS Integers, Sequences

CONSTANTS
  Bufs,            \* ring buffers: a canister's PC buffer, a CMOS's PC or QL
  CdTe,            \* those of CdTe canisters, the others belong to a CMOS
  Cycle,           \* the order in which the loop visits them, repeated
  Systems,         \* detectors, each with one word of error flags
  SystemOf,        \* [Bufs -> Systems]
  RetryMax,        \* Timing::retry_max_count
  FramesPerRing,   \* RingBufferParameters::frames_per_ring
  FrameSize,       \* RingBufferParameters::frame_size_bytes, in units
  StartAddress,    \* RingBufferParameters::start_address, in units
  ReadSize,        \* data units of one packet (Ethernet::max_payload_size)
  OtherSize,       \* units of a reply to a command or housekeeping request
  AddressStep,     \* units between two reads (SpaceWire::max_payload_size)
  DownlinkSize,    \* units of frame data in one downlink packet
  ReadSomeMax,     \* units that one read_some returns (4096 bytes)
  CountMod,        \* the frame counter is a uint16_t: 2^16 in the code
  AddressMod,      \* addresses are unsigned: 2^w
  WildPointers,    \* pointers the code may find in bytes that hold none
  Paced,           \* TRUE: a detector never overwrites the frame being read
  FrameIds,        \* bound: frames are numbered modulo this
  MaxFaults        \* bound: lost, late and torn replies

RingSize == FramesPerRing * FrameSize
RingEnd  == StartAddress + RingSize

ASSUME BufsAssumption ==
  /\ CdTe \subseteq Bufs
  /\ SystemOf \in [Bufs -> Systems]
  /\ Cycle \in Seq(Bufs)
  /\ Cycle # <<>>

ASSUME SizesAssumption ==
  /\ {RetryMax, FramesPerRing, FrameSize, ReadSize, AddressStep, DownlinkSize,
      OtherSize, ReadSomeMax, CountMod, AddressMod, FrameIds} \subseteq Nat \ {0}
  /\ {StartAddress, MaxFaults} \subseteq Nat
  /\ FrameIds % FramesPerRing = 0
  /\ ReadSize <= FrameSize
  /\ RingEnd <= AddressMod
  /\ WildPointers \subseteq 0 .. AddressMod - 1
  /\ Paced \in BOOLEAN

VARIABLES
  net,        \* units of the TCP stream that the Formatter has not read
  written,    \* [Bufs -> 0 .. FrameIds - 1]: number of the frame being written
  visit,      \* place in Cycle of the buffer being visited
  pc,         \* where the loop is in this visit
  tries,      \* failed attempts of the read() under way
  pointer,    \* local last_write_pointer: address of the frame being read
  packets,    \* local packet_counter
  frame,      \* [Bufs -> Seq(Unit)]: PacketFramer::frame
  last,       \* [Bufs -> Nat]: SystemManager::last_write_pointer
  count,      \* [Bufs -> 0 .. CountMod - 1]: SystemManager::lookup_frame_count
  errors,     \* [Systems -> SUBSET ErrorFlags]: SystemManager::errors
  downlink,   \* TransportLayerMachine::downlink_buffer
  faults      \* faults so far

remote  == <<net, written, faults>>
local   == <<visit, pc, tries, pointer, packets>>
manager == <<frame, last, count, errors>>
vars    == <<remote, local, manager, downlink>>

-----------------------------------------------------------------------------
(* The detectors' memory and what they put on the stream.                  *)

Addresses == 0 .. AddressMod - 1
Wild(p)   == p \notin StartAddress .. RingEnd - 1

\* A unit of the stream: the beginning of a write pointer reply, the header of
\* a packet, a unit of detector memory (frame and offset in the ring of a buffer,
\* or memory outside the ring), or a piece of some other reply.
Unit ==
  [kind : {"pointer"}, value : Addresses]
    \cup [kind : {"head", "outside", "other"}]
    \cup [kind : {"data"}, buf : Bufs, frame : 0 .. FrameIds - 1,
          offset : 0 .. FrameSize - 1]

\* Frame n goes to slot n % FramesPerRing, so that while frame w is written a
\* slot holds the latest earlier frame of its own.
InSlot(slot, w) == (w - 1 - ((w - 1 - slot) % FramesPerRing)) % FrameIds

Memory(b, a) ==
  IF Wild(a) THEN [kind |-> "outside"]
  ELSE LET i == a - StartAddress
       IN  [kind |-> "data", buf |-> b, offset |-> i % FrameSize,
            frame |-> InSlot(i \div FrameSize, written[b])]

SlotAddress(n) == StartAddress + (n % FramesPerRing) * FrameSize

\* A CdTe canister points at the slot it will write next, a CMOS at the frame
\* it wrote last: sync_remote_buffer_transaction steps back for CdTe only.
WritePointer(b) ==
  IF b \in CdTe THEN SlotAddress(written[b])
                ELSE SlotAddress(written[b] + FramesPerRing - 1)

PointerReply(b) == <<[kind |-> "pointer", value |-> WritePointer(b)], [kind |-> "other"]>>
PacketReply(b, a) ==
  <<[kind |-> "head"]>>
    \o [i \in 1 .. ReadSize |-> Memory(b, (a + i - 1) % AddressMod)]
OtherReply == [i \in 1 .. OtherSize |-> [kind |-> "other"]]

CeilDiv(m, n)   == (m + n - 1) \div n
Least(m, n)     == IF m <= n THEN m ELSE n
Drop(s, k)      == SubSeq(s, k + 1, Len(s))

\* What one read_some takes when every reply has arrived.
Arrived == Least(Len(net), ReadSomeMax)

Cost(n) == /\ faults + n <= MaxFaults
           /\ faults' = faults + n

-----------------------------------------------------------------------------
(* PacketFramer and FramePacketizer.                                       *)

\* Mutant: one unit too early.
FrameDoneEarly(f) == Len(f) + 1 >= FrameSize

\* check_frame_done
FrameDone(f) == Len(f) = FrameSize

\* Mutant: the last packet is not cut.
PushToFrameUntrimmed(f, data) == IF FrameDone(f) THEN f ELSE f \o data

\* push_to_frame, the header being stripped: a full frame refuses data, the
\* last packet is cut to what the frame still lacks.
PushToFrame(f, data) ==
  IF FrameDone(f) THEN f
  ELSE IF f # <<>> /\ Len(f) + Len(data) > FrameSize
       THEN f \o SubSeq(data, 1, FrameSize - Len(f))
       ELSE f \o data

PacketsPerFrame == CeilDiv(FrameSize, DownlinkSize)

\* Mutant: a wider counter than the field of the header.
NextCountUnwrapped(n) == n + 1

\* increment_frame_count, of a uint16_t.
NextCount(n) == (n + 1) % CountMod

\* Mutants: the counter is advanced before the packets are numbered with it; the
\* index counts the packets popped before this one.
PacketizeCountedEarly(b, n, f) ==
  [i \in 1 .. CeilDiv(Len(f), DownlinkSize) |->
    [buf |-> b, frame_counter |-> NextCount(n), of |-> PacketsPerFrame, index |-> i,
     data |-> SubSeq(f, (i - 1) * DownlinkSize + 1, Least(i * DownlinkSize, Len(f)))]]
PacketizeFromZero(b, n, f) ==
  [i \in 1 .. CeilDiv(Len(f), DownlinkSize) |->
    [buf |-> b, frame_counter |-> n, of |-> PacketsPerFrame, index |-> i - 1,
     data |-> SubSeq(f, (i - 1) * DownlinkSize + 1, Least(i * DownlinkSize, Len(f)))]]

\* pop_buffer_element until frame_emptied: `of' and `index' come from the size
\* the frame should have, the number of elements from the size it has.
Packetize(b, n, f) ==
  [i \in 1 .. CeilDiv(Len(f), DownlinkSize) |->
    [buf |-> b, frame_counter |-> n, of |-> PacketsPerFrame, index |-> i,
     data |-> SubSeq(f, (i - 1) * DownlinkSize + 1, Least(i * DownlinkSize, Len(f)))]]

Element == [buf : Bufs, frame_counter : 0 .. CountMod - 1, of : Nat, index : Nat,
            data : Seq(Unit)]

-----------------------------------------------------------------------------
(* The write pointer.                                                      *)

NoPointer == -1

\* The values that get_reply_data, and the endianness swap, may find in what
\* one read_some returned: the pointer of a reply that came whole, nothing in a
\* packet or in less than 26 bytes.  Bytes out of step with the replies hold
\* anything, and no check tells.
PointersIn(r) ==
  CASE r[1].kind = "pointer" -> {IF Len(r) = 1 THEN NoPointer ELSE r[1].value}
    [] r[1].kind = "head"    -> {NoPointer}
    [] OTHER                 -> {NoPointer} \cup WildPointers

\* The frame a write pointer designates: for CdTe, the one before it.
Designated(b, p) ==
  IF b \notin CdTe THEN p
  ELSE IF p = StartAddress THEN p + (FramesPerRing - 1) * FrameSize
       ELSE (p - FrameSize) % AddressMod

ErrorFlags  == {"reading_packet", "reading_invalid"}
buf         == Cycle[visit]
sys         == SystemOf[buf]
Raise(fs)   == errors' = [errors EXCEPT ![sys] = @ \cup fs]

\* Mutant: every flag goes down.
ClearAll(fs) == errors' = [errors EXCEPT ![sys] = {}]
Clear(fs)    == errors' = [errors EXCEPT ![sys] = @ \ fs]

\* Mutant: the retry is not counted.
TriesSoFarStuck == tries
TriesSoFar      == tries + 1

\* Mutant: the next packet is sought behind a reply's size, header included.
PacketAddressByReply == pointer + packets * (ReadSize + 1)
PacketAddress        == pointer + packets * AddressStep

\* Mutant: the loop does not go round.
NextVisitStuck == Least(visit + 1, Len(Cycle))
NextVisit      == (visit % Len(Cycle)) + 1

\* The transaction returns: its locals go out of scope.
Return == /\ pc' = "housekeeping"
          /\ tries' = 0
          /\ pointer' = 0
          /\ packets' = 0

-----------------------------------------------------------------------------
(* One visit.                                                              *)

Init ==
  /\ net = <<>>
  /\ written = [b \in Bufs |-> 0]
  /\ visit = 1
  /\ pc = "flush"
  /\ tries = 0
  /\ pointer = 0
  /\ packets = 0
  /\ frame = [b \in Bufs |-> <<>>]
  /\ last = [b \in Bufs |-> 0]
  /\ count = [b \in Bufs |-> 0]
  /\ errors = [s \in Systems |-> {}]
  /\ downlink = <<>>
  /\ faults = 0

\* A detector completes a frame.  Paced: not over the frame last read or being
\* read (a canister's ring holds 980 frames, a CMOS's 32).
DetectorWrites(b) ==
  /\ Paced => /\ SlotAddress(written[b]) # last[b]
              /\ b = buf => SlotAddress(written[b]) # pointer
  /\ written' = [written EXCEPT ![b] = (@ + 1) % FrameIds]
  /\ UNCHANGED <<net, faults, local, manager, downlink>>

\* Circle::flush: one read of 1 ms, discarding what has arrived.
Flush ==
  /\ pc = "flush"
  /\ \E k \in 0 .. Arrived :
       /\ net' = Drop(net, k)
       /\ Cost(IF k = Arrived THEN 0 ELSE 1)
  /\ pc' = "command"
  /\ UNCHANGED <<written, visit, tries, pointer, packets, manager, downlink>>

\* What another request on the same connection does to the stream: its reply is
\* sent, or not, and read (sync_tcp_read by size), or some of it is lost to
\* timeouts and the rest comes late, after which the stream is out of step.
Exchange ==
  \E reply \in {OtherReply, <<>>} : \E k \in 0 .. Len(net \o reply) :
    /\ net' = Drop(net \o reply, k)
    /\ Cost(IF reply # <<>> /\ k = OtherSize THEN 0 ELSE 1)

\* sync_send_buffer_commands_to_system: an uplinked command, if there is one.
UplinkCommand ==
  /\ pc = "command"
  /\ UNCHANGED <<net, faults>> \/ Exchange
  /\ pc' = "ask pointer"
  /\ UNCHANGED <<written, visit, tries, pointer, packets, manager, downlink>>

AskPointer ==
  /\ pc = "ask pointer"
  /\ \/ net' = net \o PointerReply(buf) /\ Cost(0)
     \/ net' = net /\ Cost(1)
  /\ pc' = "await pointer"
  /\ UNCHANGED <<written, visit, tries, pointer, packets, manager, downlink>>

\* read_some: nothing arrived before the timeout.
PointerTimeout ==
  /\ pc = "await pointer"
  /\ Cost(IF net = <<>> THEN 0 ELSE 1)
  /\ IF TriesSoFar < RetryMax
     THEN /\ tries' = TriesSoFar
          /\ UNCHANGED <<pc, pointer, packets, errors>>
     ELSE /\ Raise({"reading_packet", "reading_invalid"})
          /\ Return
  /\ UNCHANGED <<net, written, visit, frame, last, count, downlink>>

\* read_some returned k units; a pointer that has not advanced ends the visit.
ReadPointer ==
  /\ pc = "await pointer"
  /\ \E k \in 1 .. Arrived :
       /\ net' = Drop(net, k)
       /\ Cost(IF k = Arrived THEN 0 ELSE 1)
       /\ \E p \in PointersIn(SubSeq(net, 1, k)) :
            IF p = NoPointer
            THEN /\ errors' = [errors EXCEPT ![sys] =
                                 (@ \ {"reading_packet"}) \cup {"reading_invalid"}]
                 /\ Return
            ELSE /\ Clear({"reading_packet"})
                 /\ IF Designated(buf, p) = last[buf]
                    THEN Return
                    ELSE /\ pointer' = Designated(buf, p)
                         /\ packets' = 0
                         /\ pc' = "read frame"
                         /\ tries' = 0
  /\ UNCHANGED <<written, visit, frame, last, count, downlink>>

\* The next read of the frame.  An address outside the ring may get no answer.
AskPacket ==
  /\ pc = "read frame"
  /\ ~FrameDone(frame[buf])
  /\ \/ net' = net \o PacketReply(buf, PacketAddress) /\ Cost(0)
     \/ net' = net /\ Cost(IF Wild(PacketAddress) THEN 0 ELSE 1)
  /\ pc' = "await packet"
  /\ UNCHANGED <<written, visit, tries, pointer, packets, manager, downlink>>

\* read(): too little arrived before the timeout, and what did is lost with the
\* local buffer of sync_tcp_read.  After the last attempt the transaction ends
\* and leaves the packets it has in the PacketFramer.
PacketTimeout ==
  /\ pc = "await packet"
  /\ \E k \in 0 .. Least(Len(net), ReadSize) :
       /\ net' = Drop(net, k)
       /\ Cost(IF k = Len(net) THEN 0 ELSE 1)
  /\ IF TriesSoFar < RetryMax
     THEN /\ tries' = TriesSoFar
          /\ UNCHANGED <<pc, pointer, packets, errors>>
     ELSE /\ Raise({"reading_packet"})
          /\ Return
  /\ UNCHANGED <<written, visit, frame, last, count, downlink>>

\* read() returned the size of a packet, whatever the bytes are.
ReadPacket ==
  /\ pc = "await packet"
  /\ Len(net) > ReadSize
  /\ net' = Drop(net, ReadSize + 1)
  /\ Clear({"reading_packet"})
  /\ frame' = [frame EXCEPT ![buf] = PushToFrame(@, SubSeq(net, 2, ReadSize + 1))]
  /\ packets' = packets + 1
  /\ pc' = "read frame"
  /\ tries' = 0
  /\ UNCHANGED <<written, faults, visit, pointer, last, count, downlink>>

\* The frame is complete: queue it, count it, and return its address.
QueueFrame ==
  /\ pc = "read frame"
  /\ FrameDone(frame[buf])
  /\ downlink' = downlink \o Packetize(buf, count[buf], frame[buf])
  /\ count' = [count EXCEPT ![buf] = NextCount(@)]
  /\ frame' = [frame EXCEPT ![buf] = <<>>]
  /\ last' = [last EXCEPT ![buf] = pointer]
  /\ Clear(ErrorFlags)
  /\ Return
  /\ UNCHANGED <<remote, visit>>

\* The housekeeping request that follows, reduced to what it does to the stream.
Housekeeping ==
  /\ pc = "housekeeping"
  /\ Exchange
  /\ pc' = "drain"
  /\ UNCHANGED <<written, visit, tries, pointer, packets, manager, downlink>>

\* sync_udp_send_all_downlink_buffer, and the loop goes on to the next system.
Drain ==
  /\ pc = "drain"
  /\ downlink' = <<>>
  /\ visit' = NextVisit
  /\ pc' = "flush"
  /\ UNCHANGED <<remote, tries, pointer, packets, manager>>

\* A socket error ends main() and the service manager starts the program again:
\* a new connection, and nothing is remembered.
Restart ==
  /\ Cost(1)
  /\ net' = <<>>
  /\ visit' = 1
  /\ pc' = "flush"
  /\ tries' = 0
  /\ pointer' = 0
  /\ packets' = 0
  /\ frame' = [b \in Bufs |-> <<>>]
  /\ last' = [b \in Bufs |-> 0]
  /\ count' = [b \in Bufs |-> 0]
  /\ errors' = [s \in Systems |-> {}]
  /\ downlink' = <<>>
  /\ UNCHANGED written

Formatter ==
  \/ Flush
  \/ UplinkCommand
  \/ AskPointer
  \/ PointerTimeout
  \/ ReadPointer
  \/ AskPacket
  \/ PacketTimeout
  \/ ReadPacket
  \/ QueueFrame
  \/ Housekeeping
  \/ Drain

Next == Formatter \/ Restart \/ \E b \in Bufs : DetectorWrites(b)

Spec     == Init /\ [][Next]_vars
FairSpec == Spec /\ WF_vars(Formatter)
LiveSpec == FairSpec /\ \A b \in Bufs : WF_vars(DetectorWrites(b))

-----------------------------------------------------------------------------
(* Properties.                                                             *)

TypeOK ==
  /\ net \in Seq(Unit)
  /\ written \in [Bufs -> 0 .. FrameIds - 1]
  /\ visit \in 1 .. Len(Cycle)
  /\ pc \in {"flush", "command", "ask pointer", "await pointer", "read frame",
             "await packet", "housekeeping", "drain"}
  /\ tries \in 0 .. RetryMax - 1
  /\ pointer \in Addresses
  /\ packets \in Nat
  /\ frame \in [Bufs -> Seq(Unit)]
  /\ last \in [Bufs -> Addresses]
  /\ count \in [Bufs -> 0 .. CountMod - 1]
  /\ errors \in [Systems -> SUBSET ErrorFlags]
  /\ downlink \in Seq(Element)
  /\ faults \in 0 .. MaxFaults

\* A PacketFramer holds a whole frame only while that frame is read and queued.
\* Otherwise the loop that reads packets would not run at all, and a frame of
\* an earlier visit would be queued in place of the one the pointer designates.
FramerNeverStartsFull ==
  \A b \in Bufs : /\ Len(frame[b]) <= FrameSize
                  /\ FrameDone(frame[b]) => b = buf /\ pc = "read frame"

\* Whatever the stream did, what is queued is one frame in full: the packets
\* 1 .. n of n, of one buffer and one frame counter, none too long, with as many
\* units as the buffer's frames have.
QueuedFrameIsWhole ==
  downlink # <<>> =>
    /\ Len(downlink) = PacketsPerFrame
    /\ \A i \in 1 .. PacketsPerFrame :
         /\ downlink[i].of = PacketsPerFrame
         /\ downlink[i].index = i
         /\ downlink[i].buf = downlink[1].buf
         /\ downlink[i].frame_counter = downlink[1].frame_counter
         /\ Len(downlink[i].data) =
              Least(DownlinkSize, FrameSize - (i - 1) * DownlinkSize)

\* The queued packets are frame f of the detector they are labelled with.
Intact(f) ==
  \A i \in 1 .. Len(downlink) : \A j \in 1 .. Len(downlink[i].data) :
    downlink[i].data[j] =
      [kind |-> "data", buf |-> downlink[i].buf, frame |-> f,
       offset |-> (i - 1) * DownlinkSize + j - 1]

QueuedIntact == \E f \in 0 .. FrameIds - 1 : Intact(f)

\* As long as every reply came whole and in time, a queued frame is the frame
\* that the detector wrote: no packet skipped, repeated, misplaced or untrimmed.
IntactWithoutFaults == Paced /\ faults = 0 => QueuedIntact

\* The write pointer kept for the next visit moves only in the step that queues
\* a frame and advances its counter: a failed transaction is tried again from
\* the same pointer, and the ground sees counters without gaps or repeats.
QueuesFrameOf(b) ==
  /\ last'[b] # last[b]
  /\ count'[b] = NextCount(count[b])
  /\ Len(downlink') = Len(downlink) + PacketsPerFrame
  /\ \A i \in 1 .. PacketsPerFrame :
       /\ downlink'[Len(downlink) + i].buf = b
       /\ downlink'[Len(downlink) + i].frame_counter = count[b]

PointerFollowsFrame ==
  [][\/ /\ \A b \in Bufs : last'[b] # last[b] \/ count'[b] # count[b] => QueuesFrameOf(b)
        /\ Len(downlink') > Len(downlink) => QueuesFrameOf(buf)
     \/ Restart]_<<last, count, downlink>>

\* reading_invalid stays up, for the ground to see, until a whole frame of some
\* buffer of that detector is queued.
InvalidReplyStaysFlagged ==
  [][\A s \in Systems :
       "reading_invalid" \in errors[s] /\ "reading_invalid" \notin errors'[s]
       => \/ Len(downlink') > Len(downlink) /\ s = sys
          \/ Restart]_errors

\* The queue, without the data, behaves as FrameDownlink promises.
HeaderOf(e) == [buf |-> e.buf, frame_counter |-> e.frame_counter, of |-> e.of,
                index |-> e.index]

Promise == INSTANCE FrameDownlink
             WITH queue <- [i \in 1 .. Len(downlink) |-> HeaderOf(downlink[i])]

KeepsPromise == Promise!Spec

\* Every visit ends, whatever is lost: the detectors behind it get their turn.
VisitsEnd == \A v \in 1 .. Len(Cycle) : visit = v ~> visit # v

\* Once replies come whole and in time again, the frames queued are intact
\* again: stale replies and left-over packets are eventually got rid of.
RecoversIntact == <>[]QueuedIntact

\* Every detector that goes on writing frames has frames downlinked, for ever.
FramesKeepComing ==
  \A b \in Bufs : []<>(downlink # <<>> /\ downlink[1].buf = b)
=============================================================================
