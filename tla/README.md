# FOXSI-4 Formatter: a TLA+ verification project

The Formatter is the flight software of the FOXSI-4 sounding rocket's data
system (`src/`, C++). One single-threaded program polls the detectors, takes
their frames out of ring buffers in their memory, cuts the frames into packets
for the ground, forwards uplinked commands and watches over power and
temperatures. This directory holds TLA+ models of it, the TLC configurations
that check them, and proofs of what matters most.

## 1. Inventory of the system

| Part | State | Operations | Interacts with |
|---|---|---|---|
| **Main loop** `Circle` (`src/src/Circle.cpp`) | `system_order`, `current_system`, `system_state` per system | `start`, `update_state`, `manage_systems`, the `init_*` | calls everything below; `main()` ends on a socket exception and systemd restarts it (`src/util/formatter.service`) |
| **Frame readout** `TransportLayerMachine::sync_remote_buffer_transaction`, `PacketFramer`, `FramePacketizer` | `last_write_pointer`, `lookup_frame_count`, the frame under assembly, error flags | ask for the write pointer, read the frame, queue it | detectors over one TCP connection; `downlink_buffer` |
| **TCP/UDP/UART transport** `sync_tcp_read`, `sync_tcp_read_some`, `read`, `read_some`, `run_*_context` | sockets and what they hold | reads with a timeout, retries, cancel | every other part |
| **Uplink** `sync_uart_receive_to_uplink_buffer` | queue per system, `uplink_forwarding` flag, `counter` | reads pairs of bytes, looks the system up in the deck, queues | ground (UART); `CommandDeck` |
| **Command dispatch** `sync_send_buffer_commands_to_system`, `sync_send_command_to_system`, `handle_intercept_cmd` | `enable`, error flags | one queued command per visit, up to 8 tries of a write, one read, refusals, intercepts | uplink queues, detectors, downlink queue |
| **Downlink** `downlink_buffer`, `DownlinkBufferElement`, `sync_udp_send_all_downlink_buffer` | the queue | enqueue, drain | ground (UDP) |
| **Housekeeping** `Circle::manage_systems` 611-725, `init_housekeeping` | `counter`, `enable`, `system_state` | setup, every second visit polls power and temperatures | housekeeping board (UDP) |
| **Timepix** `Circle::manage_systems` 502-609 | error flags | UART request/response, health, frame of pixels | Timepix (UART) |
| **Global health** `send_global_health`, `make_global_health_packet` | none of its own | one packet per visit, made from every manager's state | downlink |
| **Commands** `CommandDeck` (`src/src/Commanding.cpp`) | tables read from JSON | lookups, RMAP packets (CRC) | everything that sends |
| **Configuration** `LineInterface`, `Systems`, `Timing`, `DirectMemoryAccess`, `DataLinkLayer` | tables | parsing | start-up |
| **Foxsimile** `src/src/Foxsimile.cpp` | a memory map per system with simulated write pointers, what each session has collected of a message, frame timers | collects messages, answers RMAP reads and writes like a detector, and looks messages of the housekeeping board up | stands in for the detectors in the laboratory; its clients build their messages with `CommandDeck` |
| **Helpers** `Fragmenter`, `RingBufferInterface`, `Utilities`, `UartInterface` | (none, or unused in flight) | fragment, block reads, byte conversions | the above |
| **Logger**, vendored `moodycamel` and `spdlog`, Python in `src/util`, `src/scripts` | | | not modelled |

Hard to test, and the reason for these models:

* **One TCP connection, no matching of replies with requests.** A reply that
  misses its timeout is taken for the answer to a later request; bytes that did
  arrive when a sized read times out are thrown away and leave the stream out of
  step. `Circle::flush` gives up after 1 ms or 4096 bytes.
* **A read that fails half way** leaves packets in the `PacketFramer`.
* **The ring buffer goes on being written** while it is read, its pointer is
  compared with the previous one for equality only.
* **Error flags** are raised and cleared in many places, by reads of other things.
* **Restart** forgets pointers, counters and queues; detectors do not.
* **Serial lines without framing.** The two bytes of an uplinked command, and the
  replies of the Timepix, are told apart by their place alone.
* **Messages without borders.** TCP cuts and joins messages as it likes; the simulator
  finds where one ends by a length inside it, and its receiver by the first byte
  that looks like an address.
* **Partial failure.** Every part asks several questions in a row, and what it
  does when the third one is not answered is rarely exercised.

What makes each part correct:

| Part | Correct means |
|---|---|
| Frame readout | what is queued is one whole frame, numbered in sequence, with the detector's data in it; it recovers from any fault; every detector is served |
| Uplink and dispatch | commands arrive in order, once, none lost or made up; an outcome reported is the outcome; failure is visible to the ground |
| Housekeeping | a packet holds what its type says; no measurement is overwritten before it is sent; polling goes on |
| Timepix | as for housekeeping, with zeros for what is missing; a port that is not open is left alone |
| Main loop | every system is visited whatever the others do, an abandoned one is skipped, no packet waits longer than the visits that may not send |
| Global health | the error words and the counter are those of the managers, and the errors that happened are in them |
| Command deck | whatever is asked, by code, by address or from a template, the packet's receiver finds the same address, length and data in it, behind paths of any length; the data is found in the reply |
| Foxsimile | every read is answered once, in order, with what the memory holds; a pointer stays at a slot of its ring, or one behind it before it wraps; every message is taken up, however it arrives |

## 2. Plan

| | Module | About | State |
|---|---|---|---|
| 1 | `FrameReadout`, `FrameDownlink` (abstract), `MCFrameReadout`, `FrameReadoutProofs`, `FrameIntactProofs` | a frame's way from a detector to the downlink queue | done |
| 2 | `CommandUplink`, `MCCommandUplink`, `CommandUplinkProofs`, `CommandOrderProofs` | a command's way from the ground to a detector | done |
| 3 | `Housekeeping`, `HousekeepingProofs` | the polling of the housekeeping board | done |
| 4 | `Circle`, `MCCircle`, `CircleProofs` | initialisation, the round robin of ten systems, early returns, the error words in the status packet, the drain | done |
| 5 | `Timepix`, `MCTimepix`, `TimepixProofs` | requests over a serial line, `init_timepix`, missing replies | done |
| 6 | `SpaceWirePacket` | how the command deck builds a packet and how the data is taken out of a reply: where fields lie, byte by byte | done |
| 7 | `Foxsimile`, `MCFoxsimile`, `FoxsimileProofs` | the simulated detectors, and 6 composed with them: both ends of the packet format | done |

`Circle` composes the visits of 1 to 3 and 5, each exchange reduced to what it
does to the state that visits share: the downlink queue, the error words, the
system states and whose turn it is.

Two things that were planned are left out. An abstract mailbox for each system,
which `CommandUplink` would implement as long as no pair is torn, would say what
`InUplinkOrder` says already, in one formula. And the algorithms of
`RingBufferInterface`, `Fragmenter` and `UartInterface` are called by tests and
examples only: the program reads rings in `sync_remote_buffer_transaction` and
cuts frames in `FramePacketizer`, which `FrameReadout` has.

Theorems were planned for the safety properties of the first five components; those
of the last two came to them. Every safety property that a passing run checks is now
the subject of a theorem.

## 3. Modules

All modules take the program for what it is: one thread, whose steps happen in
the order of the code. Interleaved with it are the detectors, the ground, the
network and the restarts. Everything asynchronous in the code
(`boost::asio::async_read` and the contexts) is run until it completes or times
out before the next statement, so a read is one action for its success and one
for its timeout.

### FrameReadout

State: `net` is what the TCP stream holds; `written` each detector's ring
buffer; `last`, `count`, `frame` and `errors` are `last_write_pointer`,
`lookup_frame_count`, the `PacketFramer` and the error flags of the
`SystemManager`s; `visit`, `pc`, `tries`, `pointer` and `packets` the place in the
loop and the locals of the transaction; `downlink` the downlink queue.

| Action | Code |
|---|---|
| `Flush` | `Circle::flush` |
| `UplinkCommand`, `Housekeeping` | the other exchanges of a visit, reduced to their effect on the stream |
| `AskPointer`, `PointerTimeout`, `ReadPointer` | `sync_remote_buffer_transaction` up to the decision which frame to read |
| `AskPacket`, `PacketTimeout`, `ReadPacket` | its loop over packets |
| `QueueFrame` | its end: packetize, count, clear |
| `Drain` | `sync_udp_send_all_downlink_buffer` |
| `Restart` | `main()` ends and systemd starts it again |
| `DetectorWrites` | a detector completes a frame |

A unit of the stream carries where in which frame it comes from, so that a
property can say whether queued data is the detector's; no guard of the code
looks at that. A unit stands for a run of bytes that no read splits unless it
takes part of a reply. Bytes out of step with the replies may be taken for a
pointer (`WildPointers`): the code cannot tell and the model chooses.

Error flags are reduced to the two the transaction uses; `downlink_buffering` is in
`Circle`, `writing_invalid` in `CommandUplink`.

`FrameDownlink` is what the ground is promised: the packets `1 .. n` of one frame
at a time, one frame counter per buffer, advancing by one. `KeepsPromise` states
that `FrameReadout` implements it, forgetting the data.

### CommandUplink

State: `uplinked`, `half` and `uart` are the ground's side and the serial line;
`uplink_buffer` and `counter` what `sync_uart_receive_to_uplink_buffer` fills;
`kind`, `try_counter`, `write_again` and `reply` the locals of
`sync_send_command_to_system`; `net` the TCP stream. `dispatched`, `accepted`,
`sends`, `failed`, `late` and `torn` are history that no guard of the code reads
(`torn` and `faults` are also what bounds the faults).

| Action | Code |
|---|---|
| `ReceiveUplink`, `UplinkTimeout` | `sync_uart_receive_to_uplink_buffer` and the reads it makes |
| `Flush` | `Circle::flush` |
| `Dispatch`, `SendThrows`, `Finish` | `sync_send_buffer_commands_to_system`: refused, intercepted and unknown commands leave the queue and nothing else |
| `Send`, `ReceiveReply`, `ReplyTimeout`, `JudgeWrite`, `JudgeRead` | `sync_send_command_to_system` over SpaceWire |
| `RestOfVisit`, `Restart` | the rest of a visit and the restart |
| `GroundSends`, `Close` | the ground and the other end of the connection |

A visit serves the systems `Cycle` lists for it (`cdtede` and `cdte1` share one);
an empty list stands for visits that serve none. `late` says that the stream may
hold replies to something else, and is the hypothesis of what is claimed of
replies: without it nothing can be, since the code does not compare them.

### Housekeeping

State: `inbox` the UDP socket; `measurement` the board's sensors; `todo`,
`attempts`, `got` and `zero_found` the locals of the visit; `enable`, `counter` and
`errors` those of the manager; `sent` is history.

| Action | Code |
|---|---|
| `OtherVisits` | the visits between two of these, and `send_global_health` |
| `Command` | `sync_send_buffer_commands_to_system` with `handle_intercept_cmd` |
| `StartPoll`, `Keep`, `QueueReply`, `QueueTemperatures`, `QueueIntro`, `Leave` | `manage_systems`, 611-725 |
| `Ask`, `Receive`, `Timeout` | `sync_send_command_to_system` over Ethernet, `read_udp` |
| `Restart` | the restart, with `init_housekeeping` |

### Timepix

State: `line` the serial line with `is_open` whether its port opened;
`request`, `attempts` and `got` the locals of a visit; `system_state` and `errors`
those of the manager; `downlink` the queue.

| Action | Code |
|---|---|
| `InitTimepix`, `Pinged` | `init_timepix`, up to its ping and after it |
| `OtherVisits` | the visits between two of these, the status packet and the test for an abandoned system |
| `Command`, `QueueReply` | `sync_send_buffer_commands_to_system` |
| `Ask`, `Receive`, `Timeout` | `sync_send_command_to_system` over UART, `read`, `sync_uart_read` |
| `NextRequest`, `QueuePackets`, `Drain` | `manage_systems`, 502-609 |
| `Restart` | the restart; the port may open or not |

A unit of the line carries the request it answers and its place in the reply.
The flight program cannot see either: it takes as many bytes as the reply should
have.

### SpaceWirePacket and Foxsimile

`SpaceWirePacket` has no state: it is the packet format, in the operators of the
code. A packet is built in three ways (`make_spw_packet_for_sys_for_command`,
`get_read_command_for_sys_at_address`, `get_read_command_from_template`), the
third one counting fields from the end of the packet; a reply is taken apart by
`get_reply_data`, counting from its front. The CRC is a parameter, since nobody
in the program checks one; the code has two functions for it, which the model
does not tell apart. Here, unlike elsewhere, bytes are bytes: the hazard is an
offset.

State of `Foxsimile`: `conn`, `wire` and `message_accumulator` of each port (the
detectors' and the housekeeping board's, which is TCP in the simulator), `mmaps`
the memories with the pointers in them, `running` for the program, which ends on
an exception. `sent` and `replies` are history.

| Action | Code |
|---|---|
| `Connect`, `end_session`, `Reset` | `handle_accept`, `await_full_buffer` on an error, `end_session` |
| `Receive` | `async_receive`, `await_full_buffer`: one read of any size, and the message if it is complete, with `get_response`, `make_reply`, `identify_sender` and `send_response` |
| `handle_frame_timer` | `handle_frame_timer`, `advance_write_pointer` |
| `Send`, `Close` | a client that uses `SpaceWirePacket` for its messages |

What `make_reply` does with a message that is malformed or that reads beyond
a memory is a choice (`Undefined`: `vector::operator[]` beyond the end) or the end
of the program (`Throw`: a `const char*` that only `main` catches). The requests of
the instances are those of the command deck; the one that writes beyond the memory
meets the checked `at`, and is done in part. The answer of a read has a byte from
beyond the end of `transaction_id` in it, which is any byte (`Stray`).

### Circle

State: `system_state`, `errors` and `active_type` are those of the managers;
`downlink_buffer` the queue, each packet represented by the visit that queued it;
`current_system` and `pc` the place in the loop; `did_queue_hk` the local of that
name, which may be unset. Two variables are history: `last_read`, how the last read of
a system ended and whether the manager that recorded it was a copy, and `unqueued`, why
housekeeping of `cdte1` was not queued since its last whole frame.

`enqueue` may fail (for want of memory), which the code looks at in one place, for the
housekeeping of `cdte1`. Elsewhere a failure leaves the queue shorter and nothing else,
so that `downlink_buffer` is an upper bound: the visits that queued a packet or tried
to, of which `NothingWaitsLong` says that none waits.

| Action | Code |
|---|---|
| `InitHousekeeping`, `InitTimepix`, `InitCdte`, `InitCmos` | the functions of these names, called by `init_systems` |
| `BeginVisit` | uplink, flush, status packet, and the test for an abandoned system |
| `SendCommands` | `sync_send_buffer_commands_to_system`, at a canister for `cdtede` first |
| `ReadFrame` | `sync_remote_buffer_transaction`, and the turn of the CMOS buffers |
| `AskHk` | the housekeeping of detectors and CdTe DE, read with a copy of the manager |
| `SendDownlink` | the drain, and after it, at `cdte1`, `downlink_buffering` |
| `Poll` | the visits modelled in `Housekeeping` and `Timepix` |
| `Restart` | the restart |

An exchange is one step with the set of results it may have (`Asked`, `Commanded`,
`Transacted`), each what it does to the error word and how its last read ended.
The words of `housekeeping`, `timepix` and `uplink`, and the flags that one part
of a visit alone touches, are left to the modules of these parts.

## 4. What the runs check and show

| Run | Distinct states | Checks |
|---|---|---|
| `readout` | 831,264 | a canister and a CMOS on one connection, up to 2 faults: types, the invariants and action properties of the readout, the refinement; visits end, data is intact again for good, every detector's frames keep coming |
| `readout_mixed` | violated | `QueuedIntact`: one lost packet reply and the next frame is a mixture |
| `uplink` | 665,750 | two commands of every kind, a torn pair or a lost connection, four faults: order, counter, own replies, flagged failures, true outcomes; queues of served systems empty, a torn pair is overcome |
| `uplink_silent` | violated | `NoReplyIsRetried`: a write without reply is sent once |
| `hk` | 174,475 | two losses and a late reply anywhere: labels, measurements, counting; polling goes on |
| `hk_labels` | violated | `LabelsAreTrue`: a late datagram is packed under the wrong type |
| `timepix` | 22,807 | three losses, two late replies, a command, a port that may not open: fields in place, whole packets, health goes on |
| `timepix_step` | violated | `RecoversStep`: one late reply shifts everything for ever |
| `circle` | 906,725 | every outcome of every exchange, restarts anywhere: waiting packets, failures and refusals shown, turns |
| `circle_hidden` | violated | `FailureIsReported`: errors on copies of the managers are lost |
| `foxsimile` | 252,048 | two messages to either port, cut at its first bytes, its header or not at all, frame timers at any time, a session that ends anywhere: answers in order with the right data, pointers at a slot of their ring or at the one behind it; every message is taken up |
| `foxsimile_coalesced` | violated | `PacketsAreReassembled`: of two messages that arrive together the second one is lost |

**Findings.**

1. `readout_mixed`. The return after a failed packet read
   (`TransportLayer.cpp:839`) leaves packets in the `PacketFramer`, and the next
   transaction adds its own from packet 0 on. The frame is still whole and
   counted (`QueuedFrameIsWhole`), so the ground cannot tell. `RecoversIntact`
   shows that the damage is one frame and not for ever.
2. `uplink_silent`. The header documents that a write without reply is sent
   again; the code only listens again. `OutcomeIsTrue` shows what that buys: no
   write is accepted twice. Its mutant, which behaves as documented, breaks that.
3. `hk_labels`. A housekeeping reply that misses its timeout is packed as the
   answer to the next request. `Circle::flush` empties the TCP socket only.
4. `timepix_step`. The same on the serial line, where it never ends: a late reply
   stays in front of all later ones, and every health packet until the restart
   holds bytes of other replies. Losses alone never do that
   (`PacketsAreTrueInTime`).
5. `circle_hidden`. Housekeeping of the detectors is read with copies of their
   managers (`Circle.cpp:316-322`), so that its errors never reach the status
   packet. Errors of the other reads of SpaceWire systems do
   (`SeenFailureIsFlagged`, proved).

6. `foxsimile_coalesced`. `await_full_buffer` handles the first message it has
   collected and clears the rest with it (`Foxsimile.cpp:218`). A client that
   waits for the answer to each message, as the Formatter does but after a
   write without reply, is not affected (`AnswersInOrder`).

Others were met on the way and have no run of their own. The comment "confirm
write pointer in ring buffer" (`TransportLayer.cpp:785`) is followed by no check:
a pointer outside the ring is read from, and `RecoversIntact` shows that this
passes. And `did_queue_hk` (`Circle.cpp:344`) is read uninitialised when `cdte1`
did not answer: `downlink_buffering`, documented to mean that something could not be
queued, then depends on the stack. `UnqueuedIsShown` says what is left to rely on: a
refusal is shown until a whole frame is read, and the flag is up only if a reply was
refused or missing since then. In the
simulator, a write that asks for a reply gets none and one that does not gets
four bytes (`Foxsimile.cpp:251`); what a client leaves of a message when it goes
is put in front of the next client's; a message whose length equals some logical
address is for nobody (`Mistaken`); and a pointer goes one slot beyond the ring
before it wraps (`Slots` has `slots + 1` members).

**Bounds.** Two buffers are enough for every interaction of the readout: what one
leaves on the stream, another finds. A frame is 3 or 4 units read 2 or 3 at a
time, so that the last read overruns the frame (by 1 or 2 units), and downlinked
2 at a time, so that the last packet is either short or full. Rings of 2 slots
and frames numbered modulo 4 let the pointer wrap; counters wrap at 2, addresses
at 16, beyond the ring. The detectors of the run are paced: they never write over
the frame last read or being read. One that laps the reader (`Paced = FALSE`) is
covered by the theorems, which hold for both. With 2 faults a fault can
hit the recovery from another. Without bounds on faults nothing could be claimed
for recovery; `MaxFaults` is also what makes liveness mean "once faults stop".
In `CommandUplink` systems share codes, so that a torn pair still names commands;
2 commands are two of one system or one of each of two that share a visit; a write
has 3 tries (8 in the code) of two attempts each, so that a reply can come in the
attempt, the try, or the visit after its own, and 4 faults are what it takes to
lose them all. `Housekeeping` has one retry more than
it needs and measurements numbered modulo 3, so that "the last" and "the one
before" differ. The reduction of 8 tries to 3 and of frame sizes to 3 units is
sound where the theorems cover all values, and a small-scope argument elsewhere.
`Timepix` has replies of 1 and 2 units, so that a reply out of place is also out of
size, two attempts, and enough losses to lose all three fields of a visit or one
request twice; `timepix_step` needs one late reply only. `Circle` has each kind of
system once, in an order with a detector before and after those that may not
send; the theorems cover the flight order of ten, and all others. The outcomes of
its exchanges are not bounded, nor is the number of restarts, each of which leads
to the initial state; for liveness they have to end (`LiveSpec`). `Foxsimile` has two systems with paths of different lengths, one ring
and two rings, and reads of 1 byte, of 11 (all but the last byte of the header) or
of everything; of each kind of message (a read by code, by address and from a
template; writes with a reply, without, up to the end of memory and beyond) every
pair is tried. A third message would find the simulator as the first one did: what
it keeps between messages is the memory.

**Deadlock** is checked in every run; no model has a state without a next one.

**Fairness.** `WF(Formatter)`: the loop is one thread that never waits without a
timeout, so a step that stays possible happens. Its disjuncts exclude one another
by `pc`, but for the choices of the network, which stay free: nothing is assumed
of replies arriving except that faults are finite. `readout` also assumes
that detectors go on writing, which is what they do. `uplink` assumes that the
ground sends the second byte of a command it has begun. In `circle`, what a system
answers does not matter: `SystemsAreServed` and `BothBuffersAreRead` hold even if none
ever does. In `foxsimile`, the `io_context` runs every handler that is ready and TCP
delivers what was sent, so that bytes on the wire are read; that a client connects
again is the client's part.

## 5. Proofs

Each proof module proves, for all values of the constants that satisfy the named
assumptions of its component, that the component keeps an inductive invariant, and
takes its theorems from that. `Spec => []P` is always: the invariant holds
initially, each action keeps it (one step of the proof for each), and it implies
`P`; for an action property, the invariant and a step imply it.

`FrameReadoutProofs`, from `SizesAssumption` and `BufsAssumption` (positive sizes, a
ring within the address space, a cycle of the buffers):

* `TypeCorrect`: `Spec => []TypeOK`. Most of it is arithmetic of addresses:
  the slot a pointer designates, its predecessor across the start of the ring,
  and subtraction modulo the address width.
* `FramerNeverStartsFullHolds`, `QueuedFrameIsWholeHolds`, from one inductive
  invariant `IInv`: `TypeOK`, both properties, `QueuedBehindRead` (the queue is empty
  from the flush until the frame is queued) and `ReadsAnother` (the frame being
  read is not the last one). `QueuedFrameIsWhole` alone is not inductive: that a
  second frame is not queued behind a first needs `QueuedBehindRead`, and the
  size of what is packetized needs that a framer is never beyond its frame.
* `PointerFollowsFrameHolds`, an action property, from `IInv` by cases of `Next`:
  `ReadsAnother` gives that the pointer really moves.
* `InvalidReplyStays`, an action property: of the steps that change flags only
  `QueueFrame` and `Restart` lower `reading_invalid` (`FlagStep`), and `IInv` says that
  what the former queues is not empty.
* `Implements`: every step of `FrameReadout` is a step of `FrameDownlink` or leaves
  its variables alone; `QueueFrame` is `Release`, `Drain` is `Send`, `Restart` is `Reset`.

`FrameIntactProofs`, from these and two assumptions of its theorem, that packets are
asked for at the distance of their size (`AddressStep = ReadSize`) and that
`read_some` takes the reply to the read of a pointer whole (`2 <= ReadSomeMax`); both
hold in `readout`:

* `IntactHolds`: `IntactWithoutFaults`, for all sizes of frames, packets and rings. The
  invariant that `IInv` needs beside it is `Clean`: until the first fault the
  stream is empty unless a reply is awaited; a pointer that is awaited is
  the address of a slot (`PointerComes`); while a frame is read, what the framer holds
  and the packet that is awaited are the beginning, and the continuation, of
  the frame that is in the slot read from (`Reads`); other framers are empty; and
  what is queued is one frame (`QueuedIntact`). That a paced detector does not
  overwrite the slot during the read is what `WriteClean` uses of `Paced`;
  `InMemory` says which datum is at an address, `Pushed` that a packet cut to what
  is left of the frame continues it, `PacketizeIntact` that the cut into downlink
  packets loses and moves nothing.

`CommandUplinkProofs`, from `DeckAssumption` and `LimitsAssumption` (a deck that
gives each pair a kind, a cycle of visits to systems with a queue, positive sizes):

* `TypeCorrect`, from `Typed`, which adds to the types what relates them: a command
  is sent at most once for each try, and between commands the locals are as new.
* `FailureStays`: `FailedWriteIsFlagged`, which is inductive with `Typed`.
* `RepliesAreOwn`: `OwnReply`, from `Owned`: unless `late`, the stream is empty when the
  visit turns to a system, and while a command is sent holds nothing but replies to
  it. Two lemmas say that taking from the front of a sequence of replies, and
  adding one of the command's own, keep it so.
* `OutcomeHolds`: `OutcomeIsTrue`, from `Owned`, `SingleTry` (only a write is tried again)
  and `Settled`: what the stream holds is at most one confirmation; if it is whole, its
  verdict is what became of the write; and a write is sent again, on a connection
  that lasts, only when nothing is left of the confirmation before. That a partial
  confirmation cannot be read without the connection being closed is what keeps the
  second branch of `JudgeWrite` from sending twice.

`CommandOrderProofs`, from the same assumptions and `TypeCorrect`:

* `OrderHolds`: `InUplinkOrder`, and `CountHolds`: `CounterCountsQueued`. Both speak of all
  that was ever sent, by selecting from a sequence and by adding up what waits, which
  only an induction over data could evaluate. The proof counts instead: the place of a
  pair among those for its system is the cardinality of the set of such pairs up
  to it (`RankIn`), which grows by one with each of them (`RankNext`). The invariant
  `TidyUntilTorn` says, until a pair is torn or the connection is lost, that the
  bytes on the line continue what was read (`InStep`), that the code at each place of
  what a system was given and what waits for it is that of the pair of this rank
  (`Ordered`), and that the counter is the number of codes ever queued, modulo its
  width (`Counted`). Only reading a pair (`ReceiveTidy`) and handing on a command
  (`DispatchQuiet`) touch it.

`HousekeepingProofs`, from `BoundsAssumption`:

* `TypeCorrect`.
* `TrueLabels`: `Spec => []LabelsAreTrueInTime`. The invariant `InTime` adds that, as
  long as no reply was late, the socket holds nothing but the answer to the
  request under way (`InboxMatches`), and each reply of the visit answers its
  request (`GotMatches`): a timeout then means that there was nothing to come.
* `CompletePolls`: `CountedWhenComplete`, from `Visit`: commands are asked alone and before
  the poll, and as long as no reply was missing (`zero_found`) each request of the poll
  has its reply or is still in `todo` (`PollUnderWay`), which is empty at the end.
* `NothingSkipped`: `NoMeasurementSkipped`, from `InTime`, `Visit` and `Current`: unless a reply was
  late, one that is on its way, or was kept in this poll, is the measurement that its
  sensor still holds.

`TimepixProofs`, from `SizeAssumption`:

* `TypeCorrect`.
* `ClosedPort`: `ClosedPortIsLeftAlone`, from `OpenUnlessAbandoned`: after `init_timepix` the port
  is open or the system is abandoned and no longer visited.
* `HealthWhole`: `HealthIsWhole`, from `Genuine`: what a request got has the size of its
  reply, or is nothing, and consists of units the Timepix sent.
* `PacketsTrue`: `PacketsAreTrueInTime`, from `LineMatches`, `GotMatches` and
  `PacketsAreTrue`, as in `HousekeepingProofs`, each under the condition that no reply
  was late.

`CircleProofs`, from `OrderAssumption` (the systems of the program, each once in the
order):

* `TypeCorrect`, `NothingWaits`, `SeenFailure` and `RefusalIsShown`, from one inductive
  invariant `IInv`: `TypeOK`, `NothingWaitsLong`, `SeenFailureIsFlagged`,
  `DetectorsAreKept` (a visit to a detector is never skipped, so that none ends
  without sending), `Places` (`pc` says whose visit it is) and `FlagFollows`, from which
  `UnqueuedIsShown` follows: a refusal has raised the flag or, at the end of its visit, is
  about to, and an unset `did_queue_hk` that is read there stands for a missing reply. The
  lemma `OneMore` is about the circle of visits: what waits when a visit ends has
  waited through that one besides those before it; `Results` and `FrameResults` say that
  no exchange but a whole frame takes `downlink_buffering` down (`Neutral`).

`FoxsimileProofs` is the longest, since here the bytes are what is proved. From
the named assumptions of `SpaceWirePacket` and `Foxsimile` (tables of bytes; systems
that their logical addresses tell apart, in no path; rings with write pointers of their
own within the memory, at a slot to begin with; requests for memory that is there)
and two hypotheses of the theorems, that a CRC is a byte (`CrcIsAByte`) and that the
client lets a message be taken up before it sends the next (`Patient`;
`foxsimile_coalesced` shows what becomes of one that does not):

* `TypeCorrect`, which needs `CrcIsAByte` alone: whatever a client sends, all that is in memory
  and on the wire are bytes.
* `PointersStaySlots`: `PointerIsASlot`. The lemmas before it follow a packet from end to
  end, for paths of any length. `ReadPacket`, `WritePacket` and `TemplatePacket` say which field is
  at which place in what `CommandDeck` builds, the three ways to build one agreeing
  (`RequestSays`: a request says in its bytes what `Meaning` says it means);
  `CompleteOfPrefix` that no part of a message is taken for one; `Sender` that the first
  byte that looks like an address is the one that is meant, unless the length
  looks like one (`Mistaken`); `ParseOf` that `make_reply` finds the fields that were
  put in. The invariant is `OneAtATime`: what a port has collected and what is on the
  wire to it are, put together, the bytes of its last request, or nothing. So
  whatever is handled is a whole request (`Taken`, `RequestServed`), and a write in it
  leaves the pointers alone; `AdvanceToSlot` is the arithmetic of the ring.
* `AnswersCome`: `AnswersInOrder`. `ReadReplyOf` says that `get_reply_data` finds in a
  reply the data that `ReadReply` put in, although it counts from the other
  end. The invariant `AsRequested` relates the replies and the memory to the history:
  after the requests that are handled (all, or all but the one under way) the
  memory is, but for the write pointers, what the writes among them made it, and each
  reply is one of those that `After` allows at its place. `AfterAll` is
  recursive over that history; that it takes one more request as `After` says
  (`AfterOneMore`) is proved from a least counterexample (`HistoryExists`,
  `HistoryUnique`), since the induction theorems of the library cannot be used.

Only model-checked:

* everything about liveness and fairness (`VisitsEnd`, `RecoversIntact`,
  `FramesKeepComing`, `CommandsDispatched`, `StepIsFound`, `PollingGoesOn`, `HealthGoesOn`,
  `SystemsAreServed`, `BothBuffersAreRead`, `MessagesAreTakenUp`), which is beyond this
  prover. Of the last one `FoxsimileProofs` has that a request is complete when its last byte is
  read, not that it will be read;
* the disagreements that the violated runs show.

## 6. Not modelled

* Bytes, but in `SpaceWirePacket`: elsewhere what a reply or a packet says is part of
  its unit. The JSON tables are CONSTANTS. The write pointer of a CMOS, which the
  readout turns around (`TransportLayer.cpp:763`) and the simulator does not, is a
  number in both.
* `RingBufferInterface`, `Fragmenter` and `UartInterface`, which the program does not
  use, and the functions of `Commanding.cpp` ending in `_old` and `HARDCODE`, which
  others have replaced.
* Vendored code. It is most of the repository: of some 41,000 lines of
  implementation about 7,150 are the project's own (the rest is `spdlog` with `fmt`,
  and `moodycamel`), so that the share of all lines that a model of the project's
  code can stand for is small. Of the project's own lines those without a model
  are the asynchronous variants that are never called, the parsing of tables, the
  logger, printing, and the laboratory programs.
* The image packet of the Timepix, which the code builds and does not queue.
* An element of system 0x05 in the downlink queue, at which the drain would stop:
  the flight configuration has no system that queues one.
* A second client at a port of Foxsimile while the first is there. The Responder with
  the lookup table posts two accepts on its one socket (`Foxsimile.cpp:52-57`); with
  one client at a time, as modelled, the second of them is what the next client meets.
* `SYSTEM_STATE::DISCONNECT`, which nothing sets.
* Lost or duplicated datagrams on the way to the ground: nothing in the program
  reacts to them.
* Times: `period_millis` and what is derived from it is used nowhere, and a
  timeout is an action that may happen when its reply has not been read. That
  `normalize_times_to_period` sums into an uninitialised variable therefore has no
  effect on the models.
* Housekeeping commands of the ground that set the board up: they get no reply and
  change nothing the model has. Clearing the log (0x3f) likewise.
* The asynchronous uplink, UDP uplink and `sync_tcp_send_*` variants in
  `TransportLayer.cpp`, which the program does not call.
