------------------------------ MODULE Foxsimile ------------------------------
(***************************************************************************)
(* The simulator that stands in for the detectors on a laptop: two         *)
(* Responders in one thread, one that answers RMAP commands from a memory  *)
(* map, one that looks messages of two bytes up.  A client writes to each  *)
(* over TCP, which cuts and joins what it carries as it likes.  The        *)
(* Responder collects what arrives until the length in the header is       *)
(* there, handles one message, and clears all it has.                      *)
(***************************************************************************)
EXTENDS SpaceWirePacket, FiniteSetsExt, SequencesExt

CONSTANTS
  Responders,      \* the simulated ports
  lookup,          \* [Responders -> BOOLEAN]: answer from the lookup table
  response_lookup, \* [messages of two bytes -> reply]
  Requests,        \* [Responders -> set of Request]: what the client may send
  Rings,           \* [systems -> set of Ring]: System::ring_params
  Memory,          \* [systems -> memory map at the start]
  Chunks,          \* sizes of a read, besides "all there is"
  Stray,           \* values of a byte read beyond the end of a vector
  Patient,         \* the client waits until a message is taken up
  MaxSent,         \* bound: messages to both Responders
  MaxClosed        \* bound: sessions the client ends

Systems == DOMAIN Spacewire
Null    == "null"

Size(s) == Cardinality(DOMAIN Memory[s])

\* A length has three bytes in a packet.
Length == 0 .. 2 ^ 24 - 1

\* What the client may send: a command of the deck, a read of an address, the
\* read command of a code at another address, or plain bytes.
Request ==
  [by : {"code"}, sys : Systems, code : Byte]
    \cup [by : {"address"}, sys : Systems, addr : [1 .. 4 -> Byte], len : Length]
    \cup [by : {"template"}, sys : Systems, code : Byte, addr : [1 .. 4 -> Byte], len : Length]
    \cup [by : {"bytes"}, code : Seq(Byte)]

\* A ring of frames in memory, and where its write pointer is kept.
Ring == [pointer_at : Nat, start : Nat, stride : Nat \ {0}, slots : Nat]

ASSUME FoxsimileAssumption ==
  /\ lookup \in [Responders -> BOOLEAN] /\ Patient \in BOOLEAN
  /\ {MaxSent, MaxClosed} \subseteq Nat /\ Chunks \subseteq Nat \ {0} /\ Stray \subseteq Byte
  /\ Stray # {} /\ DOMAIN Memory = Systems /\ DOMAIN Rings = Systems /\ Null \notin Systems
  /\ \A s \in Systems : /\ Size(s) \in Nat /\ DOMAIN Memory[s] = 0 .. Size(s) - 1
                       /\ Memory[s] \in [DOMAIN Memory[s] -> Byte]
                       /\ Rings[s] \subseteq Ring
  /\ response_lookup \in [DOMAIN response_lookup -> Seq(Byte) \ {<<>>}]
  /\ \A r \in Responders : Requests[r] \subseteq Request

VARIABLES
  running,             \* the program has not ended
  conn,                \* [Responders -> "listening", "open", "closed by client"]
  wire,                \* [Responders -> bytes sent and not yet received]
  message_accumulator, \* [Responders -> bytes received and not yet handled]
  mmaps,               \* the memory map of each system
  sent,                \* history: [Responders -> requests sent]
  replies,             \* history: [Responders -> replies sent back]
  closed               \* sessions ended so far

vars == <<running, conn, wire, message_accumulator, mmaps, sent, replies, closed>>

-----------------------------------------------------------------------------
(* Parsing a message.                                                      *)

\* Where any system's logical address first appears: in the header, too.
FirstAddress(message) ==
  Min({Len(message)} \cup
      {k \in 0 .. Len(message) - 1 :
         \E s \in Systems : message[k + 1] = Spacewire[s].target_logical_address})

identify_sender(message) ==
  LET k == FirstAddress(message)
      named == {s \in Systems :
                  /\ k < Len(message) - 4
                  /\ message[k + 2] = 1 /\ message[k + 4] = 2
                  /\ message[k + 1] = Spacewire[s].target_logical_address}
  IN  IF named = {} THEN Null ELSE CHOOSE s \in named : TRUE

\* What make_reply reads from a message to a system.
Parse(s, message) ==
  LET path        == EtherSize + Len(Spacewire[s].target_path_address)
      instruction == message[path + 3]
      base        == path + 4 + 4 * (instruction % 4)
  IN  [instruction |-> instruction,
       do_write    |-> (instruction \div 32) % 2 = 1,
       do_reply    |-> (instruction \div 8) % 2 = 1,
       initiator   |-> message[base + 1],
       id          |-> message[base + 2],
       address     |-> unsplat_from_4bytes(At(message, base + 4, 4)),
       length      |-> unsplat_from_4bytes(<<0>> \o At(message, base + 8, 3)),
       data_from   |-> base + 12]

\* The message holds every field that make_reply reads from it.
Holds(s, message) ==
  LET path == EtherSize + Len(Spacewire[s].target_path_address)
      base == path + 4 + 4 * (message[path + 3] % 4)
  IN  /\ Len(message) >= path + 3
      /\ Len(message) >= base + 11
      /\ LET p == Parse(s, message)
         IN  p.do_write => Len(message) - p.data_from >= p.length

\* The reply to a read.  transaction_id has one byte, and the second one is
\* read from beyond its end.
ReadReply(s, p, stray) ==
  LET tailer == <<p.initiator, 1, (p.instruction % 4) + 8, 0,
                  Spacewire[s].source_logical_address, p.id, stray, 0>>
                  \o splat_to_nbytes(3, p.length)
      data   == [i \in 1 .. p.length |-> mmaps[s][p.address + i - 1]]
      packet == tailer \o <<Crc(tailer)>> \o data \o <<Crc(data)>>
  IN  get_spw_ether_header(packet) \o packet

-----------------------------------------------------------------------------
(* Handling a message.                                                     *)

Answer(r, reply) == replies' = [replies EXCEPT ![r] = Append(@, reply)]

NoAnswer == UNCHANGED replies

\* A const char* is caught by nobody but main, which ends.
Throw == running' = FALSE /\ UNCHANGED <<mmaps, replies>>

\* Mutant: [] for at().
WriteMemoryBeyond(r, s, p, data_bytes) ==
  /\ mmaps' = [mmaps EXCEPT ![s] =
       [a \in DOMAIN @ \cup p.address .. p.address + p.length - 1 |->
          IF a \in p.address .. p.address + p.length - 1
          THEN data_bytes[a - p.address + 1] ELSE @[a]]]
  /\ IF p.do_reply THEN NoAnswer ELSE Answer(r, <<1, 1, 1, 1>>)

\* at() stops a write at the end of the memory, what came before is written.
\* A write that asks for a reply gets none, and one that does not gets four
\* bytes.
WriteMemory(r, s, p, data_bytes) ==
  /\ mmaps' = [mmaps EXCEPT ![s] = [a \in DOMAIN @ |->
       IF a \in p.address .. p.address + p.length - 1
       THEN data_bytes[a - p.address + 1] ELSE @[a]]]
  /\ IF p.address + p.length > Size(s) \/ p.do_reply THEN NoAnswer
     ELSE Answer(r, <<1, 1, 1, 1>>)

ReadMemory(r, s, p) ==
  /\ IF p.do_reply THEN \E stray \in Stray : Answer(r, ReadReply(s, p, stray)) ELSE NoAnswer
  /\ UNCHANGED mmaps

\* Reading beyond the message or the memory: the program may end, or find
\* something that it takes for an empty reply.
Undefined == running' \in BOOLEAN /\ UNCHANGED <<mmaps, replies>>

make_reply(r, message) ==
  LET s == identify_sender(message)
  IN  IF message[1] # 0 \/ Len(message) < 33 THEN Throw
      ELSE IF Len(message) - EtherSize < unsplat_from_4bytes(At(message, 7, 4)) THEN Throw
      ELSE IF s = Null THEN NoAnswer /\ UNCHANGED <<mmaps, running>>
      ELSE IF ~ Holds(s, message) THEN Undefined
      ELSE \E p \in {Parse(s, message)} :
               IF p.do_write
               THEN /\ WriteMemory(r, s, p, At(message, p.data_from, p.length))
                    /\ UNCHANGED running
               ELSE IF p.do_reply /\ p.address + p.length > Size(s) THEN Undefined
               ELSE ReadMemory(r, s, p) /\ UNCHANGED running

get_response(r, message) ==
  IF lookup[r]
  THEN /\ IF message \in DOMAIN response_lookup THEN Answer(r, response_lookup[message])
          ELSE NoAnswer
       /\ UNCHANGED <<mmaps, running>>
  ELSE make_reply(r, message)

\* What the Responder makes of all it has collected: a message to handle, or
\* nothing yet.
Complete(all) ==
  IF Len(all) >= EtherSize
  THEN LET purported_length == unsplat_from_4bytes(At(all, 8, 4))
       IN  IF Len(all) - EtherSize >= purported_length
           THEN At(all, 0, EtherSize + purported_length) ELSE <<>>
  ELSE IF Len(all) = 2 /\ all[1] # 0 THEN all ELSE <<>>

-----------------------------------------------------------------------------
(* Actions of the simulator.                                               *)

\* The next n bytes are read.
async_receive(r, n) ==
  /\ running /\ conn[r] # "listening"
  /\ n \in 1 .. Len(wire[r])
  /\ wire' = [wire EXCEPT ![r] = At(@, n, Len(@) - n)]

await_full_buffer(r, n) ==
  /\ async_receive(r, n)
  /\ \E all \in {message_accumulator[r] \o At(wire[r], 0, n)} : \E message \in {Complete(all)} :
       IF message = <<>>
       THEN /\ message_accumulator' = [message_accumulator EXCEPT ![r] = all]
            /\ UNCHANGED <<running, mmaps, replies>>
       ELSE /\ message_accumulator' = [message_accumulator EXCEPT ![r] = <<>>]
            /\ get_response(r, message)
  /\ UNCHANGED <<conn, sent, closed>>

Arrived(r) == Chunks \cup {Len(wire[r])}

Receive(r) == \E n \in Arrived(r) : await_full_buffer(r, n)

\* End of file: what the session left behind stays.
end_session(r) ==
  /\ running /\ conn[r] = "closed by client" /\ wire[r] = <<>>
  /\ conn' = [conn EXCEPT ![r] = "listening"]
  /\ UNCHANGED <<running, wire, message_accumulator, mmaps, sent, replies, closed>>

\* Mutant: the pointer is compared before it moves.
AdvanceLate(ring, pointer) ==
  IF pointer > ring.start + ring.slots * ring.stride THEN ring.start
  ELSE pointer + ring.stride
Advance(ring, pointer) ==
  IF pointer + ring.stride > ring.start + ring.slots * ring.stride THEN ring.start
  ELSE pointer + ring.stride

Pointer(ring, memory) == unsplat_from_4bytes([i \in 1 .. 4 |-> memory[ring.pointer_at + i - 1]])

Field(ring) == ring.pointer_at .. ring.pointer_at + 3

\* Every 250 ms each system's write pointers move on by a frame.
handle_frame_timer ==
  /\ running
  /\ mmaps' = [s \in Systems |-> [a \in DOMAIN mmaps[s] |->
       IF \E g \in Rings[s] : a \in Field(g)
       THEN LET ring == CHOOSE g \in Rings[s] : a \in Field(g)
            IN  splat_to_nbytes(4, Advance(ring, Pointer(ring, mmaps[s])))[a - ring.pointer_at + 1]
       ELSE mmaps[s][a]]]
  /\ UNCHANGED <<running, conn, wire, message_accumulator, sent, replies, closed>>

-----------------------------------------------------------------------------
(* The client.                                                             *)

Bytes(q) ==
  CASE q.by = "code"     -> get_command_bytes_for_sys_for_code(q.sys, q.code)
    [] q.by = "address"  -> get_read_command_for_sys_at_address(q.sys, q.addr, q.len)
    [] q.by = "template" -> get_read_command_from_template(q.sys, q.code, q.addr, q.len)
    [] q.by = "bytes"    -> q.code

\* Nothing is under way.
Settled(r) == wire[r] = <<>> /\ message_accumulator[r] = <<>>

\* A write that asks for no reply: the Formatter goes on at once.
WriteOnly(q) ==
  /\ q.by = "code" /\ <<q.sys, q.code>> \in DOMAIN Commands
  /\ ~ Commands[<<q.sys, q.code>>].read
  /\ (Commands[<<q.sys, q.code>>].spw_instruction \div 8) % 2 = 0

Connect(r) ==
  /\ running /\ conn[r] = "listening"
  /\ conn' = [conn EXCEPT ![r] = "open"]
  /\ UNCHANGED <<running, wire, message_accumulator, mmaps, sent, replies, closed>>

Send(r, q) ==
  /\ conn[r] = "open"
  /\ MapThenSumSet(LAMBDA p : Len(sent[p]), Responders) < MaxSent
  /\ Settled(r) \/ (~ Patient /\ sent[r] # <<>> /\ WriteOnly(sent[r][Len(sent[r])]))
  /\ wire' = [wire EXCEPT ![r] = @ \o Bytes(q)]
  /\ sent' = [sent EXCEPT ![r] = Append(@, q)]
  /\ UNCHANGED <<running, conn, message_accumulator, mmaps, replies, closed>>

Close(r) ==
  /\ conn[r] = "open"
  /\ closed < MaxClosed
  /\ closed' = closed + 1
  /\ conn' = [conn EXCEPT ![r] = "closed by client"]
  /\ UNCHANGED <<running, wire, message_accumulator, mmaps, sent, replies>>

\* The client dies with replies unread: its last message does not arrive.  A
\* patient one does not die within a message.
Reset(r) ==
  /\ running /\ conn[r] = "open"
  /\ closed < MaxClosed
  /\ Patient => message_accumulator[r] = <<>>
  /\ closed' = closed + 1
  /\ conn' = [conn EXCEPT ![r] = "listening"]
  /\ wire' = [wire EXCEPT ![r] = <<>>]
  /\ sent' = [sent EXCEPT ![r] = IF wire[r] = <<>> THEN @ ELSE Front(@)]
  /\ UNCHANGED <<running, message_accumulator, mmaps, replies>>

Init ==
  /\ running = TRUE
  /\ conn = [r \in Responders |-> "listening"]
  /\ wire = [r \in Responders |-> <<>>]
  /\ message_accumulator = [r \in Responders |-> <<>>]
  /\ mmaps = Memory
  /\ sent = [r \in Responders |-> <<>>]
  /\ replies = [r \in Responders |-> <<>>]
  /\ closed = 0

Next ==
  \/ handle_frame_timer
  \/ \E r \in Responders :
       \/ Receive(r)
       \/ end_session(r)
       \/ Connect(r)
       \/ \E q \in Requests[r] : Send(r, q)
       \/ Close(r)
       \/ Reset(r)

Spec == Init /\ [][Next]_vars

\* The io_context runs what is ready, and TCP delivers what was sent: bytes on
\* the wire are read.
LiveSpec ==
  /\ Spec
  /\ \A r \in Responders :
       /\ WF_wire(\E n \in Arrived(r) : async_receive(r, n))
       /\ WF_vars(end_session(r)) /\ WF_vars(Connect(r))

-----------------------------------------------------------------------------
(* What a client may rely on.                                              *)

TypeOK ==
  /\ running \in BOOLEAN
  /\ conn \in [Responders -> {"listening", "open", "closed by client"}]
  /\ wire \in [Responders -> Seq(Byte)]
  /\ message_accumulator \in [Responders -> Seq(Byte)]
  /\ DOMAIN mmaps = Systems
  /\ \A s \in Systems : mmaps[s] \in [DOMAIN Memory[s] -> Byte]
  /\ DOMAIN sent = Responders
  /\ \A r \in Responders : sent[r] \in Seq(Requests[r])
  /\ replies \in [Responders -> Seq(Seq(Byte))]
  /\ closed \in 0 .. MaxClosed

\* What a request means, whatever its bytes are.
Meaning(q) ==
  IF q.by = "code"
  THEN LET cmd == Commands[<<q.sys, q.code>>]
       IN  [read  |-> cmd.read,
            reply |-> (cmd.spw_instruction \div 8) % 2 = 1,
            at    |-> unsplat_from_4bytes(cmd.spw_address),
            len   |-> IF cmd.read THEN cmd.spw_reply_length ELSE Len(cmd.spw_write_data),
            data  |-> cmd.spw_write_data]
  ELSE [read |-> TRUE, reply |-> TRUE, at |-> unsplat_from_4bytes(q.addr), len |-> q.len,
        data |-> <<>>]

\* A slot of the ring, or the one behind its end.
Slots(ring) == {ring.start + k * ring.stride : k \in 0 .. ring.slots}

\* The data a read may return when the client has left the memory like this: a
\* write pointer may be at any slot.
Readable(s, memory, at, len) ==
  LET rings == {g \in Rings[s] : g.pointer_at = at /\ len = 4}
  IN  IF rings # {} THEN {splat_to_nbytes(4, p) : p \in UNION {Slots(g) : g \in rings}}
      ELSE {[i \in 1 .. len |-> memory[at + i - 1]]}

\* A message as long as some system's logical address is taken for another one.
Mistaken(q) ==
  Len(Bytes(q)) - EtherSize \in {Spacewire[s].target_logical_address : s \in Systems}

\* The memory after a request, and what the reply to it may hold if there is one.
After(state, q) ==
  LET m == Meaning(q)
      answered(data) == [memory |-> state.memory, answers |-> Append(state.answers, data)]
  IN  IF q.by = "bytes"
      THEN IF q.code \in DOMAIN response_lookup THEN answered({response_lookup[q.code]})
           ELSE state
      ELSE IF Mistaken(q) THEN state
      ELSE IF m.read THEN answered(Readable(q.sys, state.memory[q.sys], m.at, m.len))
      ELSE [memory  |-> [state.memory EXCEPT ![q.sys] = [a \in DOMAIN @ |->
                          IF a \in m.at .. m.at + m.len - 1 THEN m.data[a - m.at + 1]
                          ELSE @[a]]],
            answers |-> IF m.reply \/ m.at + m.len > Size(q.sys) THEN state.answers
                        ELSE Append(state.answers, {<<>>})]

AfterAll(requests) ==
  LET f[n \in 0 .. Len(requests)] ==
        IF n = 0 THEN [memory |-> Memory, answers |-> <<>>] ELSE After(f[n - 1], requests[n])
  IN  f[Len(requests)]

Wanted(r) == AfterAll(sent[r]).answers

\* The systems can be told apart by their logical addresses, which are no port
\* numbers (identify_sender throws otherwise) and in no path.
ASSUME AddressAssumption ==
  \A s \in Systems :
    LET w == Spacewire[s]
    IN  /\ w.target_logical_address >= 10 /\ w.key = 2
        /\ w.target_path_address # <<>> /\ w.target_path_address[1] # 1
        /\ Len(w.target_path_address) + Len(w.reply_path_address) >= 5
        /\ \A t \in Systems :
             /\ \A i \in DOMAIN w.target_path_address :
                  w.target_path_address[i] # Spacewire[t].target_logical_address
             /\ t # s => Spacewire[t].target_logical_address # w.target_logical_address

\* Each ring has a write pointer of its own in memory, at a slot to begin with.
ASSUME RingAssumption ==
  \A s \in Systems : \A g \in Rings[s] :
    /\ Field(g) \subseteq DOMAIN Memory[s]
    /\ Pointer(g, Memory[s]) \in Slots(g)
    /\ g.start + g.slots * g.stride < Huge
    /\ \A h \in Rings[s] : h # g => Field(h) \cap Field(g) = {}

\* The instruction of a request.
Instruction(q) == IF q.by = "address" THEN 77 ELSE Commands[<<q.sys, q.code>>].spw_instruction

\* What a client sends to the port of the detectors: packets of the deck of less
\* than 256 bytes, with lengths of three, reads of memory that is there, and
\* nothing that touches a write pointer but a read of it.
Proper(q) ==
  LET m == Meaning(q)
      i == Instruction(q)
  IN  /\ q.by \in {"code", "template"} => <<q.sys, q.code>> \in DOMAIN Commands
      /\ q.by = "code" => Len(Commands[<<q.sys, q.code>>].spw_address) = 4
      /\ q.by = "template" => /\ Len(Commands[<<q.sys, q.code>>].spw_address) = 4
                              /\ Commands[<<q.sys, q.code>>].read
      /\ Len(Spacewire[q.sys].reply_path_address) = 4 * (i % 4)
      /\ Len(Bytes(q)) - EtherSize < 256
      /\ m.read <=> (i \div 32) % 2 = 0
      /\ m.reply <=> (i \div 8) % 2 = 1
      /\ m.len \in Length
      /\ m.read => m.reply /\ m.at + m.len <= Size(q.sys)
      /\ \A g \in Rings[q.sys] :
           \/ m.read /\ m.at = g.pointer_at /\ m.len = 4
           \/ Field(g) \cap (m.at .. m.at + m.len - 1) = {}

\* One port answers from memory; to the others messages of two bytes are sent.
ASSUME RequestAssumption ==
  /\ \A r1, r2 \in Responders : ~ lookup[r1] /\ ~ lookup[r2] => r1 = r2
  /\ \A r \in Responders : \A q \in Requests[r] :
       IF lookup[r] THEN q.by = "bytes" /\ Len(q.code) = 2 /\ q.code[1] # 0
       ELSE q.by # "bytes" /\ Proper(q)

Got(r) ==
  [i \in DOMAIN replies[r] |->
     IF lookup[r] THEN replies[r][i] ELSE get_reply_data(replies[r][i])]

\* However TCP cuts the messages up, a client that lets each of them be taken up
\* gets, in the order it asked, one reply to every read, with the data that its
\* earlier writes left there or a write pointer that is a slot of its ring, and
\* no data from anything else (Responder::await_full_buffer, make_reply and
\* get_reply_data, each with offsets of its own).
AnswersInOrder ==
  \A r \in Responders :
    LET got == Got(r)
        wanted == Wanted(r)
    IN  /\ Len(got) \in {Len(wanted), Len(wanted) - 1}
        /\ Settled(r) => Len(got) = Len(wanted)
        /\ \A i \in DOMAIN got : got[i] \in wanted[i]

\* A simulated write pointer is at a slot of its ring, or just behind the last
\* one (mmap::advance_write_pointer).
PointerIsASlot ==
  \A s \in Systems : \A g \in Rings[s] : Pointer(g, mmaps[s]) \in Slots(g)

\* Whatever is sent is taken up, and a session that the client has ended gives
\* way to the next (await_full_buffer and end_session go on listening).
MessagesAreTakenUp ==
  \A r \in Responders : (wire[r] # <<>> ~> Settled(r)) /\ []<>(conn[r] = "open")

\* "this function contains buffering logic to reassemble packets"
\* (Foxsimile.h): what has arrived in full has been handled.
PacketsAreReassembled ==
  \A r \in Responders :
    running /\ wire[r] = <<>> =>
      message_accumulator[r] = <<>> /\ Len(replies[r]) = Len(Wanted(r))
=============================================================================
