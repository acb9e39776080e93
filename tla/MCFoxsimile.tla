----------------------------- MODULE MCFoxsimile -----------------------------
(* A small Foxsimile for TLC: two systems whose path addresses differ in     *)
(* length, memories of a few bytes with one and two rings, and messages of   *)
(* every kind.                                                               *)
EXTENDS Foxsimile, TLC

MCSpacewire ==
  [cdte1 |-> [target_path_address |-> <<7>>, target_logical_address |-> 33, key |-> 2,
              reply_path_address |-> <<0, 0, 1, 3>>, source_logical_address |-> 254],
   cmos1 |-> [target_path_address |-> <<5, 7>>, target_logical_address |-> 34, key |-> 2,
              reply_path_address |-> <<0, 9, 1, 3>>, source_logical_address |-> 254]]

Read(at, len) ==
  [read |-> TRUE, spw_instruction |-> 77, spw_address |-> <<0, 0, 0, at>>,
   spw_write_data |-> <<>>, spw_reply_length |-> len]
Write(instruction, at, data) ==
  [read |-> FALSE, spw_instruction |-> instruction, spw_address |-> <<0, 0, 0, at>>,
   spw_write_data |-> data, spw_reply_length |-> 0]

\* 1 reads, 2 writes and asks for a reply, 3 writes and asks for none, up to the
\* end of the memory and beyond, 4 is as long as a logical address.
MCCommands ==
  (<<"cdte1", 1>> :> Read(8, 2)) @@ (<<"cdte1", 2>> :> Write(125, 9, <<50, 51>>))
    @@ (<<"cdte1", 3>> :> Write(117, 14, <<60, 61, 62>>))
    @@ (<<"cdte1", 4>> :> Write(117, 4, [i \in 1 .. 11 |-> 70]))
    @@ (<<"cmos1", 1>> :> Read(0, 4)) @@ (<<"cmos1", 3>> :> Write(117, 9, <<80>>))

MCCrc(bytes) == Len(bytes) % 256

Code(s, c)        == [by |-> "code", sys |-> s, code |-> c]
Address(s, a, n)  == [by |-> "address", sys |-> s, addr |-> <<0, 0, 0, a>>, len |-> n]
Template(s, a, n) == [by |-> "template", sys |-> s, code |-> 1, addr |-> <<0, 0, 0, a>>, len |-> n]
Plain(b)          == [by |-> "bytes", code |-> b]

MCResponders == {"mock", "housekeeping_mock"}
MCLookup     == [r \in MCResponders |-> r = "housekeeping_mock"]
MCResponses  == <<1, 242>> :> <<1, 0, 101>>
MCRequests ==
  [mock |-> {Code("cdte1", c) : c \in 1 .. 4} \cup {Code("cmos1", 3)}
            \cup {Address("cdte1", 0, 4), Address("cdte1", 9, 7)}
            \cup {Template("cmos1", 4, 4), Template("cmos1", 9, 2)},
   housekeeping_mock |-> {Plain(<<1, 242>>), Plain(<<3, 242>>)}]

\* A write that asks for no reply, and reads.
FormatterRequests ==
  [mock |-> {Code("cmos1", 3), Template("cmos1", 9, 2)}, housekeeping_mock |-> {}]

MCRings ==
  [cdte1 |-> {[pointer_at |-> 0, start |-> 4, stride |-> 4, slots |-> 2]},
   cmos1 |-> {[pointer_at |-> 0, start |-> 8, stride |-> 2, slots |-> 1],
              [pointer_at |-> 4, start |-> 20, stride |-> 3, slots |-> 2]}]
MCMemory ==
  [cdte1 |-> [a \in 0 .. 15 |-> IF a = 3 THEN 4 ELSE IF a < 3 THEN 0 ELSE 100 + a],
   cmos1 |-> [a \in 0 .. 11 |-> IF a = 3 THEN 8 ELSE IF a = 7 THEN 20
                                ELSE IF a < 7 THEN 0 ELSE 200 + a]]
=============================================================================
