--------------------------- MODULE SpaceWirePacket ---------------------------
(***************************************************************************)
(* The bytes of a command to a detector: how CommandDeck builds an RMAP    *)
(* packet, and how get_reply_data takes the data out of a reply.  Fields   *)
(* are found by counting bytes from the front or from the back of a packet *)
(* whose path addresses differ in length from system to system.            *)
(* Numbers that do not fit TLC's integers are all the same to the code     *)
(* here: longer than any stream, beyond any memory.                        *)
(***************************************************************************)
EXTENDS Integers, Sequences

CONSTANTS
  Spacewire, \* [systems -> SpaceWire]: System::spacewire
  Commands,  \* [<<system, code>> -> Command]: CommandDeck::commands
  Crc(_)     \* SpaceWire::crc: any function of the bytes will do

Byte == 0 .. 255

ASSUME SpacewireAssumption ==
  /\ Spacewire \in [DOMAIN Spacewire ->
       [target_path_address : Seq(Byte), target_logical_address : Byte, key : Byte,
        reply_path_address : Seq(Byte), source_logical_address : Byte]]
  /\ DOMAIN Commands \subseteq (DOMAIN Spacewire) \X Byte
  /\ Commands \in [DOMAIN Commands ->
       [read : BOOLEAN, spw_instruction : Byte, spw_address : Seq(Byte),
        spw_write_data : Seq(Byte), spw_reply_length : Nat]]

\* The code returns a uint8_t.
CrcIsAByte == \A b \in Seq(Byte) : Crc(b) \in Byte

-----------------------------------------------------------------------------
(* Numbers and bytes.                                                      *)

splat_to_nbytes(n, data) == [i \in 1 .. n |-> (data \div 256 ^ (n - i)) % 256]

Huge == 2147483647

unsplat_from_4bytes(b) ==
  IF b[1] > 127 THEN Huge ELSE b[1] * 2 ^ 24 + b[2] * 2 ^ 16 + b[3] * 2 ^ 8 + b[4]

\* n bytes from offset i, which counts from 0.
At(s, i, n) == SubSeq(s, i + 1, i + n)

-----------------------------------------------------------------------------
(* Commands.                                                               *)

EtherSize == 12

\* EOP, padding, and the size in eight bytes, of which four are enough.
get_spw_ether_header(rmap) == <<0, 0, 0, 0, 0, 0, 0, 0>> \o splat_to_nbytes(4, Len(rmap))

\* Instruction, addresses and length, closed by their CRC, behind the path.
RmapHeader(w, instruction, address, length) ==
  LET tailer == <<w.target_logical_address, 1, instruction, w.key>>
                  \o w.reply_path_address
                  \o <<w.source_logical_address, 0, 0, 0>>
                  \o address \o splat_to_nbytes(3, length)
  IN  w.target_path_address \o tailer \o <<Crc(tailer)>>

make_spw_header_(sys, cmd) ==
  RmapHeader(Spacewire[sys], cmd.spw_instruction, cmd.spw_address,
             IF cmd.read THEN cmd.spw_reply_length ELSE Len(cmd.spw_write_data))

make_spw_packet_for_sys_for_command(sys, cmd) ==
  LET data == IF cmd.read THEN <<>> ELSE cmd.spw_write_data \o <<Crc(cmd.spw_write_data)>>
      rmap == make_spw_header_(sys, cmd) \o data
  IN  get_spw_ether_header(rmap) \o rmap

\* A command that the deck does not know is the null command, of one byte.
get_command_bytes_for_sys_for_code(sys, code) ==
  IF <<sys, code>> \in DOMAIN Commands
  THEN make_spw_packet_for_sys_for_command(sys, Commands[<<sys, code>>])
  ELSE <<0>>

\* Mutant: the length of the packet is that of the packet with its own header.
get_read_command_for_sys_at_addressLong(sys, read_addr, read_len) ==
  LET rmap == RmapHeader(Spacewire[sys], 77, read_addr, read_len)
  IN  get_spw_ether_header(get_spw_ether_header(rmap) \o rmap) \o rmap
get_read_command_for_sys_at_address(sys, read_addr, read_len) ==
  LET rmap == RmapHeader(Spacewire[sys], 77, read_addr, read_len)
  IN  get_spw_ether_header(rmap) \o rmap

\* Another address and length in a read command: the fields are counted from
\* the end, where the paths do not matter, and the CRC is made anew.
get_read_command_from_template(sys, code, addr, read_len) ==
  LET t      == get_command_bytes_for_sys_for_code(sys, code)
      n      == Len(t)
      length == splat_to_nbytes(3, read_len)
      new    == [p \in 1 .. n |->
                   CASE p = n - 8                -> 0
                     [] p \in n - 7 .. n - 4     -> addr[p - (n - 8)]
                     [] p \in n - 3 .. n - 1     -> length[p - (n - 4)]
                     [] OTHER                    -> t[p]]
      front  == EtherSize + Len(Spacewire[sys].target_path_address)
  IN  [new EXCEPT ![n] = Crc(SubSeq(new, front + 1, n - 1))]

-----------------------------------------------------------------------------
(* Replies.                                                                *)

\* Mutant: the header's CRC is taken for data.
get_reply_dataEarly(spw_reply) ==
  IF Len(spw_reply) < EtherSize + 13 THEN <<>>
  ELSE LET data_length == unsplat_from_4bytes(<<0>> \o At(spw_reply, EtherSize + 8, 3))
       IN  IF Len(spw_reply) - (EtherSize + 13) < data_length THEN <<>>
           ELSE At(spw_reply, EtherSize + 11, data_length)

\* The data of a reply; nothing if it is shorter than its header says.
get_reply_data(spw_reply) ==
  IF Len(spw_reply) < EtherSize + 13 THEN <<>>
  ELSE LET data_length == unsplat_from_4bytes(<<0>> \o At(spw_reply, EtherSize + 8, 3))
       IN  IF Len(spw_reply) - (EtherSize + 13) < data_length THEN <<>>
           ELSE At(spw_reply, EtherSize + 12, data_length)
=============================================================================
