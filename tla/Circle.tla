-------------------------------- MODULE Circle --------------------------------
(***************************************************************************)
(* The main loop: initialisation, and one visit to each system in turn.    *)
(*                                                                         *)
(* What a visit does in detail is in FrameReadout, CommandUplink,          *)
(* Housekeeping and Timepix.  Here an exchange is one step with all its    *)
(* outcomes, and what is left is what visits share: the error words and    *)
(* states that every status packet shows, the downlink queue that one      *)
(* visit fills and another one sends, and whose turn it is.                *)
(*                                                                         *)
(* A packet in the queue is represented by the visit that queued it.       *)
(***************************************************************************)
EXTENDS Integers, Sequences

CONSTANTS
  Order,      \* system_order
  Canisters,  \* the CdTe detectors
  CMOSs       \* the CMOS detectors

Systems   == {Order[i] : i \in 1 .. Len(Order)}
Detectors == Canisters \cup CMOSs
\* The systems on the TCP connection.
SpaceWire == Detectors \cup {"cdtede"}

ASSUME OrderAssumption ==
  /\ Order \in Seq(STRING) /\ Order # <<>>
  /\ \A i, j \in 1 .. Len(Order) : Order[i] = Order[j] => i = j
  /\ SpaceWire \cup {"housekeeping", "timepix", "uplink"} = Systems
  /\ Canisters \cap CMOSs = {}
  /\ {"cdtede", "housekeeping", "timepix", "uplink"} \cap Detectors = {}

VARIABLES
  system_state,    \* [Systems -> states]: SystemManager::system_state
  errors,          \* [SpaceWire -> flags]: SystemManager::errors
  active_type,     \* [CMOSs -> types]: SystemManager::active_type
  downlink_buffer, \* the visits that queued what is in the queue, or tried to
  current_system,
  pc,              \* where the visit is
  did_queue_hk,    \* the local of a visit: "yes", "no", or "unset"
  last_read,       \* history: [SpaceWire -> how the last read of it ended]
  unqueued         \* history: why housekeeping of cdte1 was not queued since its
                   \* last whole frame, "missing" or "refused"

loop == <<current_system, pc>>
history == <<last_read, unqueued>>
vars == <<system_state, errors, active_type, downlink_buffer, loop, did_queue_hk, history>>

System == Order[current_system]

-----------------------------------------------------------------------------
(* What an exchange does to the error word of a system.  Of the flags the  *)
(* model has those that more than one part of a visit touches.             *)

Flags == {"reading_packet", "reading_invalid", "downlink_buffering"}

\* A read that brings its reply, and one that brings none.
Answered(e) == e \ {"reading_packet"}
Silent(e)   == e \cup {"reading_packet", "reading_invalid"}
Invalid(e)  == Answered(e) \cup {"reading_invalid"}

Result(e, read) == [errors |-> e, read |-> read]

\* A question at the start: no reply, one that makes no sense, or one that does.
Asked(s) ==
  {Result(Silent(errors[s]), "failed"), Result(Invalid(errors[s]), "ok"),
   Result(Answered(errors[s]), "ok")}

\* sync_send_command_to_system: nothing to send or no reply asked for; a reply; a
\* read without one; a write without one.
Commanded(s) ==
  {Result(errors[s], last_read[s]), Result(Answered(errors[s]), "ok"),
   Result(Silent(errors[s]), "failed"),
   Result(errors[s] \cup {"reading_packet"}, "failed")}

\* Mutant: a packet that does not come leaves no trace.
MissedQuietly(e) == Answered(e)
Missed(e)        == e \cup {"reading_packet"}

\* sync_remote_buffer_transaction: no pointer, not a pointer, the same pointer, a
\* packet that does not come, a frame.
Transacted(s) ==
  {Result(Silent(errors[s]), "failed"), Result(Invalid(errors[s]), "ok"),
   Result(Answered(errors[s]), "ok"), Result(Missed(errors[s]), "failed"),
   Result({}, "frame")}

\* Mutant: raised on the copy of the manager that the housekeeping was read with.
BufferingOnCopy(e) == {e}
\* Of the canisters only cdte1 gets this flag, when did_queue_hk is false, which
\* it may be or not if nothing has set it.
Buffering(e) ==
  CASE System # "cdte1" \/ did_queue_hk = "yes" -> {e}
    [] System = "cdte1" /\ did_queue_hk = "no" -> {e \cup {"downlink_buffering"}}
    [] System = "cdte1" /\ did_queue_hk = "unset" -> {e, e \cup {"downlink_buffering"}}

-----------------------------------------------------------------------------
(* Initialisation.                                                         *)

Init ==
  /\ system_state = [s \in Systems |-> "OFF"]
  /\ errors = [s \in SpaceWire |-> {}]
  /\ active_type = [c \in CMOSs |-> "PC"]
  /\ downlink_buffer = {}
  /\ current_system = 1 /\ pc = "init_housekeeping"
  /\ did_queue_hk = "unset"
  /\ last_read = [s \in SpaceWire |-> "none"] /\ unqueued = {}

InitHousekeeping ==
  /\ pc = "init_housekeeping"
  /\ system_state' = [system_state EXCEPT !["housekeeping"] = "LOOP"]
  /\ pc' = "init_timepix"
  /\ UNCHANGED <<errors, active_type, downlink_buffer, current_system, did_queue_hk,
                 history>>

\* The port does not open, the ping is answered, or it is not.
InitTimepix ==
  /\ pc = "init_timepix"
  /\ \E st \in {"ABANDON", "LOOP", "OFF"} :
       system_state' = [system_state EXCEPT !["timepix"] = st]
  /\ pc' = "init_cdte"
  /\ UNCHANGED <<errors, active_type, downlink_buffer, current_system, did_queue_hk,
                 history>>

\* The status of the canisters does not come, is no status, or says which of them
\* are there.  A canister that is not is not given up.
InitCdte ==
  /\ pc = "init_cdte"
  /\ \E r \in Asked("cdtede"), there \in SUBSET Canisters :
       /\ there # {} => r = Result(Answered(errors["cdtede"]), "ok")
       /\ errors' = [errors EXCEPT !["cdtede"] = r.errors]
       /\ last_read' = [last_read EXCEPT !["cdtede"] = r.read]
       /\ system_state' = [s \in Systems |-> IF s \in there \cup {"cdtede"}
                                             THEN "LOOP" ELSE system_state[s]]
  /\ pc' = "init_cmos"
  /\ UNCHANGED <<active_type, downlink_buffer, current_system, did_queue_hk, unqueued>>

\* Every CMOS is asked for its linetime, and starts whatever it says.
InitCmos ==
  /\ pc = "init_cmos"
  /\ \E r \in [CMOSs -> UNION {Asked(c) : c \in CMOSs}] :
       /\ \A c \in CMOSs : r[c] \in Asked(c)
       /\ errors' = [s \in SpaceWire |-> IF s \in CMOSs THEN r[s].errors ELSE errors[s]]
       /\ last_read' = [s \in SpaceWire |-> IF s \in CMOSs THEN r[s].read ELSE last_read[s]]
  /\ system_state' = [s \in Systems |-> IF s \in CMOSs THEN "LOOP" ELSE system_state[s]]
  /\ pc' = "begin"
  /\ UNCHANGED <<active_type, downlink_buffer, current_system, did_queue_hk, unqueued>>

-----------------------------------------------------------------------------
(* A visit.                                                                *)

\* Mutants: the index of an array from zero; a system that is skipped is tried
\* again.
FollowingZero(i) == (i + 1) % Len(Order)
FollowingSame(i) == IF system_state[Order[i]] = "ABANDON" THEN i ELSE (i % Len(Order)) + 1
Following(i)     == (i % Len(Order)) + 1

Return == current_system' = Following(current_system) /\ pc' = "begin"
GoTo(where) == current_system' = current_system /\ pc' = where

\* Whether enqueue succeeds nobody looks but the visit to cdte1, for its housekeeping.
Queue == downlink_buffer' = downlink_buffer \cup {current_system}

\* Mutant: as after a poll of the housekeeping board, nothing is sent when the
\* reply is missing.
SendIfQueued == IF did_queue_hk = "yes" THEN {} ELSE downlink_buffer
Send         == {}

\* Uplink, flush and the status packet come before everything else.  An abandoned
\* system is then skipped, and the uplink has nothing more to do.
BeginVisit ==
  /\ pc = "begin"
  /\ Queue
  /\ IF system_state[System] = "ABANDON" \/ System = "uplink" THEN Return ELSE GoTo("commands")
  /\ UNCHANGED <<system_state, errors, active_type, did_queue_hk, history>>

\* The queue of the system, and before it, at a canister, that of the CdTe DE.
Served == IF System \in Canisters THEN {"cdtede", System} ELSE {System} \cap SpaceWire

SendCommands ==
  /\ pc = "commands"
  /\ \E r \in [Served -> UNION {Commanded(s) : s \in Served}] :
       /\ \A s \in Served : r[s] \in Commanded(s)
       /\ errors' = [s \in SpaceWire |-> IF s \in Served THEN r[s].errors ELSE errors[s]]
       /\ last_read' = [s \in SpaceWire |-> IF s \in Served THEN r[s].read ELSE last_read[s]]
  /\ Queue
  /\ GoTo(CASE System \in Detectors -> "frame"
            [] System = "cdtede"    -> "hk"
            [] OTHER                -> "poll")
  /\ UNCHANGED <<system_state, active_type, did_queue_hk, unqueued>>

\* Mutant: the other buffer's turn comes when this one's frame has come.
OtherTypeIfRead(t, r) == IF r.read # "frame" THEN t ELSE IF t = "PC" THEN "QL" ELSE "PC"
OtherType(t, r)       == IF t = "PC" THEN "QL" ELSE "PC"

\* One frame, of a CMOS from one buffer after the other.
ReadFrame ==
  /\ pc = "frame"
  /\ \E r \in Transacted(System) :
       /\ errors' = [errors EXCEPT ![System] = r.errors]
       /\ last_read' = [last_read EXCEPT ![System] = IF r.read = "frame" THEN "ok" ELSE r.read]
       /\ unqueued' = IF System = "cdte1" /\ r.read = "frame" THEN {} ELSE unqueued
       /\ active_type' = [c \in CMOSs |-> IF c = System THEN OtherType(active_type[c], r)
                                                        ELSE active_type[c]]
  /\ Queue
  /\ GoTo("hk")
  /\ UNCHANGED <<system_state, did_queue_hk>>

\* The housekeeping of a detector, or of the CdTe DE, which does not send the queue.
\* The manager that is read with is a copy, and its error word is lost with it.
\* That the reply is queued is looked at for cdte1 only.
AskHk ==
  /\ pc = "hk"
  /\ \/ \E queued \in {"yes", "no"} :
          /\ last_read' = [last_read EXCEPT ![System] = "ok"]
          /\ Queue
          /\ did_queue_hk' = IF System = "cdte1" THEN queued ELSE did_queue_hk
          /\ unqueued' = IF System = "cdte1" /\ queued = "no"
                          THEN unqueued \cup {"refused"} ELSE unqueued
     \/ /\ last_read' = [last_read EXCEPT ![System] = "failed_on_copy"]
        /\ unqueued' = IF System = "cdte1" THEN unqueued \cup {"missing"} ELSE unqueued
        /\ UNCHANGED <<did_queue_hk, downlink_buffer>>
  /\ IF System = "cdtede" THEN Return ELSE GoTo("send")
  /\ UNCHANGED <<system_state, errors, active_type>>

SendDownlink ==
  /\ pc = "send"
  /\ downlink_buffer' = Send
  /\ \E e \in Buffering(errors[System]) : errors' = [errors EXCEPT ![System] = e]
  /\ did_queue_hk' = "unset"
  /\ Return
  /\ UNCHANGED <<system_state, active_type, history>>

\* The housekeeping board and the Timepix: a visit with missing replies may return
\* before it sends the queue.
Poll ==
  /\ pc = "poll"
  /\ \/ downlink_buffer' = {}
     \/ Queue
  /\ Return
  /\ UNCHANGED <<system_state, errors, active_type, did_queue_hk, history>>

\* The program ends and starts again, in the middle of anything.
Restart ==
  /\ system_state' = [s \in Systems |-> "OFF"]
  /\ errors' = [s \in SpaceWire |-> {}]
  /\ active_type' = [c \in CMOSs |-> "PC"]
  /\ downlink_buffer' = {}
  /\ current_system' = 1 /\ pc' = "init_housekeeping"
  /\ did_queue_hk' = "unset"
  /\ last_read' = [s \in SpaceWire |-> "none"] /\ unqueued' = {}

Visit ==
  \/ BeginVisit
  \/ SendCommands
  \/ ReadFrame
  \/ AskHk
  \/ SendDownlink
  \/ Poll

Formatter ==
  \/ InitHousekeeping
  \/ InitTimepix
  \/ InitCdte
  \/ InitCmos
  \/ Visit

Next == Formatter \/ Restart

Spec     == Init /\ [][Next]_vars

\* The loop goes on, and restarts come to an end.
LiveSpec == Spec /\ WF_vars(Formatter) /\ <>[][~ Restart]_vars

-----------------------------------------------------------------------------
(* Properties.                                                             *)

\* How a read may have ended.
Ends == {"none", "ok", "failed", "failed_on_copy"}

TypeOK ==
  /\ system_state \in [Systems -> {"OFF", "LOOP", "ABANDON"}]
  /\ errors \in [SpaceWire -> SUBSET Flags]
  /\ active_type \in [CMOSs -> {"PC", "QL"}]
  /\ downlink_buffer \subseteq 1 .. Len(Order)
  /\ current_system \in 1 .. Len(Order)
  /\ pc \in {"init_housekeeping", "init_timepix", "init_cdte", "init_cmos", "begin",
             "commands", "frame", "hk", "send", "poll"}
  /\ did_queue_hk \in {"yes", "no", "unset"}
  /\ last_read \in [SpaceWire -> Ends]
  /\ unqueued \subseteq {"missing", "refused"}

\* The visits that have ended since visit v queued a packet.
Since(v) ==
  IF v < current_system \/ (v = current_system /\ pc # "begin")
  THEN v .. current_system - 1
  ELSE v .. Len(Order) \cup 1 .. current_system - 1

\* A packet waits only through visits that may end without sending the queue: every
\* visit to a detector sends it, whatever the detector answers, so that a status
\* packet is never older than the longest run of other visits.
NothingWaitsLong ==
  \A v \in downlink_buffer : \A w \in Since(v) : Order[w] \notin Detectors

\* A SpaceWire system whose last read failed is shown to the ground with that
\* error, as far as the read was done with its own manager.
SeenFailureIsFlagged ==
  \A s \in SpaceWire : last_read[s] = "failed" => "reading_packet" \in errors[s]

\* Housekeeping of cdte1 that could not be queued is shown by every status packet
\* after that visit until a whole frame of cdte1 is read: downlink_buffering is
\* raised at the end of the visit, on the manager itself, and no other exchange
\* takes it down.  And it is shown only while housekeeping of that time is not
\* there, refused or missing, and for no other system.  (When it is missing the
\* flag may be up or not, since did_queue_hk was never set.)
UnqueuedIsShown ==
  /\ pc = "begin" /\ "refused" \in unqueued => "downlink_buffering" \in errors["cdte1"]
  /\ \A s \in SpaceWire :
       "downlink_buffering" \in errors[s] => s = "cdte1" /\ unqueued # {}

\* Every system gets its turn for ever, whatever the others do, unless it was
\* abandoned for good.
SystemsAreServed ==
  \A s \in Systems \ {"uplink"} :
    <>[](system_state[s] # "ABANDON") => []<>(pc = "commands" /\ System = s)

\* Both buffers of a CMOS are read for ever, also if one of them never has a frame.
BothBuffersAreRead ==
  \A c \in CMOSs, t \in {"PC", "QL"} :
    []<>(pc = "frame" /\ System = c /\ active_type[c] = t)

\* The error word is documented to say that some packet could not be read: the
\* status packet, queued when a visit begins, should show it for every read.
FailureIsReported ==
  pc = "begin" => \A s \in SpaceWire : last_read[s] \in {"failed", "failed_on_copy"}
                                         => "reading_packet" \in errors[s]
=============================================================================
