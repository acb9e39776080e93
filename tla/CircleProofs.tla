----------------------------- MODULE CircleProofs -----------------------------
(***************************************************************************)
(* Proofs about Circle, for every order of the systems.                    *)
(***************************************************************************)
EXTENDS Circle, TLAPS

-----------------------------------------------------------------------------
(* The inductive invariant.                                                *)

\* Only the Timepix is ever abandoned.
DetectorsAreKept == \A d \in Detectors : system_state[d] # "ABANDON"

\* Where a visit can be depends on whose it is, and nothing is queued before the
\* first one.
Places ==
  /\ pc \in {"frame", "send"} => System \in Detectors
  /\ pc = "hk" => System \in SpaceWire
  /\ pc = "poll" => System \notin SpaceWire
  /\ pc \in {"init_housekeeping", "init_timepix", "init_cdte", "init_cmos"}
       => downlink_buffer = {}

\* A refusal has raised the flag, or is about to; a reply that may be taken for one
\* was not queued; only cdte1 has either.
FlagFollows ==
  /\ "refused" \in unqueued => \/ "downlink_buffering" \in errors["cdte1"]
                               \/ pc = "send" /\ System = "cdte1" /\ did_queue_hk = "no"
  /\ pc = "send" /\ System = "cdte1" /\ did_queue_hk # "yes" => unqueued # {}
  /\ unqueued # {} => "cdte1" \in SpaceWire
  /\ \A s \in SpaceWire : "downlink_buffering" \in errors[s] => s = "cdte1" /\ unqueued # {}

IInv ==
  /\ TypeOK
  /\ NothingWaitsLong
  /\ SeenFailureIsFlagged
  /\ DetectorsAreKept
  /\ Places
  /\ FlagFollows

-----------------------------------------------------------------------------
(* Lemmas.                                                                 *)

\* The kinds of systems.
LEMMA Kinds ==
  /\ Len(Order) \in Nat \ {0}
  /\ \A i \in 1 .. Len(Order) : Order[i] \in Systems
  /\ SpaceWire \subseteq Systems /\ Detectors \subseteq SpaceWire
  /\ {"cdtede", "housekeeping", "timepix", "uplink"} \subseteq Systems
  /\ {"cdtede", "housekeeping", "timepix", "uplink"} \cap Detectors = {}
  /\ {"housekeeping", "timepix", "uplink"} \cap SpaceWire = {}
  /\ "cdtede" \in SpaceWire
<1>1. Len(Order) \in Nat /\ Len(Order) # 0
  BY OrderAssumption
<1>2. {"housekeeping", "timepix", "uplink"} \cap {"cdtede"} = {}
  OBVIOUS
<1> QED
  BY <1>1, <1>2, OrderAssumption DEF Systems, SpaceWire, Detectors

\* The next visit is one of the visits.
LEMMA FollowingType ==
  ASSUME NEW i \in 1 .. Len(Order)
  PROVE  /\ Following(i) \in 1 .. Len(Order)
         /\ i < Len(Order) => Following(i) = i + 1
         /\ i = Len(Order) => Following(i) = 1
<1>1. ASSUME NEW n \in Nat \ {0}, NEW j \in 1 .. n
      PROVE  /\ (j % n) + 1 \in 1 .. n
             /\ j < n => (j % n) + 1 = j + 1
             /\ j = n => (j % n) + 1 = 1
  OBVIOUS
<1> QED
  BY <1>1, Kinds DEF Following

\* When a visit ends, a packet has waited through that one besides those before,
\* and one that this visit queued through that one alone.
LEMMA OneMore ==
  ASSUME TypeOK, current_system' = Following(current_system), pc' = "begin"
  PROVE  /\ \A v \in 1 .. Len(Order) : Since(v)' \subseteq Since(v) \cup {current_system}
         /\ \A v \in 1 .. Len(Order) : v = current_system => Since(v)' = {current_system}
<1> DEFINE n == Len(Order)
           c == current_system
<1>1. n \in Nat \ {0} /\ c \in 1 .. n
  BY Kinds DEF TypeOK
<1>2. \/ c < n /\ c' = c + 1
      \/ c = n /\ c' = 1
  BY <1>1, FollowingType
<1>3. ASSUME NEW v \in 1 .. n
      PROVE  Since(v)' = IF v < c' THEN v .. c' - 1 ELSE v .. n \cup 1 .. c' - 1
  BY <1>1, <1>2 DEF Since
<1>4. ASSUME NEW v \in 1 .. n
      PROVE  Since(v)' \subseteq Since(v) \cup {c}
  <2>1. \/ Since(v) = v .. c - 1 /\ v <= c
        \/ Since(v) = (v .. n) \cup (1 .. c - 1) /\ c <= v
    BY <1>1 DEF Since
  <2> HIDE DEF n, c
  <2>2. CASE c < n /\ c' = c + 1
    BY <1>1, <1>3, <2>1, <2>2
  <2>3. CASE c = n /\ c' = 1
    BY <1>1, <1>3, <2>1, <2>3
  <2> QED
    BY <1>2, <2>2, <2>3
<1>5. ASSUME NEW v \in 1 .. n, v = c
      PROVE  Since(v)' = {c}
  <2>1. ASSUME NEW k \in Int PROVE k .. k = {k}
    OBVIOUS
  <2>2. CASE c < n /\ c' = c + 1
    <3>1. c < c' /\ c' - 1 = c
      BY <1>1, <2>2
    <3> QED
      BY <1>3, <1>5, <2>1, <3>1
  <2>3. CASE c = n /\ c' = 1
    <3>1. ~(c < c') /\ 1 .. c' - 1 = {} /\ c .. n = {c}
      BY <1>1, <2>1, <2>3
    <3> QED
      BY <1>3, <1>5, <3>1
  <2> QED
    BY <1>2, <2>2, <2>3
<1> QED
  BY <1>4, <1>5

\* What waits goes on waiting only through visits that may end without sending.
LEMMA Waits ==
  ASSUME TypeOK, NothingWaitsLong, downlink_buffer' \subseteq downlink_buffer \cup {current_system},
         \/ Return /\ System \notin Detectors
         \/ current_system' = current_system /\ pc' # "begin"
  PROVE  NothingWaitsLong'
<1>1. current_system \in 1 .. Len(Order) /\ downlink_buffer \subseteq 1 .. Len(Order)
  BY DEF TypeOK
<1>2. CASE Return /\ System \notin Detectors
  <2>1. current_system' = Following(current_system) /\ pc' = "begin" /\ Order[current_system] \notin Detectors
    BY <1>2 DEF Return, System
  <2>2. ASSUME NEW v \in downlink_buffer', NEW w \in Since(v)'
        PROVE  Order[w] \notin Detectors
    <3>1. CASE v \in downlink_buffer
      <4>1. w \in Since(v) \cup {current_system}
        BY <1>1, <2>1, <2>2, <3>1, OneMore
      <4> QED
        BY <2>1, <3>1, <4>1 DEF NothingWaitsLong
    <3>2. CASE v = current_system
      <4>1. w = current_system
        BY <1>1, <2>1, <2>2, <3>2, OneMore
      <4> QED
        BY <2>1, <4>1
    <3> QED
      BY <3>1, <3>2
  <2> QED
    BY <2>2 DEF NothingWaitsLong
<1>3. CASE current_system' = current_system /\ pc' # "begin"
  <2>1. ASSUME NEW v \in downlink_buffer', NEW w \in Since(v)'
        PROVE  Order[w] \notin Detectors
    <3>2. CASE v = current_system
      <4>1. Since(v)' = current_system .. current_system - 1
        BY <1>3, <3>2 DEF Since
      <4> QED
        BY <1>1, <2>1, <4>1, Kinds
    <3>3. CASE v # current_system
      <4>1. Since(v)' = Since(v) /\ v \in downlink_buffer
        BY <1>3, <3>3 DEF Since
      <4> QED
        BY <2>1, <4>1 DEF NothingWaitsLong
    <3> QED
      BY <3>2, <3>3
  <2> QED
    BY <2>1 DEF NothingWaitsLong
<1> QED
  BY <1>2, <1>3

\* A result that an exchange with system s may have.
Fair(r, s) ==
  /\ r.errors \subseteq Flags
  /\ r.read \in Ends
  /\ r.read = "failed" => "reading_packet" \in r.errors

\* An exchange that leaves downlink_buffering as it was.
Neutral(r, s) == "downlink_buffering" \in r.errors <=> "downlink_buffering" \in errors[s]

\* The fields of a result, and the flags that the model has.
LEMMA ResultFields ==
  /\ \A f, x : Result(f, x).errors = f /\ Result(f, x).read = x
  /\ {"reading_packet", "reading_invalid"} \subseteq Flags
  /\ "downlink_buffering" \notin {"reading_packet", "reading_invalid"}
  /\ "ok" # "failed" /\ "ok" \in Ends /\ "failed" \in Ends
BY DEF Result, Flags, Ends

\* An exchange leaves flags, and the one for a failure that its manager has seen.
LEMMA Results ==
  ASSUME TypeOK, SeenFailureIsFlagged, NEW s \in SpaceWire,
         NEW r \in Asked(s) \cup Commanded(s)
  PROVE  Fair(r, s) /\ Neutral(r, s)
<1> DEFINE e == errors[s]
           l == last_read[s]
           flags == r.errors
           how == r.read
<1>1. e \subseteq Flags /\ l \in Ends /\ (l = "failed" => "reading_packet" \in e)
  BY DEF TypeOK, SeenFailureIsFlagged
<1>2. \/ r = Result(Silent(e), "failed")
      \/ r = Result(Invalid(e), "ok")
      \/ r = Result(Answered(e), "ok")
      \/ r = Result(e, l)
      \/ r = Result(e \cup {"reading_packet"}, "failed")
  BY DEF Asked, Commanded
<1>3. \/ flags = Silent(e) /\ how = "failed"
      \/ flags = Invalid(e) /\ how = "ok"
      \/ flags = Answered(e) /\ how = "ok"
      \/ flags = e /\ how = l
      \/ flags = e \cup {"reading_packet"} /\ how = "failed"
  <2> HIDE DEF e, l
  <2> QED
    BY <1>2, ResultFields
<1> HIDE DEF e, l, flags, how
<1>4. /\ flags \subseteq Flags
      /\ how \in Ends
      /\ how = "failed" => "reading_packet" \in flags
      /\ "downlink_buffering" \in flags <=> "downlink_buffering" \in e
  BY <1>1, <1>3, ResultFields DEF Silent, Invalid, Answered
<1> QED
  BY <1>4 DEF Fair, Neutral, e, flags, how

\* What ReadFrame keeps of the end of a transaction, of which a frame clears the flags.
Kept(r) == Result(r.errors, IF r.read = "frame" THEN "ok" ELSE r.read)

LEMMA FrameResults ==
  ASSUME TypeOK, NEW s \in SpaceWire, NEW r \in Transacted(s)
  PROVE  /\ Fair(Kept(r), s)
         /\ IF r.read = "frame" THEN r.errors = {} ELSE Neutral(r, s)
<1> DEFINE e == errors[s]
           flags == r.errors
           how == r.read
<1>1. e \subseteq Flags
  BY DEF TypeOK
<1>2. \/ r = Result(Silent(e), "failed")
      \/ r = Result(Invalid(e), "ok")
      \/ r = Result(Answered(e), "ok")
      \/ r = Result(Missed(e), "failed")
      \/ r = Result({}, "frame")
  BY DEF Transacted
<1>3. \/ flags = Silent(e) /\ how = "failed"
      \/ flags = Invalid(e) /\ how = "ok"
      \/ flags = Answered(e) /\ how = "ok"
      \/ flags = Missed(e) /\ how = "failed"
      \/ flags = {} /\ how = "frame"
  <2> HIDE DEF e
  <2> QED
    BY <1>2, ResultFields
<1> HIDE DEF e, flags, how
<1>4. /\ flags \subseteq Flags
      /\ how \in {"ok", "failed", "frame"}
      /\ how = "failed" => "reading_packet" \in flags
      /\ how = "frame" => flags = {}
      /\ how # "frame" => ("downlink_buffering" \in flags <=> "downlink_buffering" \in e)
  BY <1>1, <1>3, ResultFields DEF Silent, Invalid, Answered, Missed
<1>5. Kept(r).errors = flags /\ Kept(r).read = IF how = "frame" THEN "ok" ELSE how
  BY ResultFields DEF Kept, flags, how
<1>6. Fair(Kept(r), s)
  BY <1>4, <1>5, ResultFields DEF Fair
<1> QED
  BY <1>4, <1>6 DEF Neutral, e, flags, how

\* What exchanges with any number of systems leave of the errors.
LEMMA Exchanges ==
  ASSUME TypeOK, SeenFailureIsFlagged,
         errors' = [s \in SpaceWire |-> errors'[s]],
         last_read' = [s \in SpaceWire |-> last_read'[s]],
         \A s \in SpaceWire : \/ errors'[s] = errors[s] /\ last_read'[s] = last_read[s]
                              \/ \E r : Fair(r, s) /\ errors'[s] = r.errors
                                                   /\ last_read'[s] = r.read
  PROVE  /\ errors' \in [SpaceWire -> SUBSET Flags]
         /\ last_read' \in [SpaceWire -> Ends]
         /\ SeenFailureIsFlagged'
<1>1. \A s \in SpaceWire : /\ errors[s] \in SUBSET Flags
                           /\ last_read[s] \in Ends
                           /\ last_read[s] = "failed" => "reading_packet" \in errors[s]
  BY DEF TypeOK, SeenFailureIsFlagged
<1>2. ASSUME NEW s \in SpaceWire
      PROVE  /\ errors'[s] \in SUBSET Flags
             /\ last_read'[s] \in Ends
             /\ last_read'[s] = "failed" => "reading_packet" \in errors'[s]
  <2>1. CASE errors'[s] = errors[s] /\ last_read'[s] = last_read[s]
    BY <1>1, <2>1
  <2>2. CASE \E r : Fair(r, s) /\ errors'[s] = r.errors /\ last_read'[s] = r.read
    <3>1. PICK r : Fair(r, s) /\ errors'[s] = r.errors /\ last_read'[s] = r.read
      BY <2>2
    <3> QED
      BY <3>1 DEF Fair
  <2> QED
    BY <2>1, <2>2
<1>3. errors' \in [SpaceWire -> SUBSET Flags]
  BY <1>2
<1>4. last_read' \in [SpaceWire -> Ends]
  BY <1>2
<1> QED
  BY <1>2, <1>3, <1>4 DEF SeenFailureIsFlagged

\* The exchanges of one action: the systems asked, with a result for each.
LEMMA ExchangesWith ==
  ASSUME TypeOK, SeenFailureIsFlagged, NEW S \in SUBSET SpaceWire, NEW r,
         \A s \in S : r[s] \in Asked(s) \cup Commanded(s),
         errors' = [s \in SpaceWire |-> IF s \in S THEN r[s].errors ELSE errors[s]],
         last_read' = [s \in SpaceWire |-> IF s \in S THEN r[s].read ELSE last_read[s]]
  PROVE  /\ errors' \in [SpaceWire -> SUBSET Flags]
         /\ last_read' \in [SpaceWire -> Ends]
         /\ SeenFailureIsFlagged'
         /\ \A s \in SpaceWire : "downlink_buffering" \in errors'[s]
                                    <=> "downlink_buffering" \in errors[s]
<1>1. ASSUME NEW s \in SpaceWire
      PROVE  \/ errors'[s] = errors[s] /\ last_read'[s] = last_read[s]
             \/ \E q : Fair(q, s) /\ errors'[s] = q.errors /\ last_read'[s] = q.read
  <2>1. CASE s \in S
    <3>1. Fair(r[s], s)
      BY <2>1, Results
    <3> QED
      BY <2>1, <3>1
  <2>2. CASE s \notin S
    BY <2>2
  <2> QED
    BY <2>1, <2>2
<1>2. errors' = [s \in SpaceWire |-> errors'[s]] /\ last_read' = [s \in SpaceWire |-> last_read'[s]]
  OBVIOUS
<1>3. ASSUME NEW s \in SpaceWire
      PROVE  "downlink_buffering" \in errors'[s] <=> "downlink_buffering" \in errors[s]
  <2>1. CASE s \in S
    <3>1. Neutral(r[s], s)
      BY <2>1, Results
    <3> QED
      BY <2>1, <3>1 DEF Neutral
  <2>2. CASE s \notin S
    BY <2>2
  <2> QED
    BY <2>1, <2>2
<1> QED
  BY <1>1, <1>2, <1>3, Exchanges

\* The exchange of one action with one system.
LEMMA ExchangeWith ==
  ASSUME TypeOK, SeenFailureIsFlagged, NEW t \in SpaceWire,
         NEW r, Fair(r, t),
         errors' = [errors EXCEPT ![t] = r.errors],
         last_read' = [last_read EXCEPT ![t] = r.read]
  PROVE  /\ errors' \in [SpaceWire -> SUBSET Flags]
         /\ last_read' \in [SpaceWire -> Ends]
         /\ SeenFailureIsFlagged'
<1>1. errors \in [SpaceWire -> SUBSET Flags]
  BY DEF TypeOK
<1>2. last_read \in [SpaceWire -> Ends]
  BY DEF TypeOK
<1>3. ASSUME NEW s \in SpaceWire
      PROVE  \/ errors'[s] = errors[s] /\ last_read'[s] = last_read[s]
             \/ \E q : Fair(q, s) /\ errors'[s] = q.errors /\ last_read'[s] = q.read
  BY <1>1, <1>2
<1>4. errors' = [s \in SpaceWire |-> errors'[s]] /\ last_read' = [s \in SpaceWire |-> last_read'[s]]
  BY <1>1, <1>2
<1> QED
  BY <1>3, <1>4, Exchanges

\* A step before the end of a visit that leaves the flag and what it is about.
LEMMA FlagKept ==
  ASSUME FlagFollows, pc # "send", pc' # "send", unqueued' = unqueued,
         \A s \in SpaceWire : "downlink_buffering" \in errors'[s]
                                 <=> "downlink_buffering" \in errors[s]
  PROVE  FlagFollows'
<1>1. unqueued # {} => "cdte1" \in SpaceWire
  BY DEF FlagFollows
<1>2. "refused" \in unqueued => "downlink_buffering" \in errors'["cdte1"]
  BY <1>1 DEF FlagFollows
<1> QED
  BY <1>1, <1>2 DEF FlagFollows

-----------------------------------------------------------------------------
(* The invariant is inductive.                                             *)

LEMMA InitIInv == Init => IInv
<1> SUFFICES ASSUME Init PROVE IInv
  OBVIOUS
<1>1. TypeOK
  <2>1. 1 \in 1 .. Len(Order)
    BY Kinds, OrderAssumption
  <2> QED
    BY <2>1 DEF Init, TypeOK, Ends
<1>2. NothingWaitsLong
  BY DEF Init, NothingWaitsLong
<1>3. SeenFailureIsFlagged
  BY DEF Init, SeenFailureIsFlagged
<1>4. DetectorsAreKept
  BY Kinds DEF Init, DetectorsAreKept
<1>5. Places /\ FlagFollows
  BY DEF Init, Places, FlagFollows
<1> QED
  BY <1>1, <1>2, <1>3, <1>4, <1>5 DEF IInv

LEMMA StepIInv == IInv /\ [Next]_vars => IInv'
<1> SUFFICES ASSUME IInv, [Next]_vars PROVE IInv'
  OBVIOUS
<1> USE DEF IInv
<1>1. /\ system_state \in [Systems -> {"OFF", "LOOP", "ABANDON"}]
      /\ errors \in [SpaceWire -> SUBSET Flags]
      /\ active_type \in [CMOSs -> {"PC", "QL"}]
      /\ downlink_buffer \subseteq 1 .. Len(Order)
      /\ current_system \in 1 .. Len(Order)
      /\ did_queue_hk \in {"yes", "no", "unset"}
      /\ last_read \in [SpaceWire -> Ends]
      /\ unqueued \subseteq {"missing", "refused"}
  BY DEF TypeOK
<1>2. System \in Systems /\ Following(current_system) \in 1 .. Len(Order)
  BY <1>1, Kinds, FollowingType DEF System
<1>3. CASE InitHousekeeping
  <2>1. downlink_buffer' = {}
    BY <1>3 DEF InitHousekeeping, Places
  <2>2. TypeOK'
    BY <1>1, <1>3, Kinds DEF InitHousekeeping, TypeOK, history
  <2>3. NothingWaitsLong' /\ Places' /\ FlagFollows'
    BY <1>3, <2>1, FlagKept DEF InitHousekeeping, NothingWaitsLong, Places, history
  <2>4. SeenFailureIsFlagged' /\ DetectorsAreKept'
    BY <1>1, <1>3, Kinds DEF InitHousekeeping, SeenFailureIsFlagged, DetectorsAreKept, history
  <2> QED
    BY <2>2, <2>3, <2>4
<1>4. CASE InitTimepix
  <2>1. downlink_buffer' = {}
    BY <1>4 DEF InitTimepix, Places
  <2>2. PICK st \in {"ABANDON", "LOOP", "OFF"} :
          system_state' = [system_state EXCEPT !["timepix"] = st]
    BY <1>4 DEF InitTimepix
  <2>3. TypeOK'
    BY <1>1, <1>4, <2>2, Kinds DEF InitTimepix, TypeOK, history
  <2>4. NothingWaitsLong' /\ Places' /\ FlagFollows'
    BY <1>4, <2>1, FlagKept DEF InitTimepix, NothingWaitsLong, Places, history
  <2>5. SeenFailureIsFlagged' /\ DetectorsAreKept'
    BY <1>1, <1>4, <2>2, Kinds DEF InitTimepix, SeenFailureIsFlagged, DetectorsAreKept, history
  <2> QED
    BY <2>3, <2>4, <2>5
<1>5. CASE InitCdte
  <2>1. downlink_buffer' = {}
    BY <1>5 DEF InitCdte, Places
  <2>2. PICK r \in Asked("cdtede"), there \in SUBSET Canisters :
          /\ errors' = [errors EXCEPT !["cdtede"] = r.errors]
          /\ last_read' = [last_read EXCEPT !["cdtede"] = r.read]
          /\ system_state' = [s \in Systems |-> IF s \in there \cup {"cdtede"}
                                                THEN "LOOP" ELSE system_state[s]]
    BY <1>5 DEF InitCdte
  <2>3. /\ errors' \in [SpaceWire -> SUBSET Flags]
        /\ last_read' \in [SpaceWire -> Ends]
        /\ SeenFailureIsFlagged'
    BY <2>2, Kinds, Results, ExchangeWith
  <2>4. system_state' \in [Systems -> {"OFF", "LOOP", "ABANDON"}] /\ DetectorsAreKept'
    BY <1>1, <2>2, Kinds DEF DetectorsAreKept
  <2>5. TypeOK'
    BY <1>1, <1>5, <2>3, <2>4 DEF InitCdte, TypeOK
  <2>6. NothingWaitsLong' /\ Places'
    BY <1>5, <2>1 DEF InitCdte, NothingWaitsLong, Places
  <2>7. FlagFollows'
    <3>1. Neutral(r, "cdtede")
      BY <2>2, Kinds, Results
    <3>2. \A s \in SpaceWire : "downlink_buffering" \in errors'[s]
                                  <=> "downlink_buffering" \in errors[s]
      BY <1>1, <2>2, <3>1, Kinds DEF Neutral
    <3> QED
      BY <1>5, <3>2, FlagKept DEF InitCdte
  <2> QED
    BY <2>3, <2>4, <2>5, <2>6, <2>7
<1>6. CASE InitCmos
  <2>1. downlink_buffer' = {}
    BY <1>6 DEF InitCmos, Places
  <2>2. PICK r : /\ \A c \in CMOSs : r[c] \in Asked(c)
                 /\ errors' = [s \in SpaceWire |-> IF s \in CMOSs THEN r[s].errors
                                                                  ELSE errors[s]]
                 /\ last_read' = [s \in SpaceWire |-> IF s \in CMOSs THEN r[s].read
                                                                     ELSE last_read[s]]
    BY <1>6 DEF InitCmos
  <2>3. CMOSs \in SUBSET SpaceWire
    BY DEF SpaceWire, Detectors
  <2>4. /\ errors' \in [SpaceWire -> SUBSET Flags]
        /\ last_read' \in [SpaceWire -> Ends]
        /\ SeenFailureIsFlagged'
        /\ \A s \in SpaceWire : "downlink_buffering" \in errors'[s]
                                   <=> "downlink_buffering" \in errors[s]
    BY <2>2, <2>3, ExchangesWith
  <2>5. system_state' \in [Systems -> {"OFF", "LOOP", "ABANDON"}] /\ DetectorsAreKept'
    BY <1>1, <1>6, Kinds DEF InitCmos, DetectorsAreKept
  <2>6. TypeOK'
    BY <1>1, <1>6, <2>4, <2>5 DEF InitCmos, TypeOK
  <2>7. NothingWaitsLong' /\ Places' /\ FlagFollows'
    BY <1>6, <2>1, <2>4, FlagKept DEF InitCmos, NothingWaitsLong, Places
  <2> QED
    BY <2>4, <2>5, <2>6, <2>7
<1>7. CASE BeginVisit
  <2>1. \/ Return /\ System \notin Detectors
        \/ GoTo("commands")
    BY <1>7, Kinds DEF BeginVisit, DetectorsAreKept
  <2>2. current_system' \in 1 .. Len(Order) /\ pc' \in {"begin", "commands"}
    BY <1>1, <1>2, <2>1 DEF Return, GoTo
  <2>3. TypeOK'
    BY <1>1, <1>7, <2>2 DEF BeginVisit, Queue, TypeOK, history
  <2>4. NothingWaitsLong'
    <3>1. downlink_buffer' \subseteq downlink_buffer \cup {current_system}
      BY <1>7 DEF BeginVisit, Queue
    <3> QED
      BY <2>1, <3>1, Waits DEF GoTo
  <2>5. SeenFailureIsFlagged' /\ DetectorsAreKept'
    BY <1>7 DEF BeginVisit, SeenFailureIsFlagged, DetectorsAreKept, history
  <2>6. Places' /\ FlagFollows'
    BY <1>7, <2>2, FlagKept DEF BeginVisit, Places, history
  <2> QED
    BY <2>3, <2>4, <2>5, <2>6
<1>8. CASE SendCommands
  <2>1. PICK r : /\ \A s \in Served : r[s] \in Commanded(s)
                 /\ errors' = [s \in SpaceWire |-> IF s \in Served THEN r[s].errors
                                                                   ELSE errors[s]]
                 /\ last_read' = [s \in SpaceWire |-> IF s \in Served THEN r[s].read
                                                                      ELSE last_read[s]]
    BY <1>8 DEF SendCommands
  <2>2. Served \in SUBSET SpaceWire
    BY Kinds DEF Served, Detectors
  <2>3. /\ errors' \in [SpaceWire -> SUBSET Flags]
        /\ last_read' \in [SpaceWire -> Ends]
        /\ SeenFailureIsFlagged'
        /\ \A s \in SpaceWire : "downlink_buffering" \in errors'[s]
                                   <=> "downlink_buffering" \in errors[s]
    BY <2>1, <2>2, ExchangesWith
  <2>4. /\ current_system' = current_system
        /\ \/ pc' = "frame" /\ System \in Detectors
           \/ pc' = "hk" /\ System = "cdtede"
           \/ pc' = "poll" /\ System \notin SpaceWire
    BY <1>8 DEF SendCommands, GoTo, SpaceWire
  <2>5. TypeOK'
    BY <1>1, <1>8, <2>3, <2>4 DEF SendCommands, Queue, TypeOK
  <2>6. NothingWaitsLong'
    <3>1. downlink_buffer' \subseteq downlink_buffer \cup {current_system}
      BY <1>8 DEF SendCommands, Queue
    <3> QED
      BY <2>4, <3>1, Waits
  <2>7. DetectorsAreKept'
    BY <1>8 DEF SendCommands, DetectorsAreKept
  <2>8. Places'
    BY <2>4, Kinds DEF Places, System
  <2>9. FlagFollows'
    BY <1>8, <2>3, <2>4, FlagKept DEF SendCommands
  <2> QED
    BY <2>3, <2>5, <2>6, <2>7, <2>8, <2>9
<1>9. CASE ReadFrame
  <2>1. System \in Detectors /\ System \in SpaceWire
    BY <1>9, Kinds DEF ReadFrame, Places
  <2>2. PICK r \in Transacted(System) :
          /\ errors' = [errors EXCEPT ![System] = r.errors]
          /\ last_read' = [last_read EXCEPT ![System] = IF r.read = "frame" THEN "ok" ELSE r.read]
          /\ unqueued' = IF System = "cdte1" /\ r.read = "frame" THEN {} ELSE unqueued
          /\ active_type' = [c \in CMOSs |-> IF c = System THEN OtherType(active_type[c], r)
                                                           ELSE active_type[c]]
    BY <1>9 DEF ReadFrame
  <2>3. /\ errors' \in [SpaceWire -> SUBSET Flags]
        /\ last_read' \in [SpaceWire -> Ends]
        /\ SeenFailureIsFlagged'
    <3>1. Fair(Kept(r), System)
      BY <2>1, <2>2, FrameResults
    <3>2. /\ errors' = [errors EXCEPT ![System] = Kept(r).errors]
          /\ last_read' = [last_read EXCEPT ![System] = Kept(r).read]
      BY <2>2, ResultFields DEF Kept
    <3> QED
      BY <2>1, <3>1, <3>2, ExchangeWith
  <2>4. active_type' \in [CMOSs -> {"PC", "QL"}]
    BY <1>1, <2>2 DEF OtherType
  <2>5. current_system' = current_system /\ pc' = "hk"
    BY <1>9 DEF ReadFrame, GoTo
  <2>6. TypeOK'
    BY <1>1, <1>9, <2>3, <2>4, <2>5 DEF ReadFrame, Queue, TypeOK
  <2>7. NothingWaitsLong'
    <3>1. downlink_buffer' \subseteq downlink_buffer \cup {current_system}
      BY <1>9 DEF ReadFrame, Queue
    <3> QED
      BY <2>5, <3>1, Waits
  <2>8. DetectorsAreKept'
    BY <1>9 DEF ReadFrame, DetectorsAreKept
  <2>9. Places'
    BY <2>1, <2>5 DEF Places, System
  <2>10. FlagFollows'
    <3>1. pc = "frame"
      BY <1>9 DEF ReadFrame
    <3>2. CASE r.read = "frame"
      <4>1. r.errors = {}
        BY <2>1, <2>2, <3>2, FrameResults
      <4>2. \A s \in SpaceWire : errors'[s] = IF s = System THEN {} ELSE errors[s]
        BY <1>1, <2>2, <4>1
      <4>3. unqueued' = IF System = "cdte1" THEN {} ELSE unqueued
        BY <2>2, <3>2
      <4>4. unqueued # {} => "cdte1" \in SpaceWire
        BY DEF FlagFollows
      <4> QED
        BY <2>5, <3>1, <4>2, <4>3, <4>4 DEF FlagFollows
    <3>3. CASE r.read # "frame"
      <4>1. Neutral(r, System)
        BY <2>1, <2>2, <3>3, FrameResults
      <4>2. \A s \in SpaceWire : "downlink_buffering" \in errors'[s]
                                    <=> "downlink_buffering" \in errors[s]
        BY <1>1, <2>1, <2>2, <4>1 DEF Neutral
      <4>3. unqueued' = unqueued
        BY <2>2, <3>3
      <4> QED
        BY <2>5, <3>1, <4>2, <4>3, FlagKept
    <3> QED
      BY <3>2, <3>3
  <2> QED
    BY <2>3, <2>6, <2>7, <2>8, <2>9, <2>10
<1>10. CASE AskHk
  <2>1. System \in SpaceWire
    BY <1>10 DEF AskHk, Places
  <2>2. \/ \E queued \in {"yes", "no"} :
             /\ last_read' = [last_read EXCEPT ![System] = "ok"]
             /\ did_queue_hk' = IF System = "cdte1" THEN queued ELSE did_queue_hk
             /\ unqueued' = IF System = "cdte1" /\ queued = "no"
                             THEN unqueued \cup {"refused"} ELSE unqueued
        \/ /\ last_read' = [last_read EXCEPT ![System] = "failed_on_copy"]
           /\ did_queue_hk' = did_queue_hk
           /\ unqueued' = IF System = "cdte1" THEN unqueued \cup {"missing"} ELSE unqueued
    BY <1>10 DEF AskHk
  <2>3. \/ Return /\ System \notin Detectors
        \/ /\ current_system' = current_system /\ pc' = "send"
           /\ System \in Detectors
    BY <1>10, <2>1, Kinds DEF AskHk, GoTo, SpaceWire
  <2>4. downlink_buffer' \subseteq downlink_buffer \cup {current_system}
    BY <1>10 DEF AskHk, Queue
  <2>5. TypeOK'
    <3>1. current_system' \in 1 .. Len(Order) /\ pc' \in {"begin", "send"}
      BY <1>1, <1>2, <2>3 DEF Return
    <3>2. last_read' \in [SpaceWire -> Ends]
      BY <1>1, <2>2 DEF Ends
    <3>3. /\ did_queue_hk' \in {"yes", "no", "unset"}
          /\ downlink_buffer' \subseteq 1 .. Len(Order)
          /\ unqueued' \subseteq {"missing", "refused"}
      BY <1>1, <2>2, <2>4
    <3> QED
      BY <1>1, <1>10, <3>1, <3>2, <3>3 DEF AskHk, TypeOK
  <2>6. NothingWaitsLong'
    BY <2>3, <2>4, Waits
  <2>7. SeenFailureIsFlagged'
    BY <1>1, <1>10, <2>1, <2>2 DEF AskHk, SeenFailureIsFlagged
  <2>8. DetectorsAreKept'
    BY <1>10 DEF AskHk, DetectorsAreKept
  <2>9. Places'
    BY <2>1, <2>3 DEF Return, Places, System
  <2>10. FlagFollows'
    <3>1. pc = "hk" /\ errors' = errors
      BY <1>10 DEF AskHk
    <3>2. /\ "refused" \in unqueued => "downlink_buffering" \in errors["cdte1"]
          /\ unqueued # {} => "cdte1" \in SpaceWire
          /\ \A s \in SpaceWire :
               "downlink_buffering" \in errors[s] => s = "cdte1" /\ unqueued # {}
      BY <3>1 DEF FlagFollows
    <3>3. CASE System = "cdte1"
      <4>1. pc' = "send" /\ System' = "cdte1"
        <5>1. System \in Detectors
          BY <2>1, <3>3 DEF SpaceWire
        <5> QED
          BY <2>3, <3>3, <5>1 DEF System
      <4>2. \/ did_queue_hk' = "yes" /\ unqueued' = unqueued
            \/ did_queue_hk' = "no" /\ unqueued' = unqueued \cup {"refused"}
            \/ unqueued' = unqueued \cup {"missing"}
        BY <2>2, <3>3
      <4> QED
        BY <2>1, <3>1, <3>2, <3>3, <4>1, <4>2 DEF FlagFollows
    <3>4. CASE System # "cdte1"
      <4>1. pc' = "send" => System' # "cdte1"
        BY <2>3, <3>4 DEF Return, System
      <4>2. unqueued' = unqueued
        BY <2>2, <3>4
      <4> QED
        BY <3>1, <3>2, <4>1, <4>2 DEF FlagFollows
    <3> QED
      BY <3>3, <3>4
  <2> QED
    BY <2>5, <2>6, <2>7, <2>8, <2>9, <2>10
<1>11. CASE SendDownlink
  <2>1. System \in SpaceWire
    BY <1>11, Kinds DEF SendDownlink, Places
  <2>2. PICK e \in Buffering(errors[System]) : errors' = [errors EXCEPT ![System] = e]
    BY <1>11 DEF SendDownlink
  <2>3. \/ e = errors[System] /\ (System = "cdte1" => did_queue_hk # "no")
        \/ /\ e = errors[System] \cup {"downlink_buffering"}
           /\ System = "cdte1" /\ did_queue_hk # "yes"
    BY <1>1, <2>2 DEF Buffering
  <2>4. downlink_buffer' = {} /\ pc' = "begin" /\ current_system' = Following(current_system)
    BY <1>11 DEF SendDownlink, Send, Return
  <2>5. errors' \in [SpaceWire -> SUBSET Flags]
    BY <1>1, <2>1, <2>2, <2>3 DEF Flags
  <2>6. TypeOK'
    BY <1>1, <1>2, <1>11, <2>4, <2>5 DEF SendDownlink, TypeOK, history
  <2>7. SeenFailureIsFlagged'
    BY <1>1, <1>11, <2>1, <2>2, <2>3 DEF SendDownlink, SeenFailureIsFlagged, history
  <2>8. NothingWaitsLong' /\ Places'
    BY <2>4 DEF NothingWaitsLong, Places
  <2>9. DetectorsAreKept'
    BY <1>11 DEF SendDownlink, DetectorsAreKept
  <2>10. FlagFollows'
    <3>1. pc = "send" /\ unqueued' = unqueued
      BY <1>11 DEF SendDownlink, history
    <3>2. \A s \in SpaceWire : errors'[s] = IF s = System THEN e ELSE errors[s]
      BY <1>1, <2>2
    <3>3. /\ unqueued # {} => "cdte1" \in SpaceWire
          /\ "refused" \in unqueued => \/ "downlink_buffering" \in errors["cdte1"]
                                       \/ System = "cdte1" /\ did_queue_hk = "no"
          /\ System = "cdte1" /\ did_queue_hk # "yes" => unqueued # {}
          /\ \A s \in SpaceWire :
               "downlink_buffering" \in errors[s] => s = "cdte1" /\ unqueued # {}
      BY <3>1 DEF FlagFollows
    <3>4. "refused" \in unqueued => "downlink_buffering" \in errors'["cdte1"]
      BY <2>1, <2>3, <3>2, <3>3
    <3>5. \A s \in SpaceWire :
            "downlink_buffering" \in errors'[s] => s = "cdte1" /\ unqueued # {}
      BY <2>1, <2>3, <3>2, <3>3
    <3> QED
      BY <2>4, <3>1, <3>3, <3>4, <3>5 DEF FlagFollows
  <2> QED
    BY <2>6, <2>7, <2>8, <2>9, <2>10
<1>12. CASE Poll
  <2>1. Return /\ System \notin Detectors
    BY <1>12, Kinds DEF Poll, Places
  <2>2. downlink_buffer' \subseteq downlink_buffer \cup {current_system}
    BY <1>12 DEF Poll, Queue
  <2>3. TypeOK'
    BY <1>1, <1>2, <1>12, <2>1, <2>2 DEF Poll, Return, TypeOK, history
  <2>4. NothingWaitsLong'
    BY <2>1, <2>2, Waits
  <2>5. SeenFailureIsFlagged' /\ DetectorsAreKept'
    BY <1>12 DEF Poll, SeenFailureIsFlagged, DetectorsAreKept, history
  <2>6. Places' /\ FlagFollows'
    BY <1>12, <2>1, FlagKept DEF Poll, Return, Places, history
  <2> QED
    BY <2>3, <2>4, <2>5, <2>6
<1>13. CASE Restart
  <2>1. TypeOK'
    <3>1. 1 \in 1 .. Len(Order)
      BY Kinds
    <3> QED
      BY <1>13, <3>1 DEF Restart, TypeOK, Ends
  <2>2. NothingWaitsLong' /\ SeenFailureIsFlagged'
    BY <1>13 DEF Restart, NothingWaitsLong, SeenFailureIsFlagged
  <2>3. DetectorsAreKept' /\ Places' /\ FlagFollows'
    BY <1>13, Kinds DEF Restart, DetectorsAreKept, Places, FlagFollows
  <2> QED
    BY <2>1, <2>2, <2>3
<1>14. CASE UNCHANGED vars
  BY <1>14 DEF vars, loop, history, TypeOK, NothingWaitsLong, Since, SeenFailureIsFlagged,
               DetectorsAreKept, Places, FlagFollows, System
<1> QED
  BY <1>3, <1>4, <1>5, <1>6, <1>7, <1>8, <1>9, <1>10, <1>11, <1>12, <1>13, <1>14
  DEF Next, Formatter, Visit

LEMMA Invariance == Spec => []IInv
  BY InitIInv, StepIInv, PTL DEF Spec

-----------------------------------------------------------------------------
(* The theorems.                                                           *)

\* The types of the variables of the main loop, in every visit.
THEOREM TypeCorrect == Spec => []TypeOK
BY Invariance, PTL DEF IInv

\* A packet waits only through visits that may end without sending the queue: a
\* visit to a detector always sends it, in every order of the systems.
THEOREM NothingWaits == Spec => []NothingWaitsLong
BY Invariance, PTL DEF IInv

\* Every failed read that was done with a system's own manager shows in its error
\* word, until a read of it does not fail.
THEOREM SeenFailure == Spec => []SeenFailureIsFlagged
BY Invariance, PTL DEF IInv

\* Every status packet after housekeeping of cdte1 was refused shows it, until a
\* whole frame of cdte1 is read; and none shows it when nothing was missing.
THEOREM RefusalIsShown == Spec => []UnqueuedIsShown
<1>1. IInv => UnqueuedIsShown
  BY DEF IInv, FlagFollows, UnqueuedIsShown
<1> QED
  BY <1>1, Invariance, PTL
=============================================================================
