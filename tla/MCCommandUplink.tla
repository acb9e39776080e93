--------------------------- MODULE MCCommandUplink ---------------------------
(* Instances of CommandUplink for TLC.  Bytes are small numbers.  Systems 1  *)
(* and 2 share a visit, as cdtede and cdte1 do; 3 is abandoned and no visit  *)
(* serves it.  Codes overlap with systems, so that bytes paired the wrong    *)
(* way round may still name a command.                                      *)
EXTENDS CommandUplink, TLC

MCQueued == {1, 2, 3}
MCCycle  == <<<<1, 2>>, <<>>>>
MCDeck   == (<<1, 5>> :> "write") @@ (<<2, 1>> :> "write") @@ (<<2, 5>> :> "read")
              @@ (<<1, 1>> :> "write only") @@ (<<1, 2>> :> "refused") @@ (<<3, 5>> :> "write")

\* Every kind of command, one for a system without a queue, and one that the
\* deck does not know.
MCUplinks   == {<<1, 5>>, <<2, 1>>, <<2, 5>>, <<1, 1>>, <<1, 2>>, <<3, 5>>, <<5, 1>>, <<2, 2>>}
SilentUplinks == {<<1, 5>>, <<2, 1>>}
=============================================================================
