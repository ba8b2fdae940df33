---------------------------- MODULE SectorDevice ----------------------------
(***************************************************************************)
(* What the storage layer expects of the SD card and its driver: after the *)
(* machine has started the device is there if a card is, a sector asked    *)
(* for is answered with its bytes, and a write is refused.  A reset may    *)
(* catch the card at something it does not forget; then nothing is         *)
(* promised until the next reset.                                          *)
(***************************************************************************)
EXTENDS Naturals

CONSTANTS Sectors, Disk

None      == [kind |-> "none", bytes |-> <<>>]
Refused   == [kind |-> "error", bytes |-> <<>>]
Bytes(b)  == [kind |-> "ok", bytes |-> b]

VARIABLES present, sound, mode, asked, answer
vars == <<present, sound, mode, asked, answer>>

Init ==
  /\ present \in BOOLEAN /\ sound = TRUE
  /\ mode = "starting" /\ asked = 0 /\ answer = None

Start ==
  /\ mode = "starting"
  /\ mode' \in (IF sound THEN {IF present THEN "ready" ELSE "absent"} ELSE {"ready", "absent"})
  /\ UNCHANGED <<present, sound, asked, answer>>

Ask(s) ==
  /\ mode = "ready" /\ mode' \in {"reading", "writing"}
  /\ asked' = s /\ answer' = None
  /\ UNCHANGED <<present, sound>>

Answer ==
  /\ mode = "reading" /\ mode' = "ready" /\ sound
  /\ answer' = Bytes(Disk[asked])
  /\ UNCHANGED <<present, sound, asked>>

Misanswer ==
  /\ mode \in {"reading", "writing"} /\ mode' = "ready" /\ ~sound
  /\ answer'.kind \in {"ok", "error"}
  /\ UNCHANGED <<present, sound, asked>>

Refuse ==
  /\ mode = "writing" /\ mode' = "ready" /\ sound
  /\ answer' = Refused
  /\ UNCHANGED <<present, sound, asked>>

Reset ==
  /\ mode' = "starting" /\ answer' = None /\ sound' \in BOOLEAN
  /\ UNCHANGED <<present, asked>>

Next == Start \/ (\E s \in Sectors : Ask(s)) \/ Answer \/ Misanswer \/ Refuse \/ Reset
Spec == Init /\ [][Next]_vars /\ WF_vars(Start \/ Answer \/ Refuse)
=============================================================================
