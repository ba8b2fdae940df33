----------------------------- MODULE ByteStream -----------------------------
(***************************************************************************)
(* What a serial line promises to the program at its end: it hears the     *)
(* bytes that were sent, in order and without a gap, and it hears all of   *)
(* them.  Byte n is the n-th byte the other side sent.  A program that is  *)
(* started anew may miss bytes that were under way, never hear one twice.  *)
(***************************************************************************)
EXTENDS Naturals

CONSTANT MaxBytes  \* bound: bytes sent in a behaviour

VARIABLES sent, heard, listening

vars == <<sent, heard, listening>>

Init == sent = 0 /\ heard = 0 /\ listening = FALSE

Send == sent < MaxBytes /\ sent' = sent + 1 /\ UNCHANGED <<heard, listening>>

Hear ==
  /\ listening /\ heard < sent
  /\ heard' = heard + 1
  /\ UNCHANGED <<sent, listening>>

\* The program stops listening, ...
Stop == listening /\ listening' = FALSE /\ UNCHANGED <<sent, heard>>

\* ... and when it listens again the line may have dropped what was under way.
Listen ==
  /\ ~listening /\ listening' = TRUE
  /\ heard' \in heard .. sent
  /\ UNCHANGED sent

Next == Send \/ Hear \/ Stop \/ Listen

Spec == Init /\ [][Next]_vars /\ WF_vars(Hear)

=============================================================================
