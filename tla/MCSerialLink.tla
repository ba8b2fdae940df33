---------------------------- MODULE MCSerialLink ----------------------------
(***************************************************************************)
(* SerialLink with small buffers.  MCSerialLink.cfg gives the guest buffer *)
(* room above the threshold for a full ring and a full FIFO;               *)
(* MCSerialLinkRts.cfg has the proportions of the program, where the ring  *)
(* alone holds far more than the guest has room for.                       *)
(***************************************************************************)
EXTENDS SerialLink
=============================================================================
