------------------------------ MODULE MCMemMan ------------------------------
(***************************************************************************)
(* MemMan with headers of 2 bytes, a heap of 9 headers' length, a first    *)
(* request that is small, one that takes the whole heap and one beyond the *)
(* RAM, and further requests that leave gaps of different sizes.           *)
(***************************************************************************)
EXTENDS MemMan
=============================================================================
