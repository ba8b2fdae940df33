----------------------------- MODULE MCMmcLink -----------------------------
EXTENDS MmcLink, TLC

\* Two sectors; one holds what a free line reads as and what an answer does.
MCDisk ==
  0 :> (0 :> 255 @@ 1 :> 0 @@ 2 :> 165) @@ 1 :> (0 :> 60 @@ 1 :> 1 @@ 2 :> 254)
=============================================================================
