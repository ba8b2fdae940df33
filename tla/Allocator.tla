----------------------------- MODULE Allocator ------------------------------
(***************************************************************************)
(* What the memory manager of the BIOS promises to programs: blocks that   *)
(* never overlap, each cut from the smallest gap that is large enough, and *)
(* a refusal only when there is no such gap.  The first block is cut from  *)
(* no gap: it lies at the start of the heap, however large it is.          *)
(*                                                                         *)
(* A block is [at |-> its first address, size |-> its bytes, header        *)
(* included].  The block at the start of the heap is never given back.     *)
(***************************************************************************)
EXTENDS Integers

CONSTANTS
  Ceiling,  \* the end of RAM
  Largest   \* bytes of the largest block that can be asked for

VARIABLES start, blocks

End(b) == b.at + b.size

\* The free space behind a block reaches to the next block or the ceiling.
Behind(b) == {c.at : c \in {c \in blocks : c.at > b.at}} \cup {Ceiling}
NextAt(b) == CHOOSE e \in Behind(b) : \A f \in Behind(b) : e <= f
Gaps == {[at |-> End(b), size |-> NextAt(b) - End(b)] : b \in blocks}

Init == start \in 0 .. Ceiling - 1 /\ blocks = {}

\* The first block is taken at the start of the heap, unchecked, ...
GrantFirst(size) ==
  /\ blocks = {} /\ blocks' = {[at |-> start, size |-> size]}
  /\ UNCHANGED start

\* ... a later one from the beginning of a smallest gap that holds it.
Grant(size) ==
  /\ \E g \in Gaps :
       /\ size <= g.size
       /\ \A h \in Gaps : size <= h.size => g.size <= h.size
       /\ blocks' = blocks \cup {[at |-> g.at, size |-> size]}
  /\ UNCHANGED start

Release ==
  /\ \E b \in blocks : b.at # start /\ blocks' = blocks \ {b}
  /\ UNCHANGED start

\* Another system is booted: whatever was allocated is gone.
Boot == start' \in 0 .. Ceiling - 1 /\ blocks' = {}

Next == Release \/ Boot \/ \E size \in 1 .. Largest : GrantFirst(size) \/ Grant(size)

Spec == Init /\ [][Next]_<<start, blocks>>

=============================================================================
