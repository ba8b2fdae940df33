------------------------------- MODULE MemMan -------------------------------
(***************************************************************************)
(* The memory manager of the guest's BIOS (asm/bios/memman.asm).           *)
(*                                                                         *)
(* The heap is a list of blocks, linked by headers that lie in front of    *)
(* the memory handed out; free space is what lies between a block and the  *)
(* next one.  The list is walked to find the gap a request fits best, to   *)
(* find a block that is freed, and to add up the gaps.  A walk is a loop,  *)
(* one turn of it a step; nothing else runs meanwhile, as no interrupt     *)
(* handler allocates.  Another system may be booted over the old one,      *)
(* which leaves its headers in memory.                                     *)
(*                                                                         *)
(* Abstracted: MEMMAN_PID and MEMMAN_ATTR, which nothing reads; addresses  *)
(* and sizes are machine words of Word values.                             *)
(***************************************************************************)
EXTENDS Integers, FiniteSets

CONSTANTS
  Word,           \* 2^32
  SIZEOF,         \* MEMMAN_SIZEOF: bytes of a header, the unit of allocation
  Ceiling,        \* MEMMAN_CEILING: the end of RAM
  LoadEnds,       \* bound: ends of the systems that are booted
  FirstRequests,  \* bound: bytes first asked for after booting, ...
  Requests,       \* ... and later on
  WrongPointers,  \* bound: pointers freed although nobody may hold them
  MaxBoots        \* bound: systems booted after the first

ASSUME MemManAssumption ==
  /\ SIZEOF \in Nat \ {0}
  /\ Ceiling \in Nat /\ Ceiling % SIZEOF = 0 /\ Word \in Nat /\ 2 * Ceiling <= Word
  /\ LoadEnds \subseteq 1 .. Ceiling - 2 * SIZEOF
  /\ FirstRequests \subseteq 1 .. Word - 1 /\ Requests \subseteq 1 .. Word - 1
  /\ WrongPointers \subseteq 0 .. Word - 1 /\ MaxBoots \in Nat

VARIABLES
  OsAllocatorStart,
  next, size,      \* MEMMAN_NEXT and MEMMAN_SIZE at every address of a header
  \* the registers of the routine that runs, and the loop it is in
  d0, d2, a0, a1, a2, at,
  held,            \* the pointers programs were given and did not free
  call,            \* the call that runs or returned last
  boots

heap      == <<next, size>>
registers == <<d0, d2, a0, a1, a2>>
vars      == <<OsAllocatorStart, heap, registers, at, held, call, boots>>

NULL == 0
Slots == {a \in 0 .. Ceiling - 1 : a % SIZEOF = 0}
Words == 0 .. Word - 1
Junk  == SIZEOF   \* what the memory holds before it is used

\* Rounding up, as the code does it: the sum wraps at the word.  The faulty
\* variant does not mask the low bits.
PaddedUnmasked(n, extra) == (n + extra) % Word
Padded(n, extra) == LET sum == (n + extra) % Word IN sum - (sum % SIZEOF)

NoCall == [routine |-> "none", argument |-> 0]
Calls == [routine : {"none", "MemAlloc", "MemFree", "MemAvail"}, argument : Words]

\* The list, from the start of the heap on.
Linked ==
  LET walk[n \in Nat] ==
        IF n = 0 THEN OsAllocatorStart
        ELSE LET previous == walk[n - 1]
             IN  IF previous = NULL THEN NULL ELSE next[previous]
  IN  {walk[n] : n \in 0 .. Cardinality(Slots)} \ {NULL}

TypeOK ==
  /\ OsAllocatorStart \in Slots \ {NULL}
  /\ next \in [Slots -> Words] /\ size \in [Slots -> Words]
  /\ d0 \in Words /\ d2 \in Words
  /\ {a0, a1, a2} \subseteq Words
  /\ at \in {"program", "findNextSlot", "noMoreSlots", "findSlot", "memAvail"}
  /\ held \subseteq {a + SIZEOF : a \in Slots}
  /\ call \in Calls /\ boots \in 0 .. MaxBoots

\* MemInit: the first header follows the system, which ends at loadEnd.  The
\* faulty variant leaves the old header in place.
MemClearEntryKeep(entry) == UNCHANGED heap
MemClearEntry(entry) ==
  next' = [next EXCEPT ![entry] = NULL] /\ size' = [size EXCEPT ![entry] = 0]

Beginning(loadEnd) == Padded(loadEnd, 2 * SIZEOF - 1) - SIZEOF

Init ==
  /\ \E loadEnd \in LoadEnds : OsAllocatorStart = Beginning(loadEnd)
  /\ next = [a \in Slots |-> IF a = OsAllocatorStart THEN NULL ELSE Junk]
  /\ size = [a \in Slots |-> IF a = OsAllocatorStart THEN 0 ELSE Junk]
  /\ d0 = 0 /\ d2 = 0 /\ a0 = 0 /\ a1 = 0 /\ a2 = 0
  /\ at = "program" /\ held = {} /\ call = NoCall /\ boots = 0

MemInit(loadEnd) ==
  /\ at = "program" /\ boots < MaxBoots
  /\ OsAllocatorStart' = Beginning(loadEnd)
  /\ MemClearEntry(Beginning(loadEnd))
  /\ held' = {} /\ call' = NoCall /\ boots' = boots + 1
  /\ UNCHANGED <<registers, at>>

\* A routine returns d in D0; the other registers are restored or lost.
Return(d) ==
  d0' = d /\ d2' = 0 /\ a0' = 0 /\ a1' = 0 /\ a2' = 0 /\ at' = "program"

-----------------------------------------------------------------------------
(***************************************************************************)
(* MemAlloc                                                                *)
(***************************************************************************)

RoundedToo(n) == Padded(n, SIZEOF)   \* faulty: forgets the last bytes
Rounded(n) == Padded(n, 2 * SIZEOF - 1)

\* Bound: behind a first block that ends beyond the RAM, where its gap wraps
\* to nearly all addresses, no further allocation is followed: the headers it
\* writes would lie where there is no memory.
InRam == OsAllocatorStart + size[OsAllocatorStart] <= Ceiling

\* storeEntry: the block of an entry that is linked already.
StoreEntry(entry, bytes) ==
  /\ size' = [size EXCEPT ![entry] = bytes]
  /\ held' = held \cup {entry + SIZEOF}
  /\ Return(entry + SIZEOF)

\* The initial slot is stored without linking, whatever its size.
MemAllocInitial(n) ==
  /\ at = "program" /\ size[OsAllocatorStart] = 0 /\ n \in FirstRequests
  /\ call' = [routine |-> "MemAlloc", argument |-> n]
  /\ StoreEntry(OsAllocatorStart, Rounded(n))
  /\ UNCHANGED <<OsAllocatorStart, next, boots>>

MemAlloc(n) ==
  /\ at = "program" /\ size[OsAllocatorStart] # 0 /\ InRam /\ n \in Requests
  /\ call' = [routine |-> "MemAlloc", argument |-> n]
  /\ d0' = Rounded(n)
  /\ a0' = OsAllocatorStart /\ a1' = NULL /\ a2' = NULL
  /\ d2' = Word - 1
  /\ at' = "findNextSlot"
  /\ UNCHANGED <<OsAllocatorStart, heap, held, boots>>

\* The gap behind the entry in A0: an unsigned difference.
Gap == ((IF next[a0] = NULL THEN Ceiling ELSE next[a0]) - a0 - size[a0]) % Word

\* Does it fit, and better than the best so far?  The faulty variants take
\* the first that fits, and pass over an exact fit.
BetterInexact == Gap > d0 /\ Gap < d2
BetterFirst == Gap >= d0 /\ a2 = NULL
Better == Gap >= d0 /\ Gap < d2

ExamineSlot ==
  /\ at = "findNextSlot"
  /\ d2' = IF Better THEN Gap ELSE d2
  /\ a2' = IF Better THEN a0 ELSE a2
  /\ a1' = next[a0]
  /\ a0' = IF next[a0] = NULL THEN a0 ELSE next[a0]
  /\ at' = IF next[a0] = NULL THEN "noMoreSlots" ELSE at
  /\ UNCHANGED <<OsAllocatorStart, heap, d0, held, call, boots>>

NotEnoughMemory ==
  /\ at = "noMoreSlots" /\ a2 = NULL
  /\ Return(0)
  /\ UNCHANGED <<OsAllocatorStart, heap, held, call, boots>>

\* The new entry is linked behind the one whose gap it takes; the faulty
\* variants lose the entries that follow, and store the links in the wrong order.
LinkSwapped(entry) == [next EXCEPT ![entry] = entry, ![a2] = entry]
LinkLast(entry) == [next EXCEPT ![entry] = NULL, ![a2] = entry]
Link(entry) == [next EXCEPT ![entry] = next[a2], ![a2] = entry]

\* It begins where the other one ends; the faulty variant takes it for empty.
NewEntryInside == a2 + SIZEOF
NewEntry == a2 + size[a2]

SlotFound ==
  /\ at = "noMoreSlots" /\ a2 # NULL
  /\ next' = Link(NewEntry) /\ StoreEntry(NewEntry, d0)
  /\ UNCHANGED <<OsAllocatorStart, call, boots>>

-----------------------------------------------------------------------------
(***************************************************************************)
(* MemFree                                                                 *)
(***************************************************************************)
MemFree(pointer) ==
  /\ at = "program"
  /\ call' = [routine |-> "MemFree", argument |-> 0]
  /\ a0' = (pointer - SIZEOF) % Word /\ a1' = OsAllocatorStart /\ a2' = NULL
  /\ at' = "findSlot"
  /\ UNCHANGED <<OsAllocatorStart, heap, d0, d2, held, boots>>

\* The list ends, or begins with the block to be freed: no success.
NotFound ==
  /\ at = "findSlot"
  /\ a1 = NULL \/ (a1 = a0 /\ a2 = NULL)
  /\ Return(Word - 1)
  /\ UNCHANGED <<OsAllocatorStart, heap, held, call, boots>>

FindSlot ==
  /\ at = "findSlot" /\ a1 # NULL /\ a1 # a0
  /\ a2' = a1 /\ a1' = next[a1]
  /\ UNCHANGED <<OsAllocatorStart, heap, d0, d2, a0, at, held, call, boots>>

FoundSlot ==
  /\ at = "findSlot" /\ a1 # NULL /\ a1 = a0 /\ a2 # NULL
  /\ next' = [next EXCEPT ![a2] = next[a1], ![a1] = NULL]
  /\ size' = [size EXCEPT ![a1] = 0]
  /\ held' = held \ {a0 + SIZEOF}
  /\ Return(0)
  /\ UNCHANGED <<OsAllocatorStart, call, boots>>

-----------------------------------------------------------------------------
(***************************************************************************)
(* MemAvail                                                                *)
(***************************************************************************)
MemAvail ==
  /\ at = "program"
  /\ call' = [routine |-> "MemAvail", argument |-> 0]
  /\ d0' = 0 /\ a0' = OsAllocatorStart
  /\ at' = "memAvail"
  /\ UNCHANGED <<OsAllocatorStart, heap, d2, a1, a2, held, boots>>

\* The faulty variant does not count the last gap.
WithGapInner == IF next[a0] = NULL THEN d0 ELSE (d0 + Gap) % Word
WithGap == (d0 + Gap) % Word

AddGap ==
  /\ at = "memAvail"
  /\ IF next[a0] = NULL
     THEN Return(WithGap)
     ELSE d0' = WithGap /\ a0' = next[a0] /\ UNCHANGED <<d2, a1, a2, at>>
  /\ UNCHANGED <<OsAllocatorStart, heap, held, call, boots>>

-----------------------------------------------------------------------------
Walk ==
  \/ ExamineSlot \/ NotEnoughMemory \/ SlotFound
  \/ NotFound \/ FindSlot \/ FoundSlot \/ AddGap

Next ==
  \/ Walk
  \/ \E loadEnd \in LoadEnds : MemInit(loadEnd)
  \/ \E n \in FirstRequests : MemAllocInitial(n)
  \/ \E n \in Requests : MemAlloc(n)
  \/ \E p \in held \cup WrongPointers : MemFree(p)
  \/ MemAvail

\* The CPU runs.
Spec == Init /\ [][Next]_vars /\ WF_vars(Walk)

-----------------------------------------------------------------------------
Blocks == {[at |-> a, size |-> size[a]] : a \in {b \in Linked : size[b] # 0}}

(* The list of headers and the pointers programs hold agree between any two
   calls, whatever was freed twice, freed by a wrong pointer, or left in
   memory by an older system: no block is lost, none is linked that nobody
   holds. *)
HeldIsLinked ==
  at = "program" => held = {b.at + SIZEOF : b \in Blocks}

\* The bytes of the gaps, as the blocks leave them.
Free ==
  LET covered == UNION {b.at .. b.at + b.size - 1 : b \in Blocks}
  IN  (OsAllocatorStart .. Ceiling - 1) \ covered

(* What the manager says of free memory is true.  "Get free RAM memory":
   MemAvail counts the bytes of the heap that no block covers.  "0 if not
   enough continous RAM": a request is refused only if no run of free bytes
   holds it together with its header.  Behind a first block that ends beyond
   the RAM the sum wraps, and nothing is promised. *)
AnswersAreExact ==
  at = "program" /\ InRam =>
    /\ call.routine = "MemAvail" => d0 = Cardinality(Free)
    /\ call.routine = "MemAlloc" /\ d0 = 0 =>
         \A a \in Slots : ~(a .. a + Rounded(call.argument) - 1 \subseteq Free)

(* "Returns pointer in D0": the block behind the pointer holds all the bytes
   asked for, and it ends where the RAM ends at the latest.  The one grant that
   may end beyond is the first of the heap, which the code makes unchecked,
   against its "0 if not enough continous RAM" (memman.asm:50). *)
GrantIsRam ==
  at = "program" /\ call.routine = "MemAlloc" /\ d0 # 0 =>
    LET entry == d0 - SIZEOF
        end   == entry + size[entry]
    IN  d0 + call.argument <= end /\ (end <= Ceiling \/ entry = OsAllocatorStart)

(* No call touches memory a program holds: headers are written only where
   no program's data is. *)
Owned(a) == \E p \in held : p <= a /\ a < p - SIZEOF + size[p - SIZEOF]

DataIsKept ==
  [][at # "program" => \A a \in Slots :
       Owned(a) /\ Owned(a)' => next'[a] = next[a] /\ size'[a] = size[a]]_vars

(* Every list walk ends: the list has no cycle. *)
CallsReturn == at # "program" ~> at = "program"

(* The promise to programs: best fit, no overlap, and a first block of any
   size. *)
Promise == INSTANCE Allocator WITH Largest <- Word - 1,
                                   start <- OsAllocatorStart, blocks <- Blocks
Allocates == Promise!Spec

=============================================================================
