---------------------------- MODULE MemManProofs ----------------------------
(***************************************************************************)
(* Proofs about the memory manager, for every size of the memory, of a     *)
(* header and of the requests, and any number of blocks.                   *)
(*                                                                         *)
(* The invariant speaks of the headers as a set, Nodes: the start of the   *)
(* heap and what lies in front of the pointers that are held.  The links   *)
(* are in order if each leads to the nearest header above it and no block  *)
(* reaches beyond it.  That the links, followed from the start, meet just  *)
(* these headers is a lemma; the rest is said of the set.  What the three  *)
(* walks have found so far makes the invariant inductive.                  *)
(***************************************************************************)
EXTENDS MemMan, NaturalLemmas

-----------------------------------------------------------------------------
(***************************************************************************)
(* The headers of the list, said without the links: the one at the start   *)
(* of the heap and those in front of the pointers that programs hold.      *)
(***************************************************************************)
Header(p) == p - SIZEOF
Nodes == {OsAllocatorStart} \cup {Header(p) : p \in held}

EndOf(a)    == a + size[a]
NextOr(a)   == IF next[a] = NULL THEN Ceiling ELSE next[a]
GapAt(a)    == NextOr(a) - EndOf(a)

(* A header's link leads to the nearest header above it, and the block that
   begins with the header ends there at the latest. *)
LinksAscend ==
  \A a \in Nodes :
    /\ next[a] \in Nodes \cup {NULL}
    /\ a < NextOr(a) /\ EndOf(a) <= NextOr(a)
    /\ \A b \in Nodes : a < b => NextOr(a) <= b

(* Every block is a whole number of headers long and, once anything was
   allocated, not empty. *)
BlocksAreWhole ==
  /\ \A a \in Nodes : size[a] % SIZEOF = 0
  /\ held = {} => size[OsAllocatorStart] = 0
  /\ held # {} => \A a \in Nodes : size[a] >= 2 * SIZEOF

(* The start of the heap is the lowest header and is held first and last. *)
HeapInv ==
  /\ OsAllocatorStart \in Slots \ {NULL}
  /\ next \in [Slots -> Words] /\ size \in [Slots -> Words]
  /\ held \subseteq {a + SIZEOF : a \in {b \in Slots : OsAllocatorStart <= b}}
  /\ held # {} => OsAllocatorStart + SIZEOF \in held
  /\ BlocksAreWhole
  /\ LinksAscend

(* The heap begins behind the system that was booted last. *)
StartInv == \E loadEnd \in LoadEnds : OsAllocatorStart = Beginning(loadEnd)

RegistersInv ==
  /\ d0 \in Words /\ d2 \in Words
  /\ a0 \in Words /\ a1 \in Words /\ a2 \in Words
  /\ at \in {"program", "findNextSlot", "noMoreSlots", "findSlot", "memAvail"}
  /\ call \in Calls /\ boots \in 0 .. MaxBoots

(* The search for a gap: of the gaps behind the headers seen so far, A2 and
   D2 have the smallest that holds D0, if there is one. *)
Seen(a) == IF at = "noMoreSlots" THEN TRUE ELSE a < a0

SearchInv ==
  at \in {"findNextSlot", "noMoreSlots"} =>
    /\ held # {} /\ call.routine = "MemAlloc"
    /\ call.argument \in Requests /\ d0 = Rounded(call.argument)
    /\ a0 \in Nodes
    /\ a2 = NULL => d2 = Word - 1
    /\ a2 # NULL => a2 \in Nodes /\ d2 = GapAt(a2) /\ d0 <= d2
    /\ \A a \in Nodes : Seen(a) /\ d0 <= GapAt(a) => a2 # NULL /\ d2 <= GapAt(a)

(* The search for a block: A1 is the header behind A2. *)
FreeInv ==
  at = "findSlot" =>
    /\ call.routine = "MemFree"
    /\ a1 \in Nodes \cup {NULL} /\ a2 \in Nodes \cup {NULL}
    /\ a2 = NULL => a1 = OsAllocatorStart
    /\ a2 # NULL => a1 = next[a2]

(* The sum of the gaps counts the free bytes below A0. *)
FreeBelow(a) ==
  {x \in OsAllocatorStart .. a - 1 : \A b \in Nodes : ~(b <= x /\ x < EndOf(b))}

SumInv ==
  at = "memAvail" => call.routine = "MemAvail" /\ a0 \in Nodes /\ d0 = Cardinality(FreeBelow(a0))

(* What a call has answered. *)
AnswerInv ==
  at = "program" =>
    /\ call.routine = "MemAlloc" /\ d0 # 0 =>
         d0 \in held /\ size[Header(d0)] = Rounded(call.argument)
         /\ call.argument \in FirstRequests \cup Requests
    /\ call.routine = "MemAlloc" /\ d0 = 0 =>
         held # {} /\ call.argument \in Requests /\ \A a \in Nodes : GapAt(a) < Rounded(call.argument)
    /\ call.routine = "MemAvail" => d0 = Cardinality(FreeBelow(Ceiling))

OrderInv ==
  /\ HeapInv /\ StartInv /\ RegistersInv /\ SearchInv
  /\ FreeInv /\ SumInv /\ AnswerInv

(* When the first block ends beyond the RAM it stays the only one: it cannot
   be given back, and no further allocation is followed. *)
BeyondInv ==
  /\ OsAllocatorStart \in Slots \ {NULL}
  /\ next \in [Slots -> Words] /\ size \in [Slots -> Words]
  /\ next[OsAllocatorStart] = NULL /\ Ceiling < EndOf(OsAllocatorStart)
  /\ held = {OsAllocatorStart + SIZEOF}
  /\ StartInv /\ RegistersInv
  /\ at \in {"program", "findSlot", "memAvail"}
  /\ at = "findSlot" =>
       /\ call.routine = "MemFree"
       /\ \/ a1 = OsAllocatorStart /\ a2 = NULL
          \/ a1 = NULL /\ a2 = OsAllocatorStart
  /\ at = "memAvail" => call.routine = "MemAvail" /\ a0 = OsAllocatorStart
  /\ at = "program" /\ call.routine = "MemAlloc" =>
       /\ d0 = OsAllocatorStart + SIZEOF /\ call.argument \in FirstRequests
       /\ size[OsAllocatorStart] = Rounded(call.argument)

ManagerInv == OrderInv \/ BeyondInv

-----------------------------------------------------------------------------
(* Rounding, when the sum does not wrap. *)
LEMMA PaddedIs ==
  ASSUME NEW n \in Nat, NEW extra \in Nat, n + extra < Word
  PROVE  /\ Padded(n, extra) \in Nat /\ Padded(n, extra) % SIZEOF = 0
         /\ Padded(n, extra) <= n + extra /\ n + extra < Padded(n, extra) + SIZEOF
<1> USE MemManAssumption
<1> DEFINE sum == n + extra
<1>1. sum \in Nat /\ sum % Word = sum
  OBVIOUS
<1>2. /\ sum \div SIZEOF \in Nat /\ sum % SIZEOF \in 0 .. SIZEOF - 1
      /\ sum = SIZEOF * (sum \div SIZEOF) + (sum % SIZEOF)
  <2> HIDE DEF sum
  <2>1. QED
    BY <1>1, DivMod
<1>3. Padded(n, extra) = sum - (sum % SIZEOF)
  BY <1>1 DEF Padded
<1> HIDE DEF sum
<1>4. PICK k \in Nat : k = sum \div SIZEOF
  BY <1>2
<1>5. PICK r \in 0 .. SIZEOF - 1 : r = sum % SIZEOF
  BY <1>2
<1>6. Padded(n, extra) = SIZEOF * k /\ Padded(n, extra) = sum - r
  BY <1>1, <1>2, <1>3, <1>4, <1>5
<1>7. (SIZEOF * k) % SIZEOF = 0
  BY TimesIsWhole
<1>8. Padded(n, extra) \in Nat
  BY <1>6
<1>9. QED
  BY <1>1, <1>5, <1>6, <1>7, <1>8 DEF sum

-----------------------------------------------------------------------------
(***************************************************************************)
(* What the manager takes for granted: the rounded size of a request does  *)
(* not wrap.  That the block first asked for ends below the ceiling is no  *)
(* assumption: FirstFits says it of one step, and the proofs follow the    *)
(* heap on both sides of it.                                               *)
(***************************************************************************)
NoWrap == \A n \in FirstRequests \cup Requests : n + 2 * SIZEOF - 1 < Word

FirstFits ==
  \A n \in FirstRequests :
    MemAllocInitial(n) => OsAllocatorStart + Rounded(n) <= Ceiling

(* A rounded request is a whole number of headers, and holds the request
   besides a header. *)
LEMMA RoundedIs ==
  ASSUME NoWrap, NEW n \in FirstRequests \cup Requests
  PROVE  /\ Rounded(n) \in Nat /\ Rounded(n) % SIZEOF = 0 /\ Rounded(n) < Word
         /\ 2 * SIZEOF <= Rounded(n) /\ n + SIZEOF <= Rounded(n)
         /\ n \in Nat
<1> USE MemManAssumption
<1> DEFINE extra == 2 * SIZEOF - 1
<1>1. n \in Nat /\ 1 <= n /\ extra \in Nat /\ n + extra < Word
  BY DEF NoWrap
<1>2. /\ Padded(n, extra) \in Nat /\ Padded(n, extra) % SIZEOF = 0
      /\ Padded(n, extra) <= n + extra /\ n + extra < Padded(n, extra) + SIZEOF
  <2> HIDE DEF extra
  <2>1. QED
    BY <1>1, PaddedIs
<1>3. Rounded(n) = Padded(n, extra)
  BY DEF Rounded
<1>4. PICK r \in Nat : r = Rounded(n)
  BY <1>2, <1>3
<1>5. r % SIZEOF = 0 /\ r <= n + extra /\ n + extra < r + SIZEOF
  BY <1>2, <1>3, <1>4
<1>6. PICK k \in Nat : r = SIZEOF * k
  BY <1>5, WholeIsTimes
<1>7. k >= 2
  <2>1. r > SIZEOF
    BY <1>1, <1>5
  <2>2. k # 0 /\ k # 1
    BY <1>6, <2>1
  <2>3. QED
    BY <2>2
<1>8. SIZEOF * k >= SIZEOF * 2
  BY <1>7
<1>9. QED
  BY <1>1, <1>4, <1>5, <1>6, <1>8

(* A heap begins at a header's place, below the ceiling. *)
LEMMA BeginningIs ==
  ASSUME NEW loadEnd \in LoadEnds
  PROVE  /\ Beginning(loadEnd) \in Slots \ {NULL}
         /\ Beginning(loadEnd) + SIZEOF <= Ceiling
<1> USE MemManAssumption
<1> DEFINE extra == 2 * SIZEOF - 1
           p == Padded(loadEnd, extra)
<1>1. loadEnd \in Nat /\ 1 <= loadEnd /\ loadEnd + 2 * SIZEOF <= Ceiling
      /\ extra \in Nat /\ loadEnd + extra < Word
  OBVIOUS
<1>2. /\ p \in Nat /\ p % SIZEOF = 0
      /\ p <= loadEnd + extra /\ loadEnd + extra < p + SIZEOF
  <2> HIDE DEF extra
  <2>1. QED
    BY <1>1, PaddedIs
<1>3. Beginning(loadEnd) = p - SIZEOF
  BY DEF Beginning
<1> HIDE DEF p
<1>4. SIZEOF <= p /\ SIZEOF % SIZEOF = 0
  <2>1. SIZEOF = SIZEOF * 1
    OBVIOUS
  <2>2. (SIZEOF * 1) % SIZEOF = 0
    BY TimesIsWhole
  <2>3. QED
    BY <1>1, <1>2, <2>1, <2>2
<1>5. (p - SIZEOF) % SIZEOF = 0
  BY <1>2, <1>4, WholeMinus
<1>6. p - SIZEOF \in 1 .. Ceiling - 1 /\ p <= Ceiling
  BY <1>1, <1>2
<1>7. PICK b \in 1 .. Ceiling - 1 : b = p - SIZEOF
  BY <1>6
<1>8. b \in Slots \ {NULL}
  BY <1>5, <1>7 DEF Slots, NULL
<1>9. QED
  BY <1>2, <1>3, <1>6, <1>7, <1>8

-----------------------------------------------------------------------------
(* What the provers need to know of a header: its place, its size and the
   gap behind it. *)
LEMMA NodeFacts ==
  ASSUME HeapInv
  PROVE  /\ OsAllocatorStart \in Nodes
         /\ Nodes \subseteq Slots \ {NULL}
         /\ \A a \in Nodes :
              /\ a \in Nat /\ 0 < a /\ a < Ceiling /\ OsAllocatorStart <= a
              /\ a % SIZEOF = 0
              /\ size[a] \in Nat /\ next[a] \in Words
              /\ NextOr(a) \in Nat /\ NextOr(a) <= Ceiling
              /\ EndOf(a) \in Nat /\ GapAt(a) \in Nat /\ GapAt(a) < Ceiling
<1> USE MemManAssumption
<1>1. OsAllocatorStart \in Slots \ {NULL} /\ OsAllocatorStart \in Nat /\ 0 < OsAllocatorStart
  BY DEF HeapInv, Slots, NULL
<1>2. OsAllocatorStart \in Nodes
  BY DEF Nodes
<1>3. ASSUME NEW a \in Nodes
      PROVE  a \in Slots \ {NULL} /\ OsAllocatorStart <= a
  <2>1. CASE a = OsAllocatorStart
    BY <1>1, <2>1
  <2>2. CASE \E p \in held : a = Header(p)
    <3>1. PICK p \in held : a = Header(p)
      BY <2>2
    <3>2. PICK b \in Slots : p = b + SIZEOF /\ OsAllocatorStart <= b
      BY <3>1 DEF HeapInv
    <3>3. a = b
      BY <3>1, <3>2 DEF Header, Slots
    <3>4. QED
      BY <1>1, <3>2, <3>3 DEF Slots, NULL
  <2>3. QED
    BY <2>1, <2>2 DEF Nodes
<1>4. ASSUME NEW a \in Nodes
      PROVE  /\ a \in Nat /\ 0 < a /\ a < Ceiling /\ a % SIZEOF = 0
             /\ size[a] \in Nat /\ next[a] \in Words
    BY <1>3 DEF HeapInv, Slots, Words, NULL
<1>5. ASSUME NEW a \in Nodes
      PROVE  NextOr(a) \in Nat /\ NextOr(a) <= Ceiling
  <2>1. CASE next[a] = NULL
    BY <2>1 DEF NextOr
  <2>2. CASE next[a] # NULL
    <3>1. next[a] \in Nodes
      BY <2>2 DEF HeapInv, LinksAscend
    <3>2. next[a] \in Nat /\ next[a] < Ceiling
      BY <3>1, <1>4
    <3>3. QED
      BY <2>2, <3>2 DEF NextOr
  <2>3. QED
    BY <2>1, <2>2
<1>6. ASSUME NEW a \in Nodes
      PROVE  EndOf(a) \in Nat /\ GapAt(a) \in Nat /\ GapAt(a) < Ceiling
  <2>1. EndOf(a) = a + size[a] /\ EndOf(a) <= NextOr(a) /\ GapAt(a) = NextOr(a) - EndOf(a)
    BY DEF HeapInv, LinksAscend, EndOf, GapAt
  <2>2. QED
    BY <1>4, <1>5, <2>1
<1>7. QED
  BY <1>2, <1>3, <1>4, <1>5, <1>6

-----------------------------------------------------------------------------
(***************************************************************************)
(* The steps that change the heap.                                         *)
(***************************************************************************)
LEMMA BootHeap ==
  ASSUME next \in [Slots -> Words], size \in [Slots -> Words],
         NEW loadEnd \in LoadEnds, MemInit(loadEnd)
  PROVE  HeapInv' /\ Nodes' = {OsAllocatorStart'}
<1> USE MemManAssumption
<1>1. PICK s \in Slots \ {NULL} : OsAllocatorStart' = s /\ s = Beginning(loadEnd)
  BY BeginningIs DEF MemInit
<1>2. /\ next' = [next EXCEPT ![s] = NULL] /\ size' = [size EXCEPT ![s] = 0]
      /\ held' = {}
  BY <1>1 DEF MemInit, MemClearEntry
<1>3. Nodes' = {s}
  BY <1>1, <1>2 DEF Nodes
<1>4. next' \in [Slots -> Words] /\ size' \in [Slots -> Words]
  BY <1>2 DEF Words, NULL
<1>5. next'[s] = NULL /\ size'[s] = 0 /\ s \in Nat /\ s < Ceiling
  BY <1>1, <1>2 DEF Slots
<1>6. NextOr(s)' = Ceiling /\ EndOf(s)' = s
  BY <1>5 DEF NextOr, EndOf
<1>7. LinksAscend'
  BY <1>3, <1>5, <1>6 DEF LinksAscend
<1>8. BlocksAreWhole'
  <2>1. 0 % SIZEOF = 0
    <3>1. SIZEOF * 0 = 0 /\ (SIZEOF * 0) % SIZEOF = 0
      BY TimesIsWhole
    <3>2. QED
      BY <3>1
  <2>2. QED
    BY <1>1, <1>2, <1>3, <1>5, <2>1 DEF BlocksAreWhole
<1>9. QED
  BY <1>1, <1>2, <1>3, <1>4, <1>7, <1>8 DEF HeapInv

(* Nobody holds anything when the first block is asked for. *)
LEMMA NothingHeld ==
  ASSUME HeapInv, size[OsAllocatorStart] = 0
  PROVE  held = {} /\ Nodes = {OsAllocatorStart} /\ next[OsAllocatorStart] = NULL
<1> USE MemManAssumption
<1>1. PICK s \in Slots \ {NULL} : OsAllocatorStart = s
  BY DEF HeapInv
<1>2. held = {}
  <2>1. SUFFICES ASSUME held # {} PROVE FALSE
    OBVIOUS
  <2>2. size[s] >= 2 * SIZEOF
    BY <1>1, <2>1, NodeFacts DEF HeapInv, BlocksAreWhole
  <2>3. QED
    BY <1>1, <2>2
<1>3. Nodes = {s}
  BY <1>1, <1>2 DEF Nodes
<1>4. s \in Nat
  BY <1>1 DEF Slots
<1>5. next[s] = NULL
  BY <1>3, <1>4 DEF HeapInv, LinksAscend, NextOr
<1>6. QED
  BY <1>1, <1>2, <1>3, <1>5

(* The first block takes the start of the heap, which has no gap to look for. *)
LEMMA FirstHeap ==
  ASSUME HeapInv, NoWrap, NEW n \in FirstRequests, MemAllocInitial(n),
         OsAllocatorStart + Rounded(n) <= Ceiling
  PROVE  /\ HeapInv' /\ Nodes = {OsAllocatorStart} /\ Nodes' = Nodes
         /\ held = {} /\ held' = {OsAllocatorStart + SIZEOF}
         /\ size'[OsAllocatorStart] = Rounded(n)
<1> USE MemManAssumption
<1>1. PICK s \in Slots \ {NULL} : OsAllocatorStart = s
  BY DEF HeapInv
<1>2. PICK r \in Words : r = Rounded(n)
  BY RoundedIs DEF Words
<1>3. r % SIZEOF = 0 /\ 2 * SIZEOF <= r /\ s + r <= Ceiling /\ r \in Nat
  BY <1>1, <1>2, RoundedIs
<1>4. /\ OsAllocatorStart' = s /\ next' = next
      /\ size' = [size EXCEPT ![s] = r] /\ held' = held \cup {s + SIZEOF}
  BY <1>1, <1>2 DEF MemAllocInitial, StoreEntry
<1>5. held = {} /\ next[s] = NULL
  BY <1>1, NothingHeld DEF MemAllocInitial
<1>6. Nodes = {s}
  BY <1>1, <1>5 DEF Nodes
<1>7. s \in Nat /\ s < Ceiling
  BY <1>1 DEF Slots
<1>8. Header(s + SIZEOF) = s
  BY <1>7 DEF Header
<1>9. Nodes' = {s} /\ held' = {s + SIZEOF}
  BY <1>4, <1>5, <1>8 DEF Nodes
<1>10. size' \in [Slots -> Words] /\ size'[s] = r
  BY <1>1, <1>2, <1>4 DEF HeapInv
<1>11. NextOr(s)' = Ceiling /\ EndOf(s)' = s + r
  BY <1>4, <1>5, <1>10 DEF NextOr, EndOf
<1>12. LinksAscend'
  BY <1>3, <1>4, <1>5, <1>7, <1>9, <1>11 DEF LinksAscend
<1>13. BlocksAreWhole'
  BY <1>3, <1>9, <1>10 DEF BlocksAreWhole
<1>14. held' \subseteq {a + SIZEOF : a \in {b \in Slots : OsAllocatorStart' <= b}}
  BY <1>1, <1>4, <1>7, <1>9
<1>15. HeapInv'
  BY <1>1, <1>4, <1>9, <1>10, <1>12, <1>13, <1>14 DEF HeapInv
<1>16. QED
  BY <1>1, <1>2, <1>5, <1>6, <1>9, <1>10, <1>15

(* Where a new block goes: behind the block of the header it is linked to,
   in front of the next one. *)
LEMMA NewEntryFacts ==
  ASSUME HeapInv, a2 \in Nodes, NEW r \in Nat, r > 0, r <= GapAt(a2), held # {}
  PROVE  /\ NewEntry \in Slots \ {NULL} /\ NewEntry \notin Nodes
         /\ a2 < NewEntry /\ NewEntry + r <= NextOr(a2)
         /\ NewEntry = EndOf(a2)
<1> USE MemManAssumption
<1>1. PICK b \in Nodes : b = a2
  OBVIOUS
<1>2. /\ b \in Nat /\ b % SIZEOF = 0 /\ size[b] \in Nat
      /\ NextOr(b) \in Nat /\ NextOr(b) <= Ceiling
  BY NodeFacts
<1>3. size[b] % SIZEOF = 0 /\ 2 * SIZEOF <= size[b]
  BY DEF HeapInv, BlocksAreWhole
<1>4. PICK m \in Nat : m = size[b]
  BY <1>2
<1>5. PICK e \in Nat : e = b + m
  BY <1>2
<1>6. e % SIZEOF = 0
  BY <1>2, <1>3, <1>4, <1>5, WholePlus
<1>7. NewEntry = e /\ EndOf(a2) = e
  BY <1>1, <1>4, <1>5 DEF NewEntry, EndOf
<1>8. e + r <= NextOr(b)
  BY <1>1, <1>2, <1>7 DEF GapAt
<1>9. b < e /\ e > 0 /\ e < Ceiling
  BY <1>2, <1>3, <1>4, <1>5, <1>8
<1>10. e \in Slots \ {NULL}
  BY <1>6, <1>9 DEF Slots, NULL
<1>11. e \notin Nodes
  <2>1. SUFFICES ASSUME e \in Nodes PROVE FALSE
    OBVIOUS
  <2>2. NextOr(b) <= e
    BY <1>9, <2>1 DEF HeapInv, LinksAscend
  <2>3. QED
    BY <1>2, <1>8, <2>2
<1>12. QED
  BY <1>1, <1>7, <1>8, <1>9, <1>10, <1>11

(* A block that is linked into a gap leaves the list in order. *)
LEMMA GrantHeap ==
  ASSUME HeapInv, held # {}, a2 \in Nodes, d0 \in Words, d0 % SIZEOF = 0,
         2 * SIZEOF <= d0, d0 <= GapAt(a2), SlotFound
  PROVE  /\ HeapInv' /\ Nodes' = Nodes \cup {NewEntry} /\ held' # {}
         /\ \A a \in Nodes : size'[a] = size[a]
         /\ size'[NewEntry] = d0
<1> USE MemManAssumption
<1>1. PICK r \in Nat : r = d0 /\ r \in Words
  BY DEF Words
<1>2. r > 0 /\ r <= GapAt(a2) /\ r % SIZEOF = 0 /\ 2 * SIZEOF <= r
  BY <1>1
<1>3. PICK e \in Slots \ {NULL} : e = NewEntry
  BY <1>2, NewEntryFacts
<1>4. e \notin Nodes /\ a2 < e /\ e + r <= NextOr(a2) /\ e = EndOf(a2) /\ e \in Nat
  BY <1>2, <1>3, NewEntryFacts DEF Slots
<1>5. PICK b \in Nodes : b = a2
  OBVIOUS
<1>6. /\ OsAllocatorStart' = OsAllocatorStart
      /\ next' = [next EXCEPT ![e] = next[b], ![b] = e]
      /\ size' = [size EXCEPT ![e] = r] /\ held' = held \cup {e + SIZEOF}
  BY <1>1, <1>3, <1>5 DEF SlotFound, Link, StoreEntry
<1>7. Nodes' = Nodes \cup {e}
  <2>1. Header(e + SIZEOF) = e
    BY <1>4 DEF Header
  <2>2. QED
    BY <1>6, <2>1 DEF Nodes
<1>8. \A a \in Nodes : /\ a \in Slots /\ a \in Nat /\ size[a] \in Nat
                       /\ NextOr(a) \in Nat /\ NextOr(a) <= Ceiling /\ OsAllocatorStart <= a
                       /\ next[a] \in Words
  BY NodeFacts
<1>9. next' \in [Slots -> Words] /\ size' \in [Slots -> Words]
  BY <1>1, <1>3, <1>5, <1>6, <1>8 DEF HeapInv, Slots, Words
<1>10. /\ \A a \in Nodes : size'[a] = size[a] /\ next'[a] = IF a = b THEN e ELSE next[a]
       /\ size'[e] = r /\ next'[e] = next[b]
  BY <1>3, <1>4, <1>6, <1>8 DEF HeapInv
<1>11. /\ \A a \in Nodes : EndOf(a)' = EndOf(a)
       /\ \A a \in Nodes : NextOr(a)' = IF a = b THEN e ELSE NextOr(a)
       /\ EndOf(e)' = e + r /\ NextOr(e)' = NextOr(b)
  BY <1>3, <1>10 DEF EndOf, NextOr
<1>12. LinksAscend'
  <2>1. ASSUME NEW a \in Nodes
        PROVE  /\ next'[a] \in Nodes' \cup {NULL}
               /\ a < NextOr(a)' /\ EndOf(a)' <= NextOr(a)'
    BY <1>4, <1>5, <1>7, <1>10, <1>11 DEF HeapInv, LinksAscend
  <2>2. /\ next'[e] \in Nodes' \cup {NULL}
        /\ e < NextOr(e)' /\ EndOf(e)' <= NextOr(e)'
    <3>1. e < NextOr(b) /\ e + r <= NextOr(b)
      BY <1>2, <1>4, <1>5, <1>8
    <3>2. next[b] \in Nodes \cup {NULL}
      BY DEF HeapInv, LinksAscend
    <3>3. QED
      BY <1>7, <1>10, <1>11, <3>1, <3>2
  <2>3. ASSUME NEW a \in Nodes, NEW c \in Nodes, a < c
        PROVE  NextOr(a)' <= c
    <3>1. NextOr(a) <= c
      BY <2>3 DEF HeapInv, LinksAscend
    <3>2. CASE a = b
      BY <1>2, <1>4, <1>5, <1>8, <1>11, <3>1, <3>2
    <3>3. CASE a # b
      BY <1>11, <3>1, <3>3
    <3>4. QED
      BY <3>2, <3>3
  <2>4. ASSUME NEW a \in Nodes, a < e
        PROVE  NextOr(a)' <= e
    <3>1. CASE a = b
      BY <1>4, <1>11, <3>1
    <3>2. CASE a < b
      <4>1. NextOr(a) <= b
        BY <3>2 DEF HeapInv, LinksAscend
      <4>2. QED
        BY <1>4, <1>5, <1>8, <1>11, <3>2, <4>1
    <3>3. CASE b < a
      <4>1. NextOr(b) <= a
        BY <3>3 DEF HeapInv, LinksAscend
      <4>2. QED
        BY <1>2, <1>4, <1>5, <1>8, <2>4, <4>1
    <3>4. QED
      BY <1>8, <3>1, <3>2, <3>3
  <2>5. ASSUME NEW c \in Nodes, e < c
        PROVE  NextOr(e)' <= c
    <3>1. b < c
      BY <1>4, <1>5, <1>8, <2>5
    <3>2. NextOr(b) <= c
      BY <3>1 DEF HeapInv, LinksAscend
    <3>3. QED
      BY <1>11, <3>2
  <2>6. QED
    BY <1>4, <1>7, <2>1, <2>2, <2>3, <2>4, <2>5 DEF LinksAscend
<1>13. BlocksAreWhole'
  BY <1>2, <1>6, <1>7, <1>10 DEF HeapInv, BlocksAreWhole
<1>14. held' \subseteq {a + SIZEOF : a \in {x \in Slots : OsAllocatorStart' <= x}}
  <2>1. OsAllocatorStart <= e
    <3>1. OsAllocatorStart \in Nat /\ OsAllocatorStart <= b
      BY <1>8, NodeFacts
    <3>2. QED
      BY <1>4, <1>5, <1>8, <3>1
  <2>2. QED
    BY <1>3, <1>6, <2>1 DEF HeapInv
<1>15. OsAllocatorStart' + SIZEOF \in held'
  BY <1>6 DEF HeapInv
<1>16. HeapInv'
  BY <1>3, <1>6, <1>9, <1>12, <1>13, <1>14, <1>15 DEF HeapInv
<1>17. QED
  BY <1>1, <1>3, <1>6, <1>7, <1>10, <1>16

(* So does a block that is taken out. *)
LEMMA ReleaseHeap ==
  ASSUME HeapInv, a1 \in Nodes, a2 \in Nodes, a1 = next[a2], a0 = a1, FoundSlot
  PROVE  /\ HeapInv' /\ Nodes' = Nodes \ {a1} /\ a1 # OsAllocatorStart
         /\ held' = held \ {a1 + SIZEOF} /\ held # {} /\ held' # {}
         /\ \A a \in Nodes' : size'[a] = size[a]
<1> USE MemManAssumption
<1>1. PICK e \in Nodes : e = a1
  OBVIOUS
<1>2. PICK b \in Nodes : b = a2
  OBVIOUS
<1>3. \A a \in Nodes : /\ a \in Slots \ {NULL} /\ a \in Nat /\ size[a] \in Nat
                       /\ NextOr(a) \in Nat /\ NextOr(a) <= Ceiling /\ OsAllocatorStart <= a
                       /\ next[a] \in Words
  BY NodeFacts
<1>4. next[b] = e /\ NextOr(b) = e /\ b < e
  <2>1. next[b] = e
    BY <1>1, <1>2
  <2>2. NextOr(b) = e
    BY <1>3, <2>1 DEF NextOr
  <2>3. QED
    BY <2>1, <2>2 DEF HeapInv, LinksAscend
<1>5. OsAllocatorStart \in Nat /\ e # OsAllocatorStart
  BY <1>3, <1>4, NodeFacts
<1>6. /\ OsAllocatorStart' = OsAllocatorStart
      /\ next' = [next EXCEPT ![b] = next[e], ![e] = NULL]
      /\ size' = [size EXCEPT ![e] = 0] /\ held' = held \ {e + SIZEOF}
  BY <1>1, <1>2 DEF FoundSlot
<1>7. Nodes' = Nodes \ {e}
  <2>1. \A p \in held : p \in Int
    BY DEF HeapInv, Slots
  <2>2. \A p \in held : Header(p) = e <=> p = e + SIZEOF
    BY <1>3, <2>1 DEF Header
  <2>3. QED
    BY <1>5, <1>6, <2>2 DEF Nodes
<1>8. next' \in [Slots -> Words] /\ size' \in [Slots -> Words]
  BY <1>3, <1>6 DEF HeapInv, Words, NULL
<1>9. \A a \in Nodes : a # e => size'[a] = size[a] /\ next'[a] = IF a = b THEN next[e] ELSE next[a]
  BY <1>3, <1>4, <1>6 DEF HeapInv
<1>10. \A a \in Nodes : a # e => EndOf(a)' = EndOf(a) /\ NextOr(a)' = IF a = b THEN NextOr(e) ELSE NextOr(a)
  BY <1>9 DEF EndOf, NextOr
<1>11. LinksAscend'
  <2>1. next[e] \in Nodes \cup {NULL} /\ next[e] # e
    BY <1>3 DEF HeapInv, LinksAscend, NextOr
  <2>2. e < NextOr(e)
    BY DEF HeapInv, LinksAscend
  <2>3. ASSUME NEW a \in Nodes, a # e
        PROVE  /\ next'[a] \in Nodes' \cup {NULL}
               /\ a < NextOr(a)' /\ EndOf(a)' <= NextOr(a)'
    <3>1. /\ next[a] \in Nodes \cup {NULL} /\ a < NextOr(a) /\ EndOf(a) <= NextOr(a)
          /\ EndOf(a) \in Nat
      BY NodeFacts DEF HeapInv, LinksAscend
    <3>2. CASE a = b
      BY <1>3, <1>4, <1>7, <1>9, <1>10, <2>1, <2>2, <2>3, <3>1, <3>2
    <3>3. CASE a # b
      <4>1. next[a] # e
        <5>1. SUFFICES ASSUME next[a] = e PROVE FALSE
          OBVIOUS
        <5>2. NextOr(a) = e
          BY <1>3, <5>1 DEF NextOr
        <5>3. CASE a < b
          <6>1. NextOr(a) <= b
            BY <5>3 DEF HeapInv, LinksAscend
          <6>2. QED
            BY <1>3, <1>4, <5>2, <6>1
        <5>4. CASE b < a
          <6>1. NextOr(b) <= a
            BY <5>4 DEF HeapInv, LinksAscend
          <6>2. QED
            BY <1>3, <1>4, <3>1, <5>2, <6>1
        <5>5. QED
          BY <1>3, <3>3, <5>3, <5>4
      <4>2. QED
        BY <1>7, <1>9, <1>10, <2>3, <3>1, <3>3, <4>1
    <3>4. QED
      BY <3>2, <3>3
  <2>4. ASSUME NEW a \in Nodes, a # e, NEW c \in Nodes, c # e, a < c
        PROVE  NextOr(a)' <= c
    <3>1. NextOr(a) <= c
      BY <2>4 DEF HeapInv, LinksAscend
    <3>2. CASE a = b
      <4>1. e < c
        BY <1>3, <1>4, <2>4, <3>1, <3>2
      <4>2. NextOr(e) <= c
        BY <4>1 DEF HeapInv, LinksAscend
      <4>3. QED
        BY <1>10, <2>4, <3>2, <4>2
    <3>3. CASE a # b
      BY <1>10, <2>4, <3>1, <3>3
    <3>4. QED
      BY <3>2, <3>3
  <2>5. QED
    BY <1>7, <2>3, <2>4 DEF LinksAscend
<1>12. held # {} /\ held' # {} /\ OsAllocatorStart + SIZEOF \in held'
  <2>1. held # {}
    BY <1>5 DEF Nodes
  <2>2. OsAllocatorStart + SIZEOF # e + SIZEOF
    BY <1>3, <1>5
  <2>3. QED
    BY <1>6, <2>1, <2>2 DEF HeapInv
<1>13. BlocksAreWhole'
  BY <1>7, <1>9, <1>12 DEF HeapInv, BlocksAreWhole
<1>14. held' \subseteq {a + SIZEOF : a \in {x \in Slots : OsAllocatorStart' <= x}}
  BY <1>6 DEF HeapInv
<1>15. HeapInv'
  BY <1>6, <1>8, <1>11, <1>12, <1>13, <1>14 DEF HeapInv
<1>16. QED
  BY <1>1, <1>5, <1>6, <1>7, <1>9, <1>12, <1>15

-----------------------------------------------------------------------------
(***************************************************************************)
(* The walks over the list.                                                *)
(***************************************************************************)
SameHeap == UNCHANGED <<OsAllocatorStart, heap, held>>

(* What is said of the heap stays true while the heap stays. *)
LEMMA HeapKept ==
  ASSUME SameHeap
  PROVE  /\ Nodes' = Nodes /\ HeapInv' = HeapInv
         /\ \A a : GapAt(a)' = GapAt(a) /\ NextOr(a)' = NextOr(a) /\ FreeBelow(a)' = FreeBelow(a)
<1>1. OsAllocatorStart' = OsAllocatorStart /\ next' = next /\ size' = size /\ held' = held
  BY DEF SameHeap, heap
<1>2. Nodes' = Nodes
  BY <1>1 DEF Nodes
<1>3. \A a : NextOr(a)' = NextOr(a) /\ EndOf(a)' = EndOf(a)
  BY <1>1 DEF NextOr, EndOf
<1>4. \A a : GapAt(a)' = GapAt(a) /\ FreeBelow(a)' = FreeBelow(a)
  BY <1>1, <1>2, <1>3 DEF GapAt, FreeBelow
<1>5. LinksAscend' = LinksAscend /\ BlocksAreWhole' = BlocksAreWhole
  BY <1>1, <1>2, <1>3 DEF LinksAscend, BlocksAreWhole
<1>6. HeapInv' = HeapInv
  BY <1>1, <1>5 DEF HeapInv
<1>7. QED
  BY <1>2, <1>3, <1>4, <1>6

(* The gap that the code computes modulo the word is the gap. *)
LEMMA GapIs ==
  ASSUME HeapInv, a0 \in Nodes
  PROVE  Gap = GapAt(a0) /\ Gap \in Nat /\ Gap < Ceiling /\ Gap < Word - 1 /\ Gap \in Words
<1> USE MemManAssumption
<1>1. PICK a \in Nodes : a = a0
  OBVIOUS
<1>2. GapAt(a) \in Nat /\ GapAt(a) < Ceiling /\ NextOr(a) \in Nat /\ EndOf(a) \in Nat
      /\ a \in Nat /\ size[a] \in Nat
  BY NodeFacts
<1>3. PICK g \in Nat : g = GapAt(a) /\ g < Ceiling
  BY <1>2
<1>4. NextOr(a) - a - size[a] = g
  BY <1>2, <1>3 DEF GapAt, EndOf
<1>5. g % Word = g /\ g < Word - 1 /\ g \in Words
  BY <1>3 DEF Words
<1>6. Gap = g % Word
  BY <1>1, <1>4 DEF Gap, NextOr
<1>7. QED
  BY <1>1, <1>3, <1>5, <1>6

(* What wraps at the word is a word. *)
LEMMA WordRest ==
  ASSUME NEW x \in Int
  PROVE  Word > 0 => x % Word \in Words
BY MemManAssumption DEF Words

(* Behind a header begins its block, and the bytes from there to the next
   header are free. *)
LEMMA FreeGrows ==
  ASSUME HeapInv, NEW a \in Nodes
  PROVE  /\ IsFiniteSet(FreeBelow(a)) /\ Cardinality(FreeBelow(a)) \in Nat
         /\ Cardinality(FreeBelow(NextOr(a))) = Cardinality(FreeBelow(a)) + GapAt(a)
         /\ Cardinality(FreeBelow(NextOr(a))) <= Ceiling
<1> USE MemManAssumption
<1>1. /\ OsAllocatorStart \in Nodes
      /\ \A b \in Nodes : /\ b \in Nat /\ 0 < b /\ b < Ceiling /\ OsAllocatorStart <= b
                          /\ NextOr(b) \in Nat /\ NextOr(b) <= Ceiling /\ EndOf(b) \in Nat
                          /\ GapAt(b) \in Nat /\ size[b] \in Nat
  BY NodeFacts
<1>2. PICK s \in Nat : s = OsAllocatorStart
  BY <1>1
<1>3. PICK e \in Nat : e = EndOf(a)
  BY <1>1
<1>4. PICK n \in Nat : n = NextOr(a)
  BY <1>1
<1>5. a \in Nat /\ s <= a /\ a <= e /\ e <= n /\ GapAt(a) = n - e /\ n <= Ceiling
  BY <1>1, <1>2, <1>3, <1>4 DEF HeapInv, LinksAscend, EndOf, GapAt
<1>6. FreeBelow(n) = FreeBelow(a) \cup (e .. n - 1)
  <2>1. ASSUME NEW x \in s .. n - 1
        PROVE  (\A b \in Nodes : ~(b <= x /\ x < EndOf(b))) <=>
                  IF x < a THEN \A b \in Nodes : ~(b <= x /\ x < EndOf(b)) ELSE e <= x
    <3>1. CASE x < a
      BY <3>1
    <3>2. CASE a <= x /\ x < e
      BY <1>3, <1>5, <3>2
    <3>3. CASE e <= x
      <4>1. ASSUME NEW b \in Nodes, b <= x, x < EndOf(b) PROVE FALSE
        <5>1. CASE b = a
          BY <1>3, <3>3, <4>1, <5>1
        <5>2. CASE b < a
          <6>1. NextOr(b) <= a /\ EndOf(b) <= NextOr(b)
            BY <5>2 DEF HeapInv, LinksAscend
          <6>2. QED
            BY <1>1, <1>5, <3>3, <4>1, <6>1
        <5>3. CASE a < b
          <6>1. NextOr(a) <= b
            BY <5>3 DEF HeapInv, LinksAscend
          <6>2. QED
            BY <1>1, <1>4, <4>1, <6>1
        <5>4. QED
          BY <1>1, <5>1, <5>2, <5>3
      <4>2. QED
        BY <1>5, <3>3, <4>1
    <3>4. QED
      BY <1>5, <3>1, <3>2, <3>3
  <2>2. ASSUME NEW x
        PROVE  x \in FreeBelow(n) <=> x \in FreeBelow(a) \cup (e .. n - 1)
    BY <1>2, <1>5, <2>1 DEF FreeBelow
  <2>3. QED
    BY <2>2
<1>7. FreeBelow(a) \in SUBSET (s .. a - 1) /\ FreeBelow(n) \in SUBSET (s .. n - 1)
  BY <1>2 DEF FreeBelow
<1>8. /\ IsFiniteSet(s .. a - 1) /\ IsFiniteSet(s .. n - 1) /\ IsFiniteSet(e .. n - 1)
      /\ Cardinality(s .. n - 1) <= Ceiling /\ Cardinality(e .. n - 1) = n - e
      /\ Cardinality(s .. n - 1) \in Nat
  <2>1. /\ IsFiniteSet(s .. n - 1)
        /\ Cardinality(s .. n - 1) = IF s > n - 1 THEN 0 ELSE n - 1 - s + 1
    BY FS_Interval
  <2>2. /\ IsFiniteSet(e .. n - 1)
        /\ Cardinality(e .. n - 1) = IF e > n - 1 THEN 0 ELSE n - 1 - e + 1
    BY FS_Interval
  <2>3. IsFiniteSet(s .. a - 1)
    BY <1>5, FS_Interval
  <2>4. QED
    BY <1>5, <2>1, <2>2, <2>3
<1>9. /\ IsFiniteSet(FreeBelow(a)) /\ IsFiniteSet(FreeBelow(n))
      /\ Cardinality(FreeBelow(n)) <= Cardinality(s .. n - 1)
  BY <1>7, <1>8, FS_Subset
<1>10. Cardinality(FreeBelow(a)) \in Nat /\ Cardinality(FreeBelow(n)) \in Nat
  BY <1>9, FS_CardinalityType
<1>11. Cardinality(FreeBelow(n)) = Cardinality(FreeBelow(a)) + (n - e)
  <2>1. FreeBelow(a) \cap (e .. n - 1) = {}
    BY <1>5, <1>7
  <2>2. Cardinality({}) = 0
    BY FS_EmptySet
  <2>3. Cardinality(FreeBelow(a) \cup (e .. n - 1)) =
          Cardinality(FreeBelow(a)) + Cardinality(e .. n - 1) - Cardinality(FreeBelow(a) \cap (e .. n - 1))
    BY <1>8, <1>9, FS_Union
  <2>4. Cardinality(FreeBelow(n)) = Cardinality(FreeBelow(a)) + Cardinality(e .. n - 1) - 0
    BY <1>6, <2>1, <2>2, <2>3
  <2>5. PICK m \in Nat : m = Cardinality(e .. n - 1) /\ m = n - e
    BY <1>5, <1>8
  <2>6. QED
    BY <1>10, <2>4, <2>5
<1>12. QED
  BY <1>4, <1>5, <1>8, <1>9, <1>10, <1>11

-----------------------------------------------------------------------------
(***************************************************************************)
(* The inductive invariant.                                                *)
(***************************************************************************)
LEMMA ManagerStarts ==
  ASSUME Init
  PROVE  OrderInv
<1> USE MemManAssumption
<1>1. PICK loadEnd \in LoadEnds : OsAllocatorStart = Beginning(loadEnd)
  BY DEF Init
<1>2. PICK s \in Slots \ {NULL} : s = OsAllocatorStart /\ s + SIZEOF <= Ceiling
  BY <1>1, BeginningIs
<1>3. s \in Nat /\ s < Ceiling /\ s > 0 /\ SIZEOF < Word /\ 0 \in Words
  BY <1>2 DEF Slots, NULL, Words
<1>4. /\ next = [a \in Slots |-> IF a = s THEN NULL ELSE SIZEOF]
      /\ size = [a \in Slots |-> IF a = s THEN 0 ELSE SIZEOF] /\ held = {}
  BY <1>2 DEF Init, Junk
<1>5. next \in [Slots -> Words] /\ size \in [Slots -> Words]
  BY <1>3, <1>4 DEF Words, NULL
<1>6. next[s] = NULL /\ size[s] = 0 /\ Nodes = {s}
  BY <1>2, <1>4 DEF Nodes
<1>7. NextOr(s) = Ceiling /\ EndOf(s) = s
  BY <1>3, <1>6 DEF NextOr, EndOf
<1>8. LinksAscend
  BY <1>3, <1>6, <1>7 DEF LinksAscend
<1>9. BlocksAreWhole
  <2>1. SIZEOF * 0 = 0 /\ (SIZEOF * 0) % SIZEOF = 0
    BY TimesIsWhole
  <2>2. QED
    BY <1>2, <1>4, <1>6, <2>1 DEF BlocksAreWhole
<1>10. HeapInv
  BY <1>2, <1>4, <1>5, <1>8, <1>9 DEF HeapInv
<1>11. StartInv
  BY <1>1 DEF StartInv
<1>12. RegistersInv
  BY <1>3 DEF Init, RegistersInv, Calls, NoCall
<1>13. SearchInv /\ FreeInv /\ SumInv /\ AnswerInv
  BY DEF Init, SearchInv, FreeInv, SumInv, AnswerInv, NoCall
<1>14. QED
  BY <1>10, <1>11, <1>12, <1>13 DEF OrderInv

(* The steps that leave the heap alone. *)
LEMMA HeapStays ==
  ASSUME ExamineSlot \/ NotEnoughMemory \/ NotFound \/ FindSlot \/ AddGap \/ MemAvail
           \/ (\E n \in Requests : MemAlloc(n)) \/ (\E p \in held \cup WrongPointers : MemFree(p))
           \/ UNCHANGED vars
  PROVE  SameHeap /\ boots' = boots
BY DEF ExamineSlot, NotEnoughMemory, NotFound, FindSlot, AddGap, MemAvail, MemAlloc, MemFree,
       Return, SameHeap, heap, vars

(* Only booting moves the start of the heap. *)
LEMMA StartStep ==
  ASSUME StartInv, [Next]_vars
  PROVE  StartInv'
<1>1. CASE \E loadEnd \in LoadEnds : MemInit(loadEnd)
  BY <1>1 DEF MemInit, StartInv
<1>2. CASE \E n \in FirstRequests : MemAllocInitial(n)
  BY <1>2 DEF MemAllocInitial, StartInv
<1>3. CASE SlotFound
  BY <1>3 DEF SlotFound, StartInv
<1>4. CASE FoundSlot
  BY <1>4 DEF FoundSlot, StartInv
<1>5. CASE SameHeap
  BY <1>5 DEF SameHeap, StartInv
<1>6. QED
  BY <1>1, <1>2, <1>3, <1>4, <1>5, HeapStays DEF Next, Walk

(* A pass of findNextSlot. *)
LEMMA ExamineKeeps ==
  ASSUME HeapInv, RegistersInv, SearchInv, ExamineSlot
  PROVE  SearchInv'
<1> USE MemManAssumption
<1>1. SameHeap
  BY HeapStays
<1>2. /\ Nodes' = Nodes /\ held' = held /\ call' = call /\ d0' = d0
      /\ \A a : GapAt(a)' = GapAt(a)
  BY <1>1, HeapKept DEF SameHeap, ExamineSlot
<1>3. /\ held # {} /\ call.routine = "MemAlloc"
      /\ call.argument \in Requests /\ d0 = Rounded(call.argument)
      /\ a0 \in Nodes
      /\ a2 = NULL => d2 = Word - 1
      /\ a2 # NULL => a2 \in Nodes /\ d2 = GapAt(a2) /\ d0 <= d2
      /\ \A a \in Nodes : a < a0 /\ d0 <= GapAt(a) => a2 # NULL /\ d2 <= GapAt(a)
  BY DEF SearchInv, ExamineSlot, Seen
<1>4. PICK c \in Nodes : c = a0
  BY <1>3
<1>5. PICK g \in Nat : g = Gap /\ g = GapAt(c) /\ g < Word - 1
  BY <1>4, GapIs
<1>6. \A a \in Nodes : a \in Nat /\ GapAt(a) \in Nat /\ a # NULL /\ NextOr(a) \in Nat /\ a < Ceiling
  BY NodeFacts DEF NULL
<1>7. d0 \in Nat /\ d2 \in Nat
  BY DEF RegistersInv, Words
<1>8. /\ d2' = IF g >= d0 /\ g < d2 THEN g ELSE d2
      /\ a2' = IF g >= d0 /\ g < d2 THEN c ELSE a2
  BY <1>4, <1>5 DEF ExamineSlot, Better
<1>9. /\ a2' = NULL => d2' = Word - 1
      /\ a2' # NULL => a2' \in Nodes /\ d2' = GapAt(a2') /\ d0 <= d2'
  BY <1>3, <1>5, <1>6, <1>7, <1>8
<1>10. \A a \in Nodes : a <= c /\ d0 <= GapAt(a) => a2' # NULL /\ d2' <= GapAt(a)
  <2>1. SUFFICES ASSUME NEW a \in Nodes, a <= c, d0 <= GapAt(a)
                 PROVE  a2' # NULL /\ d2' <= GapAt(a)
    OBVIOUS
  <2>2. CASE a = c
    <3>1. CASE a2 = NULL
      BY <1>3, <1>5, <1>6, <1>7, <1>8, <2>1, <2>2, <3>1
    <3>2. CASE a2 # NULL
      BY <1>3, <1>5, <1>6, <1>7, <1>8, <2>1, <2>2, <3>2
    <3>3. QED
      BY <3>1, <3>2
  <2>3. CASE a < c
    <3>1. a2 # NULL /\ d2 <= GapAt(a)
      BY <1>3, <1>4, <2>1, <2>3
    <3>2. QED
      BY <1>5, <1>6, <1>7, <1>8, <3>1
  <2>4. QED
    BY <1>6, <2>1, <2>2, <2>3
<1>11. CASE next[c] = NULL
  <2>1. at' = "noMoreSlots" /\ a0' = c
    BY <1>4, <1>11 DEF ExamineSlot
  <2>2. \A a \in Nodes : a <= c
    <3>1. \A a \in Nodes : c < a => Ceiling <= a
      BY <1>11 DEF HeapInv, LinksAscend, NextOr
    <3>2. QED
      BY <1>6, <3>1
  <2>3. QED
    BY <1>2, <1>3, <1>9, <1>10, <2>1, <2>2 DEF SearchInv
<1>12. CASE next[c] # NULL
  <2>1. at' = "findNextSlot" /\ a0' = next[c]
    BY <1>4, <1>12 DEF ExamineSlot
  <2>2. next[c] \in Nodes /\ \A a \in Nodes : c < a => next[c] <= a
    BY <1>12 DEF HeapInv, LinksAscend, NextOr
  <2>3. \A a \in Nodes : a < next[c] => a <= c
    BY <1>6, <2>2
  <2>4. QED
    BY <1>2, <1>3, <1>9, <1>10, <2>1, <2>2, <2>3 DEF SearchInv, Seen
<1>13. QED
  BY <1>11, <1>12

(* The search for a gap starts with nothing seen, and keeps what it found. *)
LEMMA SearchStep ==
  ASSUME OrderInv, [Next]_vars
  PROVE  SearchInv'
<1> USE MemManAssumption DEF OrderInv
<1>1. CASE ExamineSlot
  BY <1>1, ExamineKeeps
<1>2. CASE \E n \in Requests : MemAlloc(n)
  <2>1. PICK n \in Requests : MemAlloc(n)
    BY <1>2
  <2>2. SameHeap
    BY <1>2, HeapStays
  <2>3. Nodes' = Nodes /\ held' = held /\ OsAllocatorStart' = OsAllocatorStart
    BY <2>2, HeapKept DEF SameHeap
  <2>4. /\ at' = "findNextSlot" /\ call' = [routine |-> "MemAlloc", argument |-> n]
        /\ d0' = Rounded(n) /\ a0' = OsAllocatorStart /\ a2' = NULL /\ d2' = Word - 1
    BY <2>1 DEF MemAlloc
  <2>5. held # {}
    BY <2>1 DEF MemAlloc, HeapInv, BlocksAreWhole
  <2>6. /\ OsAllocatorStart \in Nodes
        /\ \A a \in Nodes : a \in Nat /\ OsAllocatorStart \in Nat /\ OsAllocatorStart <= a
    BY NodeFacts
  <2>7. \A a \in Nodes : ~(a < OsAllocatorStart)
    BY <2>6
  <2>8. QED
    BY <2>3, <2>4, <2>5, <2>6, <2>7 DEF SearchInv, Seen
<1>3. CASE UNCHANGED vars
  <2>1. SameHeap
    BY <1>3, HeapStays
  <2>2. Nodes' = Nodes /\ \A a : GapAt(a)' = GapAt(a)
    BY <2>1, HeapKept
  <2>3. /\ held' = held /\ call' = call /\ d0' = d0 /\ d2' = d2 /\ a0' = a0 /\ a2' = a2
        /\ at' = at
    BY <1>3 DEF vars, registers
  <2>4. QED
    BY <2>2, <2>3 DEF SearchInv, Seen
<1>4. CASE at' \notin {"findNextSlot", "noMoreSlots"}
  BY <1>4 DEF SearchInv
<1>5. CASE \/ NotEnoughMemory \/ SlotFound \/ NotFound \/ FoundSlot \/ AddGap \/ MemAvail \/ FindSlot
           \/ (\E loadEnd \in LoadEnds : MemInit(loadEnd))
           \/ (\E n \in FirstRequests : MemAllocInitial(n))
           \/ (\E p \in held \cup WrongPointers : MemFree(p))
  <2>1. at' \notin {"findNextSlot", "noMoreSlots"}
    BY <1>5 DEF NotEnoughMemory, SlotFound, NotFound, FoundSlot, AddGap, MemAvail, MemInit,
                MemAllocInitial, MemFree, FindSlot, Return, StoreEntry
  <2>2. QED
    BY <1>4, <2>1
<1>6. QED
  BY <1>1, <1>2, <1>3, <1>5 DEF Next, Walk

(* Every step leaves the list in order. *)
LEMMA HeapStep ==
  ASSUME NoWrap, FirstFits, OrderInv, [Next]_vars
  PROVE  HeapInv'
<1> USE DEF OrderInv
<1>1. CASE SameHeap
  BY <1>1, HeapKept
<1>2. CASE \E loadEnd \in LoadEnds : MemInit(loadEnd)
  BY <1>2, BootHeap DEF HeapInv
<1>3. CASE \E n \in FirstRequests : MemAllocInitial(n)
  <2>1. PICK n \in FirstRequests : MemAllocInitial(n)
    BY <1>3
  <2>2. OsAllocatorStart + Rounded(n) <= Ceiling
    BY <2>1 DEF FirstFits
  <2>3. QED
    BY <2>1, <2>2, FirstHeap
<1>4. CASE SlotFound
  <2>1. /\ held # {} /\ call.argument \in Requests /\ d0 = Rounded(call.argument)
        /\ a2 \in Nodes /\ d2 = GapAt(a2) /\ d0 <= d2 /\ d0 \in Words
    BY <1>4 DEF SlotFound, SearchInv, RegistersInv
  <2>2. d0 % SIZEOF = 0 /\ 2 * SIZEOF <= d0
    BY <2>1, RoundedIs
  <2>3. QED
    BY <1>4, <2>1, <2>2, GrantHeap
<1>5. CASE FoundSlot
  <2>1. a1 \in Nodes /\ a2 \in Nodes /\ a1 = next[a2] /\ a0 = a1
    BY <1>5 DEF FoundSlot, FreeInv
  <2>2. QED
    BY <1>5, <2>1, ReleaseHeap
<1>6. QED
  BY <1>1, <1>2, <1>3, <1>4, <1>5, HeapStays DEF Next, Walk

(* The search for a block follows the links. *)
LEMMA FreeStep ==
  ASSUME OrderInv, [Next]_vars
  PROVE  FreeInv'
<1> USE DEF OrderInv
<1>1. CASE \E p \in held \cup WrongPointers : MemFree(p)
  <2>1. SameHeap
    BY <1>1, HeapStays
  <2>2. Nodes' = Nodes /\ OsAllocatorStart' = OsAllocatorStart
    BY <2>1, HeapKept DEF SameHeap
  <2>3. a1' = OsAllocatorStart /\ a2' = NULL /\ call'.routine = "MemFree"
    BY <1>1 DEF MemFree
  <2>4. OsAllocatorStart \in Nodes
    BY DEF Nodes
  <2>5. QED
    BY <2>2, <2>3, <2>4 DEF FreeInv
<1>2. CASE FindSlot
  <2>1. SameHeap
    BY <1>2, HeapStays
  <2>2. Nodes' = Nodes /\ OsAllocatorStart' = OsAllocatorStart /\ next' = next
    BY <2>1, HeapKept DEF SameHeap, heap
  <2>3. a1 \in Nodes /\ a2' = a1 /\ a1' = next[a1] /\ call'.routine = "MemFree"
    BY <1>2 DEF FindSlot, FreeInv
  <2>4. next[a1] \in Nodes \cup {NULL} /\ a1 # NULL
    BY <2>3, NodeFacts DEF HeapInv, LinksAscend, NULL
  <2>5. QED
    BY <2>2, <2>3, <2>4 DEF FreeInv
<1>3. CASE UNCHANGED vars
  <2>1. SameHeap
    BY <1>3, HeapStays
  <2>2. Nodes' = Nodes /\ OsAllocatorStart' = OsAllocatorStart /\ next' = next
    BY <2>1, HeapKept DEF SameHeap, heap
  <2>3. at' = at /\ a1' = a1 /\ a2' = a2 /\ call' = call
    BY <1>3 DEF vars, registers
  <2>4. QED
    BY <2>2, <2>3 DEF FreeInv
<1>4. CASE \/ NotEnoughMemory \/ SlotFound \/ NotFound \/ FoundSlot \/ AddGap \/ MemAvail \/ ExamineSlot
           \/ (\E loadEnd \in LoadEnds : MemInit(loadEnd))
           \/ (\E n \in FirstRequests : MemAllocInitial(n))
           \/ (\E n \in Requests : MemAlloc(n))
  <2>1. at' # "findSlot"
    BY <1>4 DEF NotEnoughMemory, SlotFound, NotFound, FoundSlot, AddGap, MemAvail, MemInit,
                MemAllocInitial, MemAlloc, ExamineSlot, Return, StoreEntry
  <2>2. QED
    BY <2>1 DEF FreeInv
<1>5. QED
  BY <1>1, <1>2, <1>3, <1>4 DEF Next, Walk

(* One pass of MemAvail's loop: the sum counts the free bytes up to the next
   header. *)
LEMMA SumIs ==
  ASSUME HeapInv, SumInv, AddGap
  PROVE  /\ WithGap = Cardinality(FreeBelow(NextOr(a0))) /\ WithGap \in Words
         /\ call.routine = "MemAvail" /\ a0 \in Nodes
<1> USE MemManAssumption
<1>1. call.routine = "MemAvail" /\ a0 \in Nodes /\ d0 = Cardinality(FreeBelow(a0))
  BY DEF AddGap, SumInv
<1>2. PICK a \in Nodes : a = a0
  BY <1>1
<1>3. PICK g \in Nat : g = Gap /\ g = GapAt(a)
  BY <1>2, GapIs
<1>4. PICK c \in Nat : c = d0
  BY <1>1, <1>2, FreeGrows
<1>5. Cardinality(FreeBelow(NextOr(a))) = c + g /\ c + g <= Ceiling
  <2>1. Cardinality(FreeBelow(NextOr(a))) = Cardinality(FreeBelow(a)) + GapAt(a)
        /\ Cardinality(FreeBelow(NextOr(a))) <= Ceiling
    BY FreeGrows
  <2>2. QED
    BY <1>1, <1>2, <1>3, <1>4, <2>1
<1>6. Ceiling >= 1
  BY NodeFacts
<1>7. (c + g) % Word = c + g /\ c + g \in Words
  BY <1>5, <1>6 DEF Words
<1>8. QED
  BY <1>1, <1>2, <1>3, <1>4, <1>5, <1>7 DEF WithGap

(* MemAvail's sum starts at the start of the heap, where no byte lies below. *)
LEMMA SumStep ==
  ASSUME OrderInv, [Next]_vars
  PROVE  SumInv'
<1> USE DEF OrderInv
<1>1. CASE MemAvail
  <2>1. SameHeap
    BY <1>1, HeapStays
  <2>2. Nodes' = Nodes /\ \A a : FreeBelow(a)' = FreeBelow(a)
    BY <2>1, HeapKept
  <2>3. /\ call' = [routine |-> "MemAvail", argument |-> 0]
        /\ d0' = 0 /\ a0' = OsAllocatorStart
    BY <1>1 DEF MemAvail
  <2>4. OsAllocatorStart \in Nodes /\ OsAllocatorStart \in Nat
    BY NodeFacts
  <2>5. FreeBelow(OsAllocatorStart) = {}
    BY <2>4 DEF FreeBelow
  <2>6. Cardinality({}) = 0
    BY FS_EmptySet
  <2>7. Cardinality(FreeBelow(a0))' = 0
    BY <2>2, <2>3, <2>5, <2>6
  <2>8. QED
    BY <2>2, <2>3, <2>4, <2>7 DEF SumInv
<1>2. CASE AddGap
  <2>1. SameHeap
    BY <1>2, HeapStays
  <2>2. Nodes' = Nodes /\ \A a : FreeBelow(a)' = FreeBelow(a)
    BY <2>1, HeapKept
  <2>3. CASE next[a0] = NULL
    BY <1>2, <2>3 DEF AddGap, Return, SumInv
  <2>4. CASE next[a0] # NULL
    <3>1. d0' = WithGap /\ a0' = next[a0] /\ call' = call
      BY <1>2, <2>4 DEF AddGap
    <3>2. WithGap = Cardinality(FreeBelow(NextOr(a0))) /\ call.routine = "MemAvail" /\ a0 \in Nodes
      BY <1>2, SumIs
    <3>3. NextOr(a0) = next[a0] /\ next[a0] \in Nodes
      BY <2>4, <3>2 DEF NextOr, HeapInv, LinksAscend
    <3>4. Cardinality(FreeBelow(a0))' = Cardinality(FreeBelow(next[a0]))
      BY <2>2, <3>1
    <3>5. QED
      BY <2>2, <3>1, <3>2, <3>3, <3>4 DEF SumInv
  <2>5. QED
    BY <2>3, <2>4
<1>3. CASE UNCHANGED vars
  <2>1. SameHeap
    BY <1>3, HeapStays
  <2>2. Nodes' = Nodes /\ \A a : FreeBelow(a)' = FreeBelow(a)
    BY <2>1, HeapKept
  <2>3. at' = at /\ d0' = d0 /\ a0' = a0 /\ call' = call
    BY <1>3 DEF vars, registers
  <2>4. Cardinality(FreeBelow(a0))' = Cardinality(FreeBelow(a0))
    BY <2>2, <2>3
  <2>5. QED
    BY <2>2, <2>3, <2>4 DEF SumInv
<1>4. CASE \/ NotEnoughMemory \/ SlotFound \/ NotFound \/ FoundSlot \/ FindSlot \/ ExamineSlot
           \/ (\E loadEnd \in LoadEnds : MemInit(loadEnd))
           \/ (\E n \in FirstRequests : MemAllocInitial(n))
           \/ (\E n \in Requests : MemAlloc(n))
           \/ (\E p \in held \cup WrongPointers : MemFree(p))
  <2>1. at' # "memAvail"
    BY <1>4 DEF NotEnoughMemory, SlotFound, NotFound, FoundSlot, FindSlot, ExamineSlot, MemInit,
                MemAllocInitial, MemAlloc, MemFree, Return, StoreEntry
  <2>2. QED
    BY <2>1 DEF SumInv
<1>5. QED
  BY <1>1, <1>2, <1>3, <1>4 DEF Next, Walk

(* What a call answers when it returns. *)
LEMMA AnswerStep ==
  ASSUME NoWrap, FirstFits, OrderInv, [Next]_vars
  PROVE  AnswerInv'
<1> USE MemManAssumption DEF OrderInv
<1>1. CASE \E n \in FirstRequests : MemAllocInitial(n)
  <2>1. PICK n \in FirstRequests : MemAllocInitial(n)
    BY <1>1
  <2>2. PICK s \in Slots \ {NULL} : s = OsAllocatorStart
    BY DEF HeapInv
  <2>3. s \in Nat /\ s + SIZEOF # 0 /\ Header(s + SIZEOF) = s
    BY <2>2 DEF Slots, Header
  <2>4. /\ call' = [routine |-> "MemAlloc", argument |-> n]
        /\ size' = [size EXCEPT ![s] = Rounded(n)]
        /\ held' = held \cup {s + SIZEOF} /\ d0' = s + SIZEOF
    BY <2>1, <2>2 DEF MemAllocInitial, StoreEntry, Return
  <2>5. size'[s] = Rounded(n)
    BY <2>2, <2>4 DEF HeapInv
  <2>6. Header(d0)' = s
    BY <2>3, <2>4 DEF Header
  <2>7. QED
    BY <2>3, <2>4, <2>5, <2>6 DEF AnswerInv
<1>2. CASE SlotFound
  <2>1. /\ held # {} /\ call.routine = "MemAlloc" /\ call.argument \in Requests
        /\ d0 = Rounded(call.argument)
        /\ a2 \in Nodes /\ d2 = GapAt(a2) /\ d0 <= d2
    BY <1>2 DEF SlotFound, SearchInv
  <2>2. PICK r \in Nat : r = d0 /\ r > 0 /\ r <= GapAt(a2)
    <3>1. Rounded(call.argument) \in Nat /\ 2 * SIZEOF <= Rounded(call.argument)
      BY <2>1, RoundedIs
    <3>2. QED
      BY <2>1, <3>1
  <2>3. PICK e \in Slots \ {NULL} : e = NewEntry
    BY <2>1, <2>2, NewEntryFacts
  <2>4. e \in Nat /\ e + SIZEOF # 0 /\ e + SIZEOF - SIZEOF = e
    BY <2>3 DEF Slots
  <2>5. /\ call' = call /\ size' = [size EXCEPT ![e] = r]
        /\ held' = held \cup {e + SIZEOF} /\ d0' = e + SIZEOF
    BY <1>2, <2>2, <2>3 DEF SlotFound, StoreEntry, Return
  <2>6. size'[e] = r
    BY <2>3, <2>5 DEF HeapInv
  <2>7. Header(d0)' = e
    BY <2>4, <2>5 DEF Header
  <2>8. QED
    BY <2>1, <2>2, <2>4, <2>5, <2>6, <2>7 DEF AnswerInv
<1>3. CASE NotEnoughMemory
  <2>1. SameHeap
    BY <1>3, HeapStays
  <2>2. /\ Nodes' = Nodes /\ held' = held /\ call' = call /\ \A a : GapAt(a)' = GapAt(a)
        /\ d0' = 0
    BY <1>3, <2>1, HeapKept DEF SameHeap, NotEnoughMemory, Return
  <2>3. /\ held # {} /\ call.routine = "MemAlloc" /\ call.argument \in Requests
        /\ d0 = Rounded(call.argument)
        /\ \A a \in Nodes : ~(d0 <= GapAt(a))
    BY <1>3 DEF NotEnoughMemory, SearchInv, Seen
  <2>4. d0 \in Nat
    BY DEF RegistersInv, Words
  <2>5. \A a \in Nodes : GapAt(a) < Rounded(call.argument)
    BY <2>3, <2>4, NodeFacts
  <2>6. QED
    BY <2>2, <2>3, <2>5 DEF AnswerInv
<1>4. CASE AddGap
  <2>1. SameHeap
    BY <1>4, HeapStays
  <2>2. \A a : FreeBelow(a)' = FreeBelow(a)
    BY <2>1, HeapKept
  <2>3. WithGap = Cardinality(FreeBelow(NextOr(a0))) /\ call.routine = "MemAvail"
    BY <1>4, SumIs
  <2>4. CASE next[a0] = NULL
    <3>1. d0' = WithGap /\ call' = call /\ NextOr(a0) = Ceiling
      BY <1>4, <2>4 DEF AddGap, Return, NextOr
    <3>2. Cardinality(FreeBelow(Ceiling))' = Cardinality(FreeBelow(Ceiling))
      BY <2>2
    <3>3. QED
      BY <2>3, <3>1, <3>2 DEF AnswerInv
  <2>5. CASE next[a0] # NULL
    BY <1>4, <2>5 DEF AddGap, AnswerInv
  <2>6. QED
    BY <2>4, <2>5
<1>5. CASE (\E loadEnd \in LoadEnds : MemInit(loadEnd))
  BY <1>5 DEF MemInit, NoCall, AnswerInv
<1>6. CASE NotFound \/ FoundSlot
  <2>1. call.routine = "MemFree" /\ call' = call
    BY <1>6 DEF NotFound, FoundSlot, FreeInv
  <2>2. QED
    BY <2>1 DEF AnswerInv
<1>7. CASE UNCHANGED vars
  <2>1. SameHeap
    BY <1>7, HeapStays
  <2>2. Nodes' = Nodes /\ \A a : GapAt(a)' = GapAt(a) /\ FreeBelow(a)' = FreeBelow(a)
    BY <2>1, HeapKept
  <2>3. at' = at /\ d0' = d0 /\ call' = call /\ held' = held /\ size' = size
    BY <1>7 DEF vars, registers, heap
  <2>4. Cardinality(FreeBelow(Ceiling))' = Cardinality(FreeBelow(Ceiling))
    BY <2>2
  <2>5. Header(d0)' = Header(d0)
    BY <2>3 DEF Header
  <2>6. QED
    BY <2>2, <2>3, <2>4, <2>5 DEF AnswerInv
<1>8. CASE \/ FindSlot \/ ExamineSlot \/ MemAvail
           \/ (\E n \in Requests : MemAlloc(n))
           \/ (\E p \in held \cup WrongPointers : MemFree(p))
  <2>1. at' # "program"
    BY <1>8 DEF FindSlot, ExamineSlot, MemAvail, MemAlloc, MemFree
  <2>2. QED
    BY <2>1 DEF AnswerInv
<1>9. QED
  BY <1>1, <1>2, <1>3, <1>4, <1>5, <1>6, <1>7, <1>8 DEF Next, Walk

(* The registers hold words. *)
LEMMA RegistersStep ==
  ASSUME NoWrap, FirstFits, OrderInv, [Next]_vars
  PROVE  RegistersInv'
<1> USE MemManAssumption DEF OrderInv
<1>1. PICK s \in Nodes : s = OsAllocatorStart
  BY NodeFacts
<1>2. s \in Nat /\ s < Ceiling
  BY NodeFacts
<1>3. /\ Ceiling >= 1 /\ Word >= 2 /\ Word > Ceiling
      /\ 0 \in Words /\ Word - 1 \in Words /\ s \in Words
  BY <1>2 DEF Words
<1>4. NULL = 0
  BY DEF NULL
<1>5. /\ d0 \in Words /\ d2 \in Words /\ a0 \in Words /\ a1 \in Words /\ a2 \in Words
      /\ at \in {"program", "findNextSlot", "noMoreSlots", "findSlot", "memAvail"}
      /\ call \in Calls /\ boots \in 0 .. MaxBoots
  BY DEF RegistersInv
<1>6. CASE ExamineSlot
  <2>1. a0 \in Nodes
    BY <1>6 DEF ExamineSlot, SearchInv
  <2>2. next[a0] \in Words /\ Gap \in Words
    BY <2>1, NodeFacts, GapIs
  <2>3. QED
    BY <1>5, <1>6, <2>2 DEF ExamineSlot, RegistersInv
<1>7. CASE NotEnoughMemory \/ NotFound \/ FoundSlot
  BY <1>3, <1>4, <1>5, <1>7 DEF NotEnoughMemory, NotFound, FoundSlot, Return, RegistersInv
<1>8. CASE SlotFound
  <2>1. /\ held # {} /\ call.argument \in Requests /\ d0 = Rounded(call.argument)
        /\ a2 \in Nodes /\ d2 = GapAt(a2) /\ d0 <= d2
    BY <1>8 DEF SlotFound, SearchInv
  <2>2. PICK r \in Nat : r = d0 /\ 2 * SIZEOF <= r /\ r <= GapAt(a2)
    BY <2>1, RoundedIs
  <2>3. PICK e \in Slots \ {NULL} : e = NewEntry
    BY <2>1, <2>2, NewEntryFacts
  <2>4. e + r <= NextOr(a2) /\ NextOr(a2) \in Nat /\ NextOr(a2) <= Ceiling /\ e \in Nat
    BY <2>1, <2>2, <2>3, NewEntryFacts, NodeFacts DEF Slots
  <2>5. e + SIZEOF \in Words
    BY <1>3, <2>2, <2>4 DEF Words
  <2>6. QED
    BY <1>3, <1>4, <1>5, <1>8, <2>3, <2>5 DEF SlotFound, StoreEntry, Return, RegistersInv
<1>9. CASE FindSlot
  <2>1. next[a1] \in Words
    BY <1>9, NodeFacts DEF FindSlot, FreeInv
  <2>2. QED
    BY <1>5, <1>9, <2>1 DEF FindSlot, RegistersInv
<1>10. CASE AddGap
  <2>1. WithGap \in Words /\ a0 \in Nodes
    BY <1>10, SumIs
  <2>2. next[a0] \in Words
    BY <2>1, NodeFacts
  <2>3. QED
    BY <1>3, <1>4, <1>5, <1>10, <2>1, <2>2 DEF AddGap, Return, RegistersInv
<1>11. CASE \E loadEnd \in LoadEnds : MemInit(loadEnd)
  <2>1. NoCall \in Calls
    BY <1>3 DEF NoCall, Calls
  <2>2. boots + 1 \in 0 .. MaxBoots
    BY <1>5, <1>11 DEF MemInit
  <2>3. QED
    BY <1>5, <1>11, <2>1, <2>2 DEF MemInit, registers, RegistersInv
<1>12. CASE \E n \in FirstRequests : MemAllocInitial(n)
  <2>1. PICK n \in FirstRequests : MemAllocInitial(n)
    BY <1>12
  <2>2. PICK r \in Nat : r = Rounded(n) /\ 2 * SIZEOF <= r
    BY RoundedIs
  <2>3. s + r <= Ceiling
    BY <1>1, <2>1, <2>2 DEF FirstFits
  <2>4. s + SIZEOF \in Words
    BY <1>2, <1>3, <2>2, <2>3 DEF Words
  <2>5. [routine |-> "MemAlloc", argument |-> n] \in Calls
    BY DEF Calls, Words
  <2>6. QED
    BY <1>1, <1>3, <1>4, <1>5, <2>1, <2>4, <2>5 DEF MemAllocInitial, StoreEntry, Return, RegistersInv
<1>13. CASE \E n \in Requests : MemAlloc(n)
  <2>1. PICK n \in Requests : MemAlloc(n)
    BY <1>13
  <2>2. Rounded(n) \in Words
    BY RoundedIs DEF Words
  <2>3. [routine |-> "MemAlloc", argument |-> n] \in Calls
    BY DEF Calls, Words
  <2>4. QED
    BY <1>1, <1>3, <1>4, <1>5, <2>1, <2>2, <2>3 DEF MemAlloc, RegistersInv
<1>14. CASE \E p \in held \cup WrongPointers : MemFree(p)
  <2>1. PICK p \in held \cup WrongPointers : MemFree(p)
    BY <1>14
  <2>2. p \in Int
    <3>1. CASE p \in held
      BY <3>1 DEF HeapInv, Slots
    <3>2. CASE p \in WrongPointers
      BY <3>2
    <3>3. QED
      BY <3>1, <3>2
  <2>3. (p - SIZEOF) % Word \in Words
    <3> DEFINE x == p - SIZEOF
    <3>1. x \in Int
      BY <2>2
    <3> HIDE DEF x
    <3>2. x % Word \in Words
      BY <1>3, <3>1, WordRest
    <3>3. QED
      BY <3>2 DEF x
  <2>4. [routine |-> "MemFree", argument |-> 0] \in Calls
    BY <1>3 DEF Calls
  <2>5. QED
    BY <1>1, <1>3, <1>4, <1>5, <2>1, <2>3, <2>4 DEF MemFree, RegistersInv
<1>15. CASE MemAvail
  <2>1. [routine |-> "MemAvail", argument |-> 0] \in Calls
    BY <1>3 DEF Calls
  <2>2. QED
    BY <1>1, <1>3, <1>5, <1>15, <2>1 DEF MemAvail, RegistersInv
<1>16. CASE UNCHANGED vars
  BY <1>5, <1>16 DEF vars, registers, RegistersInv
<1>17. QED
  BY <1>6, <1>7, <1>8, <1>9, <1>10, <1>11, <1>12, <1>13, <1>14, <1>15, <1>16 DEF Next, Walk

-----------------------------------------------------------------------------
(***************************************************************************)
(* The heap whose first block ends beyond the RAM.                         *)
(***************************************************************************)

(* The first request may be too large; it is granted all the same. *)
LEMMA BeyondStarts ==
  ASSUME NoWrap, OrderInv, NEW n \in FirstRequests, MemAllocInitial(n),
         ~(OsAllocatorStart + Rounded(n) <= Ceiling)
  PROVE  BeyondInv'
<1> USE MemManAssumption DEF OrderInv
<1>1. PICK s \in Slots \ {NULL} : OsAllocatorStart = s
  BY DEF HeapInv
<1>2. PICK r \in Words : r = Rounded(n)
  BY RoundedIs DEF Words
<1>3. s \in Nat /\ s < Ceiling /\ s + SIZEOF <= Ceiling /\ r \in Nat /\ Ceiling < s + r
  <2>1. s + SIZEOF <= Ceiling
    BY <1>1, BeginningIs DEF StartInv
  <2>2. QED
    BY <1>1, <1>2, <2>1 DEF Slots, Words
<1>4. held = {} /\ next[s] = NULL
  BY <1>1, NothingHeld DEF MemAllocInitial
<1>5. /\ OsAllocatorStart' = s /\ next' = next /\ boots' = boots
      /\ size' = [size EXCEPT ![s] = r] /\ held' = held \cup {s + SIZEOF}
      /\ call' = [routine |-> "MemAlloc", argument |-> n]
      /\ d0' = s + SIZEOF /\ d2' = 0 /\ a0' = 0 /\ a1' = 0 /\ a2' = 0 /\ at' = "program"
  BY <1>1, <1>2 DEF MemAllocInitial, StoreEntry, Return
<1>6. size' \in [Slots -> Words] /\ size'[s] = r /\ next' \in [Slots -> Words]
  BY <1>1, <1>2, <1>5 DEF HeapInv
<1>7. EndOf(s)' = s + r
  BY <1>5, <1>6 DEF EndOf
<1>8. StartInv'
  BY <1>1, <1>5 DEF StartInv
<1>9. RegistersInv'
  <2>1. 0 \in Words /\ s + SIZEOF \in Words
    BY <1>3 DEF Words
  <2>2. [routine |-> "MemAlloc", argument |-> n] \in Calls
    BY DEF Calls, Words
  <2>3. QED
    BY <1>5, <2>1, <2>2 DEF RegistersInv
<1>10. Rounded(n)' = Rounded(n)
  BY DEF Rounded, Padded
<1>11. QED
  BY <1>1, <1>2, <1>3, <1>4, <1>5, <1>6, <1>7, <1>8, <1>9 DEF BeyondInv

(* Until another system is booted, nothing changes it. *)
LEMMA BeyondStays ==
  ASSUME BeyondInv, [Next]_vars, ~(\E loadEnd \in LoadEnds : MemInit(loadEnd))
  PROVE  BeyondInv' /\ SameHeap
<1> USE MemManAssumption
<1>1. PICK s \in Slots \ {NULL} : s = OsAllocatorStart
  BY DEF BeyondInv
<1>2. /\ next \in [Slots -> Words] /\ size \in [Slots -> Words]
      /\ next[s] = NULL /\ Ceiling < s + size[s] /\ held = {s + SIZEOF}
      /\ at \in {"program", "findSlot", "memAvail"}
      /\ at = "findSlot" => /\ call.routine = "MemFree"
                            /\ (a1 = s /\ a2 = NULL) \/ (a1 = NULL /\ a2 = s)
      /\ at = "memAvail" => call.routine = "MemAvail" /\ a0 = s
  BY <1>1 DEF BeyondInv, EndOf
<1>3. /\ s \in Nat /\ s < Ceiling /\ s # NULL /\ NULL = 0 /\ size[s] \in Nat
      /\ Word > 0 /\ 0 \in Words /\ Word - 1 \in Words /\ s \in Words
  BY <1>2 DEF Slots, Words, NULL
<1>4. /\ d0 \in Words /\ d2 \in Words /\ a0 \in Words /\ a1 \in Words /\ a2 \in Words
      /\ call \in Calls /\ boots \in 0 .. MaxBoots
  BY DEF BeyondInv, RegistersInv
<1>5. ASSUME SameHeap
      PROVE  /\ StartInv' /\ EndOf(OsAllocatorStart)' = EndOf(OsAllocatorStart)
             /\ OsAllocatorStart' = s /\ next' = next /\ size' = size /\ held' = held
  BY <1>1, <1>5 DEF SameHeap, heap, BeyondInv, StartInv, EndOf
<1>6. ~ExamineSlot /\ ~NotEnoughMemory /\ ~SlotFound
  BY <1>2 DEF ExamineSlot, NotEnoughMemory, SlotFound
<1>7. ~(\E n \in Requests : MemAlloc(n)) /\ ~(\E n \in FirstRequests : MemAllocInitial(n))
  <2>1. size[OsAllocatorStart] # 0 /\ ~InRam
    BY <1>1, <1>2, <1>3 DEF InRam
  <2>2. QED
    BY <2>1 DEF MemAlloc, MemAllocInitial
<1>8. ~FoundSlot
  BY <1>1, <1>2, <1>3 DEF FoundSlot
<1>9. CASE \E p \in held \cup WrongPointers : MemFree(p)
  <2>1. PICK p \in held \cup WrongPointers : MemFree(p)
    BY <1>9
  <2>2. (p - SIZEOF) % Word \in Words
    <3> DEFINE x == p - SIZEOF
    <3>1. x \in Int
      BY <1>2, <1>3
    <3> HIDE DEF x
    <3>2. x % Word \in Words
      BY <1>3, <3>1, WordRest
    <3>3. QED
      BY <3>2 DEF x
  <2>3. SameHeap /\ boots' = boots
    BY <1>9, HeapStays
  <2>4. /\ call' = [routine |-> "MemFree", argument |-> 0] /\ call' \in Calls
        /\ a0' \in Words /\ a1' = s /\ a2' = NULL /\ at' = "findSlot" /\ d0' = d0 /\ d2' = d2
    BY <1>1, <1>3, <2>1, <2>2 DEF MemFree, Calls
  <2>5. RegistersInv'
    BY <1>3, <1>4, <2>3, <2>4 DEF RegistersInv
  <2>6. QED
    BY <1>1, <1>2, <1>5, <2>3, <2>4, <2>5 DEF BeyondInv
<1>10. CASE NotFound
  <2>1. SameHeap /\ boots' = boots
    BY <1>10, HeapStays
  <2>2. /\ call' = call /\ call.routine = "MemFree" /\ at' = "program"
        /\ d0' = Word - 1 /\ d2' = 0 /\ a0' = 0 /\ a1' = 0 /\ a2' = 0
    BY <1>2, <1>10 DEF NotFound, Return
  <2>3. RegistersInv'
    BY <1>3, <1>4, <2>1, <2>2 DEF RegistersInv
  <2>4. QED
    BY <1>1, <1>2, <1>5, <2>1, <2>2, <2>3 DEF BeyondInv
<1>11. CASE FindSlot
  <2>1. SameHeap /\ boots' = boots
    BY <1>11, HeapStays
  <2>2. /\ call' = call /\ call.routine = "MemFree" /\ at' = "findSlot"
        /\ a2' = s /\ a1' = NULL /\ d0' = d0 /\ d2' = d2 /\ a0' = a0
    BY <1>1, <1>2, <1>11 DEF FindSlot
  <2>3. RegistersInv'
    BY <1>3, <1>4, <2>1, <2>2 DEF RegistersInv
  <2>4. QED
    BY <1>1, <1>2, <1>5, <2>1, <2>2, <2>3 DEF BeyondInv
<1>12. CASE MemAvail
  <2>1. SameHeap /\ boots' = boots
    BY <1>12, HeapStays
  <2>2. /\ call' = [routine |-> "MemAvail", argument |-> 0] /\ call' \in Calls
        /\ d0' = 0 /\ a0' = s /\ at' = "memAvail" /\ d2' = d2 /\ a1' = a1 /\ a2' = a2
    BY <1>1, <1>3, <1>12 DEF MemAvail, Calls
  <2>3. RegistersInv'
    BY <1>3, <1>4, <2>1, <2>2 DEF RegistersInv
  <2>4. QED
    BY <1>1, <1>2, <1>5, <2>1, <2>2, <2>3 DEF BeyondInv
<1>13. CASE AddGap
  <2>1. SameHeap /\ boots' = boots
    BY <1>13, HeapStays
  <2>2. a0 = s /\ call.routine = "MemAvail"
    BY <1>2, <1>13 DEF AddGap
  <2>3. WithGap \in Words
    <3>1. PICK c \in Int : c = Ceiling - s - size[s]
      BY <1>3
    <3>2. Gap = c % Word
      BY <1>2, <2>2, <3>1 DEF Gap
    <3>3. Gap \in Words
      BY <1>3, <3>2, WordRest
    <3>4. PICK x \in Int : x = d0 + Gap
      BY <1>4, <3>3 DEF Words
    <3>5. QED
      BY <1>3, <3>4, WordRest DEF WithGap
  <2>4. /\ call' = call /\ at' = "program"
        /\ d0' = WithGap /\ d2' = 0 /\ a0' = 0 /\ a1' = 0 /\ a2' = 0
    BY <1>2, <1>13, <2>2 DEF AddGap, Return
  <2>5. RegistersInv'
    BY <1>3, <1>4, <2>1, <2>3, <2>4 DEF RegistersInv
  <2>6. QED
    BY <1>1, <1>2, <1>5, <2>1, <2>2, <2>4, <2>5 DEF BeyondInv
<1>14. CASE UNCHANGED vars
  <2>1. SameHeap
    BY <1>14, HeapStays
  <2>2. /\ call' = call /\ at' = at /\ boots' = boots
        /\ d0' = d0 /\ d2' = d2 /\ a0' = a0 /\ a1' = a1 /\ a2' = a2
    BY <1>14 DEF vars, registers
  <2>3. RegistersInv'
    BY <2>2 DEF BeyondInv, RegistersInv
  <2>4. Rounded(call.argument)' = Rounded(call.argument)
    BY <2>2 DEF Rounded, Padded
  <2>5. QED
    BY <1>1, <1>5, <2>1, <2>2, <2>3, <2>4 DEF BeyondInv
<1>15. QED
  BY <1>6, <1>7, <1>8, <1>9, <1>10, <1>11, <1>12, <1>13, <1>14 DEF Next, Walk

(* Another system finds the heap in order again. *)
LEMMA BeyondEnds ==
  ASSUME BeyondInv, NEW loadEnd \in LoadEnds, MemInit(loadEnd)
  PROVE  OrderInv'
<1> USE MemManAssumption
<1>1. HeapInv'
  BY BootHeap DEF BeyondInv
<1>2. StartInv'
  BY DEF MemInit, StartInv
<1>3. at' = "program" /\ call' = NoCall /\ boots' = boots + 1 /\ boots < MaxBoots
  BY DEF MemInit
<1>4. UNCHANGED registers
  BY DEF MemInit
<1>5. RegistersInv'
  <2>1. NoCall \in Calls
    BY DEF NoCall, Calls, Words
  <2>2. boots + 1 \in 0 .. MaxBoots
    BY <1>3 DEF BeyondInv, RegistersInv
  <2>3. QED
    BY <1>3, <1>4, <2>1, <2>2 DEF BeyondInv, registers, RegistersInv
<1>6. SearchInv' /\ FreeInv' /\ SumInv' /\ AnswerInv'
  BY <1>3 DEF NoCall, SearchInv, FreeInv, SumInv, AnswerInv
<1>7. QED
  BY <1>1, <1>2, <1>5, <1>6 DEF OrderInv

(* The heap in order stays so, but for a first block that ends beyond the RAM. *)
LEMMA OrderStep ==
  ASSUME NoWrap, FirstFits, OrderInv, [Next]_vars
  PROVE  OrderInv'
BY HeapStep, StartStep, RegistersStep, SearchStep, FreeStep, SumStep, AnswerStep DEF OrderInv

(* The invariant, from which the properties follow. *)
THEOREM ManagerIsInvariant == NoWrap => (Spec => []ManagerInv)
<1>1. Init => ManagerInv
  BY ManagerStarts DEF ManagerInv
<1>2. ASSUME NoWrap, ManagerInv, [Next]_vars
      PROVE  ManagerInv'
  <2>1. CASE OrderInv /\ FirstFits
    BY <1>2, <2>1, OrderStep DEF ManagerInv
  <2>2. CASE OrderInv /\ ~FirstFits
    BY <1>2, <2>2, BeyondStarts DEF FirstFits, ManagerInv
  <2>3. CASE BeyondInv /\ (\E loadEnd \in LoadEnds : MemInit(loadEnd))
    BY <2>3, BeyondEnds DEF ManagerInv
  <2>4. CASE BeyondInv /\ ~(\E loadEnd \in LoadEnds : MemInit(loadEnd))
    BY <1>2, <2>4, BeyondStays DEF ManagerInv
  <2>5. QED
    BY <1>2, <2>1, <2>2, <2>3, <2>4 DEF ManagerInv
<1>3. QED
  <2>1. SUFFICES ASSUME NoWrap
                 PROVE  Spec => []ManagerInv
    OBVIOUS
  <2>2. ManagerInv /\ [Next]_vars => ManagerInv'
    BY <1>2, <2>1
  <2>3. QED
    BY <1>1, <2>2, PTL DEF Spec

(***************************************************************************)
(* The list as the links spell it, walked from the start of the heap.      *)
(***************************************************************************)

(* What the links of a heap have in common, on both sides of FirstFits. *)
Chained ==
  \A a \in Nodes :
    /\ a \in Nat /\ a # NULL /\ a \in Slots /\ a < Ceiling
    /\ OsAllocatorStart <= a /\ NextOr(a) \in Nat
    /\ next[a] \in Nodes \cup {NULL}
    /\ next[a] # NULL => NextOr(a) = next[a]
    /\ next[a] = NULL => NextOr(a) = Ceiling
    /\ a < NextOr(a) /\ \A b \in Nodes : a < b => NextOr(a) <= b

LEMMA HeapIsChained == HeapInv => Chained
BY NodeFacts DEF Chained, HeapInv, LinksAscend, NextOr

(* Beyond the RAM there is one header, at the start of the heap. *)
LEMMA BeyondIsChained ==
  ASSUME BeyondInv
  PROVE  Chained /\ Nodes = {OsAllocatorStart} /\ size[OsAllocatorStart] \in Nat \ {0}
<1> USE MemManAssumption
<1>1. PICK s \in Slots \ {NULL} : s = OsAllocatorStart
  BY DEF BeyondInv
<1>2. /\ next[s] = NULL /\ held = {s + SIZEOF} /\ size[s] \in Words
      /\ Ceiling < s + size[s]
  BY <1>1 DEF BeyondInv, EndOf
<1>3. s \in Nat /\ s < Ceiling
  BY DEF Slots
<1>4. Header(s + SIZEOF) = s
  BY <1>3 DEF Header
<1>5. Nodes = {s}
  BY <1>1, <1>2, <1>4 DEF Nodes
<1>6. NextOr(s) = Ceiling
  BY <1>2 DEF NextOr
<1>7. Chained
  BY <1>1, <1>2, <1>3, <1>5, <1>6 DEF Chained
<1>8. QED
  BY <1>1, <1>2, <1>3, <1>5, <1>7 DEF Words

(* Following the links from the start of the heap meets every header, and
   nothing else: links ascend and skip no header, and there are no more
   headers than places for them. *)
LEMMA LinkedIsNodes ==
  ASSUME Chained
  PROVE  Linked = Nodes
<1> USE MemManAssumption
<1> DEFINE walk[n \in Nat] ==
             IF n = 0 THEN OsAllocatorStart
             ELSE LET previous == walk[n - 1]
                  IN  IF previous = NULL THEN NULL ELSE next[previous]
<1>1. Linked = {walk[n] : n \in 0 .. Cardinality(Slots)} \ {NULL}
  BY DEF Linked
<1> DEFINE Places == Nodes \cup {NULL}
           step == [p \in Places |-> IF p = NULL THEN NULL ELSE next[p]]
<1>2. step \in [Places -> Places]
  BY DEF Chained
<1>3. OsAllocatorStart \in Places
  BY DEF Nodes
<1>4. PICK f : /\ f \in [Nat -> Places] /\ f[0] = OsAllocatorStart
               /\ \A n \in Nat : f[n + 1] = step[f[n]]
  <2> HIDE DEF Places, step
  <2>1. \E f : Repeats(f, Places, OsAllocatorStart, step)
    BY <1>2, <1>3, StepsExist
  <2>2. QED
    BY <2>1 DEF Repeats
<1>5. f = [n \in Nat |-> IF n = 0 THEN OsAllocatorStart
                         ELSE LET previous == f[n - 1]
                              IN  IF previous = NULL THEN NULL ELSE next[previous]]
  <2>1. ASSUME NEW n \in Nat
        PROVE  f[n] = IF n = 0 THEN OsAllocatorStart
                         ELSE LET previous == f[n - 1]
                              IN  IF previous = NULL THEN NULL ELSE next[previous]
    <3>1. CASE n = 0
      BY <1>4, <3>1
    <3>2. CASE n # 0
      <4>1. PICK m \in Nat : m = n - 1 /\ n = m + 1
        BY <3>2
      <4>2. f[m + 1] = step[f[m]] /\ f[m] \in Places
        BY <1>4
      <4>3. QED
        BY <3>2, <4>1, <4>2
    <3>3. QED
      BY <3>1, <3>2
  <2>2. QED
    BY <1>4, <2>1
<1>6. walk = [n \in Nat |-> IF n = 0 THEN OsAllocatorStart
                         ELSE LET previous == walk[n - 1]
                              IN  IF previous = NULL THEN NULL ELSE next[previous]]
  BY <1>5, Zenon
<1> HIDE DEF walk, Places, step
<1>7. /\ walk[0] = OsAllocatorStart
      /\ \A n \in Nat : walk[n + 1] = IF walk[n] = NULL THEN NULL ELSE next[walk[n]]
  <2>1. walk[0] = OsAllocatorStart
    BY <1>6
  <2>2. ASSUME NEW n \in Nat
        PROVE  walk[n + 1] = IF walk[n] = NULL THEN NULL ELSE next[walk[n]]
    <3>1. n + 1 \in Nat /\ n + 1 # 0 /\ (n + 1) - 1 = n
      OBVIOUS
    <3>2. walk[n + 1] = IF walk[(n + 1) - 1] = NULL THEN NULL ELSE next[walk[(n + 1) - 1]]
      BY <1>6, <3>1
    <3>3. QED
      BY <3>1, <3>2
  <2>3. QED
    BY <2>1, <2>2
<1>8. \A a \in Nodes : /\ a \in Nat /\ a # NULL /\ a \in Slots /\ a < Ceiling
                       /\ OsAllocatorStart <= a /\ NextOr(a) \in Nat
                       /\ next[a] \in Nodes \cup {NULL}
                       /\ next[a] # NULL => NextOr(a) = next[a]
                       /\ next[a] = NULL => NextOr(a) = Ceiling
                       /\ a < NextOr(a) /\ \A b \in Nodes : a < b => NextOr(a) <= b
  BY DEF Chained
<1>9. \A n \in Nat : walk[n] \in Nodes \cup {NULL}
  <2> DEFINE Typed == {n \in Nat : walk[n] \in Nodes \cup {NULL}}
  <2>1. 0 \in Typed
    BY <1>7 DEF Nodes
  <2>2. \A n \in Nat : n \in Typed => n + 1 \in Typed
    BY <1>7, <1>8
  <2>3. Nat \subseteq Typed
    <3> HIDE DEF Typed
    <3>1. QED
      BY <2>1, <2>2, SetInduction
  <2>4. QED
    BY <2>3
<1>10. ASSUME NEW n \in Nat
       PROVE  walk[n] # NULL => \A i \in 0 .. n - 1 : walk[i] # NULL /\ walk[i] < walk[n]
  <2> DEFINE Rises(m) == walk[m] # NULL => \A i \in 0 .. m - 1 : walk[i] # NULL /\ walk[i] < walk[m]
             Rising == {m \in Nat : Rises(m)}
  <2>1. 0 \in Rising
    OBVIOUS
  <2>2. ASSUME NEW m \in Nat, m \in Rising
        PROVE  m + 1 \in Rising
    <3>1. SUFFICES ASSUME walk[m + 1] # NULL, NEW i \in 0 .. m
                   PROVE  walk[i] # NULL /\ walk[i] < walk[m + 1]
      <4>1. m + 1 - 1 = m
        OBVIOUS
      <4>2. QED
        BY <3>1, <4>1
    <3>2. /\ walk[m] # NULL /\ walk[m + 1] = next[walk[m]] /\ walk[m] \in Nodes
          /\ walk[m + 1] \in Nodes
      BY <1>7, <1>9, <3>1
    <3>3. walk[m] < walk[m + 1]
      BY <1>8, <3>1, <3>2
    <3>4. CASE i = m
      BY <3>2, <3>3, <3>4
    <3>5. CASE i \in 0 .. m - 1
      <4>1. walk[i] # NULL /\ walk[i] < walk[m]
        BY <2>2, <3>2, <3>5
      <4>2. walk[i] \in Nodes
        BY <1>9, <4>1
      <4>3. QED
        BY <1>8, <3>2, <3>3, <4>1, <4>2
    <3>6. QED
      BY <3>4, <3>5
  <2>3. Nat \subseteq Rising
    <3> HIDE DEF Rising
    <3>1. QED
      BY <2>1, <2>2, SetInduction
  <2>4. QED
    BY <2>3
<1>11. ASSUME NEW b \in Nodes
       PROVE  \E n \in Nat : walk[n] = b
  <2> DEFINE Missed == {x \in Nodes : \A n \in Nat : walk[n] # x}
  <2>1. SUFFICES ASSUME Missed # {}
                 PROVE  FALSE
    OBVIOUS
  <2>2. Missed \in SUBSET Nat
    BY <1>8
  <2>3. PICK x \in Missed : \A y \in Missed : x <= y
    <3> HIDE DEF Missed
    <3>1. QED
      BY <2>1, <2>2, LeastNumber
  <2>4. x # OsAllocatorStart /\ OsAllocatorStart \in Nodes /\ OsAllocatorStart < x
    <3>1. OsAllocatorStart \in Nodes
      BY DEF Nodes
    <3>2. x \in Nodes /\ x # walk[0]
      BY <2>3
    <3>3. x \in Nat /\ OsAllocatorStart \in Nat /\ OsAllocatorStart <= x
      BY <1>8, <3>1, <3>2
    <3>4. QED
      BY <1>7, <3>1, <3>2, <3>3
  <2> DEFINE Below == {y \in Nodes : y < x}
  <2>5. Below \in SUBSET Int /\ Below # {} /\ x \in Int /\ \A y \in Below : y <= x
    <3>1. OsAllocatorStart \in Below
      BY <2>4
    <3>2. \A y \in Nodes : y \in Nat
      BY <1>8
    <3>3. x \in Nodes
      BY <2>3
    <3>4. QED
      BY <3>1, <3>2, <3>3
  <2>6. PICK c \in Below : \A y \in Below : y <= c
    <3> HIDE DEF Below
    <3>1. QED
      BY <2>5, GreatestNumber
  <2>7. PICK m \in Nat : walk[m] = c
    <3>1. c \notin Missed
      BY <1>8, <2>3, <2>6
    <3>2. QED
      BY <2>6, <3>1
  <2>8. NextOr(c) <= x
    BY <1>8, <2>6
  <2>9. next[c] # NULL
    <3>1. x \in Nat /\ x < Ceiling /\ c \in Nodes
      BY <1>8, <2>3, <2>6
    <3>2. next[c] = NULL => NextOr(c) = Ceiling
      BY <1>8, <3>1
    <3>3. QED
      BY <2>8, <3>1, <3>2
  <2>10. next[c] \in Nodes /\ NextOr(c) = next[c] /\ c < next[c]
    BY <1>8, <2>6, <2>9
  <2>11. next[c] = x
    <3>1. SUFFICES ASSUME next[c] < x
                   PROVE  FALSE
      BY <1>8, <2>8, <2>10
    <3>2. next[c] <= c
      BY <2>6, <2>10, <3>1
    <3>3. QED
      BY <1>8, <2>10, <3>2
  <2>12. walk[m + 1] = x /\ m + 1 \in Nat
    BY <1>7, <1>8, <2>6, <2>7, <2>11
  <2>13. QED
    BY <2>12
<1>12. IsFiniteSet(Slots) /\ Cardinality(Slots) \in Nat
  <2>1. IsFiniteSet(0 .. Ceiling - 1)
    BY FS_Interval
  <2>2. Slots \in SUBSET (0 .. Ceiling - 1)
    BY DEF Slots
  <2>3. IsFiniteSet(Slots)
    BY <2>1, <2>2, FS_Subset
  <2>4. QED
    BY <2>3, FS_CardinalityType
<1>13. ASSUME NEW n \in Nat, walk[n] \in Nodes
       PROVE  n <= Cardinality(Slots)
  <2> DEFINE h == [i \in 0 .. n |-> walk[i]]
  <2>1. \A i \in 0 .. n : walk[i] \in Nodes
    <3>1. ASSUME NEW i \in 0 .. n
          PROVE  walk[i] \in Nodes
      <4>1. walk[n] # NULL
        BY <1>8, <1>13
      <4>2. CASE i = n
        BY <1>13, <4>2
      <4>3. CASE i \in 0 .. n - 1
        BY <1>9, <1>10, <4>1, <4>3
      <4>4. QED
        BY <4>2, <4>3
    <3>2. QED
      BY <3>1
  <2>2. h \in [0 .. n -> Slots]
    BY <1>8, <2>1
  <2>3. ASSUME NEW i \in 0 .. n, NEW j \in 0 .. n, i < j
        PROVE  walk[i] # walk[j]
    <3>1. j \in Nat /\ i \in 0 .. j - 1 /\ walk[j] # NULL
      <4>1. j \in Nat /\ i \in 0 .. j - 1
        BY <2>3
      <4>2. QED
        BY <1>8, <2>1, <4>1
    <3>2. walk[i] < walk[j]
      BY <1>10, <3>1
    <3>3. QED
      BY <1>8, <2>1, <3>2
  <2>4. \A i, j \in 0 .. n : h[i] = h[j] => i = j
    BY <2>3
  <2>5. h \in Injection(0 .. n, Slots)
    <3> HIDE DEF h
    <3>1. QED
      BY <2>2, <2>4 DEF Injection, IsInjective
  <2>6. Cardinality(0 .. n) <= Cardinality(Slots)
    <3> HIDE DEF h
    <3>1. QED
      BY <1>12, <2>5, FS_Injection
  <2>7. Cardinality(0 .. n) = IF 0 > n THEN 0 ELSE n - 0 + 1
    BY FS_Interval
  <2>8. QED
    BY <1>12, <2>6, <2>7
<1>14. ASSUME NEW b
       PROVE  b \in Linked <=> b \in Nodes
  <2>1. CASE b \in Linked
    <3>1. PICK n \in 0 .. Cardinality(Slots) : b = walk[n] /\ b # NULL
      BY <1>1, <2>1
    <3>2. n \in Nat
      BY <1>12
    <3>3. QED
      BY <1>9, <2>1, <3>1, <3>2
  <2>2. CASE b \in Nodes
    <3>1. PICK n \in Nat : walk[n] = b
      BY <1>11, <2>2
    <3>2. n \in 0 .. Cardinality(Slots)
      BY <1>12, <1>13, <2>2, <3>1
    <3>3. QED
      BY <1>1, <1>8, <2>2, <3>1, <3>2
  <2>3. QED
    BY <2>1, <2>2
<1>15. QED
  BY <1>14

-----------------------------------------------------------------------------
(***************************************************************************)
(* What follows from the invariant.                                        *)
(***************************************************************************)
Block(a) == [at |-> a, size |-> size[a]]

(* The blocks are those behind the headers. *)
LEMMA BlocksAre ==
  HeapInv => Blocks = IF held = {} THEN {} ELSE {Block(a) : a \in Nodes}
<1> USE MemManAssumption
<1>1. SUFFICES ASSUME HeapInv
               PROVE  Blocks = IF held = {} THEN {} ELSE {Block(a) : a \in Nodes}
  OBVIOUS
<1>2. Blocks = {[at |-> a, size |-> size[a]] : a \in {b \in Nodes : size[b] # 0}}
  BY <1>1, HeapIsChained, LinkedIsNodes DEF Blocks
<1>3. CASE held = {}
  <2>1. Nodes = {OsAllocatorStart} /\ size[OsAllocatorStart] = 0
    BY <1>1, <1>3 DEF Nodes, HeapInv, BlocksAreWhole
  <2>2. QED
    BY <1>2, <1>3, <2>1
<1>4. CASE held # {}
  <2>1. \A a \in Nodes : size[a] \in Nat /\ size[a] >= 2 * SIZEOF
    BY <1>1, <1>4, NodeFacts DEF HeapInv, BlocksAreWhole
  <2>2. {b \in Nodes : size[b] # 0} = Nodes
    BY <2>1
  <2>3. QED
    BY <1>2, <1>4, <2>2 DEF Block
<1>5. QED
  BY <1>3, <1>4

LEMMA BeyondBlocks == BeyondInv => Blocks = {Block(OsAllocatorStart)}
<1>1. SUFFICES ASSUME BeyondInv
               PROVE  Blocks = {Block(OsAllocatorStart)}
  OBVIOUS
<1>2. Linked = {OsAllocatorStart} /\ size[OsAllocatorStart] # 0
  BY <1>1, BeyondIsChained, LinkedIsNodes
<1>3. QED
  BY <1>2 DEF Blocks, Block

(* The free bytes are those that the sum over the gaps counts. *)
LEMMA FreeIs ==
  ASSUME HeapInv
  PROVE  Free = FreeBelow(Ceiling)
<1> USE MemManAssumption
<1> DEFINE covered == UNION {b.at .. b.at + b.size - 1 : b \in Blocks}
<1>1. Free = (OsAllocatorStart .. Ceiling - 1) \ covered
  BY DEF Free
<1>2. \A a \in Nodes : a \in Nat /\ size[a] \in Nat
  BY NodeFacts
<1>3. OsAllocatorStart \in Nat
  BY NodeFacts
<1>4. ASSUME NEW x \in OsAllocatorStart .. Ceiling - 1
      PROVE  x \in covered <=> \E a \in Nodes : a <= x /\ x < EndOf(a)
  <2>1. x \in Int
    BY <1>3
  <2>2. CASE held = {}
    <3>1. Blocks = {} /\ Nodes = {OsAllocatorStart} /\ size[OsAllocatorStart] = 0
      BY <2>2, BlocksAre DEF Nodes, HeapInv, BlocksAreWhole
    <3>2. EndOf(OsAllocatorStart) = OsAllocatorStart
      BY <1>3, <3>1 DEF EndOf
    <3>3. QED
      BY <1>3, <2>1, <3>1, <3>2
  <2>3. CASE held # {}
    <3>1. Blocks = {Block(a) : a \in Nodes}
      BY <2>3, BlocksAre
    <3>2. \A a : Block(a).at = a /\ Block(a).size = size[a]
      BY DEF Block
    <3>3. x \in covered <=> \E a \in Nodes : x \in a .. a + size[a] - 1
      <4>1. x \in covered <=> \E b \in Blocks : x \in b.at .. b.at + b.size - 1
        OBVIOUS
      <4>2. QED
        BY <3>1, <3>2, <4>1
    <3>4. \A a \in Nodes : x \in a .. a + size[a] - 1 <=> a <= x /\ x < EndOf(a)
      BY <1>2, <2>1 DEF EndOf
    <3>5. QED
      BY <3>3, <3>4
  <2>4. QED
    BY <2>2, <2>3
<1> HIDE DEF covered
<1>5. QED
  BY <1>1, <1>4 DEF FreeBelow

(* A run of free bytes lies in one gap. *)
LEMMA RunIsInGap ==
  ASSUME HeapInv, held # {}, NEW x \in Nat, NEW r \in Nat \ {0},
         x .. x + r - 1 \subseteq FreeBelow(Ceiling)
  PROVE  \E a \in Nodes : r <= GapAt(a)
<1> USE MemManAssumption
<1>1. \A a \in Nodes : /\ a \in Nat /\ NextOr(a) \in Nat /\ EndOf(a) \in Nat /\ size[a] \in Nat
                       /\ OsAllocatorStart <= a /\ NextOr(a) <= Ceiling
  BY NodeFacts
<1>2. OsAllocatorStart \in Nodes
  BY NodeFacts
<1>3. \A y \in x .. x + r - 1 : /\ OsAllocatorStart <= y /\ y < Ceiling
                                /\ \A b \in Nodes : ~(b <= y /\ y < EndOf(b))
  BY <1>1, <1>2 DEF FreeBelow
<1>4. x \in x .. x + r - 1 /\ x + r - 1 \in x .. x + r - 1
  OBVIOUS
<1> DEFINE Below == {a \in Nodes : a <= x}
<1>5. Below \in SUBSET Int /\ Below # {} /\ \A y \in Below : y <= x
  <2>1. OsAllocatorStart \in Below
    BY <1>2, <1>3, <1>4
  <2>2. QED
    BY <1>1, <2>1
<1>6. PICK a \in Below : \A y \in Below : y <= a
  <2> HIDE DEF Below
  <2>1. x \in Int
    OBVIOUS
  <2>2. QED
    BY <1>5, <2>1, GreatestNumber
<1>7. a \in Nodes /\ EndOf(a) <= x
  BY <1>1, <1>3, <1>4, <1>6
<1>8. x + r <= NextOr(a)
  <2>1. CASE next[a] = NULL
    BY <1>3, <1>4, <2>1 DEF NextOr
  <2>2. CASE next[a] # NULL
    <3>1. next[a] \in Nodes /\ NextOr(a) = next[a] /\ a < next[a]
      BY <1>7, <2>2 DEF HeapInv, LinksAscend, NextOr
    <3>2. PICK c \in Nodes : c = next[a]
      BY <3>1
    <3>3. c \in Nat /\ x < c
      BY <1>1, <1>6, <3>1, <3>2
    <3>4. c < EndOf(c)
      BY <1>1, <3>3 DEF HeapInv, BlocksAreWhole, EndOf
    <3>5. c \notin x .. x + r - 1
      BY <1>3, <3>4
    <3>6. QED
      BY <3>1, <3>2, <3>3, <3>5
  <2>3. QED
    BY <2>1, <2>2
<1>9. r <= GapAt(a)
  BY <1>1, <1>7, <1>8 DEF GapAt
<1>10. QED
  BY <1>7, <1>9

(* The types, *)
LEMMA TypesFollow == ManagerInv => TypeOK
<1>1. OrderInv => TypeOK
  BY DEF OrderInv, HeapInv, RegistersInv, TypeOK
<1>2. BeyondInv => TypeOK
  BY DEF BeyondInv, RegistersInv, TypeOK
<1>3. QED
  BY <1>1, <1>2 DEF ManagerInv

(* the agreement of the list with the pointers, *)
LEMMA HeldFollows == ManagerInv => HeldIsLinked
<1> USE MemManAssumption
<1>1. CASE BeyondInv
  <2>1. Blocks = {Block(OsAllocatorStart)} /\ held = {OsAllocatorStart + SIZEOF}
    BY <1>1, BeyondBlocks DEF BeyondInv
  <2>2. Block(OsAllocatorStart).at = OsAllocatorStart
    BY DEF Block
  <2>3. QED
    BY <2>1, <2>2 DEF HeldIsLinked
<1>2. SUFFICES ASSUME HeapInv
               PROVE  held = {b.at + SIZEOF : b \in Blocks}
  BY <1>1 DEF HeldIsLinked, ManagerInv, OrderInv
<1>3. CASE held = {}
  BY <1>2, <1>3, BlocksAre
<1>4. CASE held # {}
  <2>1. Blocks = {Block(a) : a \in Nodes}
    BY <1>2, <1>4, BlocksAre
  <2>2. {b.at + SIZEOF : b \in Blocks} = {a + SIZEOF : a \in Nodes}
    <3>1. \A a : Block(a).at = a
      BY DEF Block
    <3>2. QED
      BY <2>1, <3>1
  <2>3. \A p \in held : p \in Int /\ Header(p) + SIZEOF = p
    BY <1>2 DEF HeapInv, Slots, Header
  <2>4. {a + SIZEOF : a \in Nodes} = held
    BY <1>2, <1>4, <2>3 DEF Nodes, HeapInv
  <2>5. QED
    BY <2>2, <2>4
<1>5. QED
  BY <1>3, <1>4

(* the truth of the answers *)
LEMMA AnswersFollow ==
  ASSUME NoWrap, ManagerInv
  PROVE  AnswersAreExact
<1> USE MemManAssumption
<1>1. SUFFICES ASSUME at = "program", InRam, HeapInv, AnswerInv
               PROVE  /\ call.routine = "MemAvail" => d0 = Cardinality(Free)
                      /\ call.routine = "MemAlloc" /\ d0 = 0 =>
                           \A a \in Slots : ~(a .. a + Rounded(call.argument) - 1 \subseteq Free)
  <2>1. BeyondInv => ~InRam
    <3>1. ASSUME BeyondInv
          PROVE  ~InRam
      <4>1. size[OsAllocatorStart] \in Nat /\ OsAllocatorStart \in Slots
        BY <3>1, BeyondIsChained DEF BeyondInv
      <4>2. PICK e \in Nat : e = EndOf(OsAllocatorStart)
        BY <4>1 DEF EndOf, Slots
      <4>3. QED
        BY <3>1, <4>2 DEF BeyondInv, InRam, EndOf
    <3>2. QED
      BY <3>1
  <2>2. QED
    BY <2>1 DEF AnswersAreExact, ManagerInv, OrderInv
<1>2. ASSUME call.routine = "MemAvail"
      PROVE  d0 = Cardinality(Free)
  BY <1>1, <1>2, FreeIs DEF AnswerInv
<1>3. ASSUME call.routine = "MemAlloc", d0 = 0, NEW a \in Slots,
             a .. a + Rounded(call.argument) - 1 \subseteq Free
      PROVE  FALSE
  <2>1. /\ held # {} /\ call.argument \in Requests
        /\ \A b \in Nodes : GapAt(b) < Rounded(call.argument)
    BY <1>1, <1>3 DEF AnswerInv
  <2>2. PICK r \in Nat \ {0} : r = Rounded(call.argument)
    <3>1. Rounded(call.argument) \in Nat /\ 2 * SIZEOF <= Rounded(call.argument)
      BY <2>1, RoundedIs
    <3>2. QED
      BY <3>1
  <2>3. a \in Nat
    BY DEF Slots
  <2>4. a .. a + r - 1 \subseteq FreeBelow(Ceiling)
    BY <1>1, <1>3, <2>2, FreeIs
  <2>5. \E b \in Nodes : r <= GapAt(b)
    BY <1>1, <2>1, <2>3, <2>4, RunIsInGap
  <2>6. QED
    BY <1>1, <2>1, <2>2, <2>5, NodeFacts
<1>4. QED
  BY <1>2, <1>3

(* and the extent of a block that is granted follow from the invariant. *)
LEMMA GrantFollows ==
  ASSUME NoWrap, ManagerInv
  PROVE  GrantIsRam
<1> USE MemManAssumption
<1>1. SUFFICES ASSUME at = "program", call.routine = "MemAlloc", d0 # 0
               PROVE  LET entry == d0 - SIZEOF
                          end   == entry + size[entry]
                      IN  /\ d0 + call.argument <= end
                          /\ end <= Ceiling \/ entry = OsAllocatorStart
  BY DEF GrantIsRam
<1>2. d0 \in Nat
  BY DEF ManagerInv, OrderInv, BeyondInv, RegistersInv, Words
<1>3. ASSUME call.argument \in FirstRequests \cup Requests,
             size[d0 - SIZEOF] = Rounded(call.argument)
      PROVE  d0 + call.argument <= d0 - SIZEOF + size[d0 - SIZEOF]
  <2>1. PICK n \in Nat : n = call.argument /\ n + SIZEOF <= Rounded(n) /\ Rounded(n) \in Nat
    BY <1>3, RoundedIs
  <2>2. QED
    BY <1>2, <1>3, <2>1
<1>4. CASE OrderInv
  <2>1. /\ d0 \in held /\ size[d0 - SIZEOF] = Rounded(call.argument)
        /\ call.argument \in FirstRequests \cup Requests
    BY <1>1, <1>4 DEF OrderInv, AnswerInv, Header
  <2>2. PICK a \in Nodes : a = d0 - SIZEOF
    BY <2>1 DEF Nodes, Header
  <2>3. EndOf(a) <= Ceiling
    <3>1. HeapInv
      BY <1>4 DEF OrderInv
    <3>2. EndOf(a) <= NextOr(a) /\ NextOr(a) <= Ceiling /\ EndOf(a) \in Nat /\ NextOr(a) \in Nat
      BY <3>1, NodeFacts DEF HeapInv, LinksAscend
    <3>3. QED
      BY <3>2
  <2>4. QED
    BY <1>3, <2>1, <2>2, <2>3 DEF EndOf
<1>5. CASE BeyondInv
  <2>1. /\ d0 = OsAllocatorStart + SIZEOF /\ OsAllocatorStart \in Slots
        /\ call.argument \in FirstRequests /\ size[OsAllocatorStart] = Rounded(call.argument)
    BY <1>1, <1>5 DEF BeyondInv
  <2>2. d0 - SIZEOF = OsAllocatorStart
    BY <2>1 DEF Slots
  <2>3. QED
    BY <1>3, <2>1, <2>2
<1>6. QED
  BY <1>4, <1>5 DEF ManagerInv

(* Where a header lies, or will lie, there is no program's data. *)
LEMMA NotOwned ==
  ASSUME HeapInv, NEW x \in Nat,
         \A b \in Nodes : ~(b < x /\ x < EndOf(b))
  PROVE  ~Owned(x)
<1> USE MemManAssumption
<1>1. SUFFICES ASSUME NEW p \in held, p <= x, x < p - SIZEOF + size[p - SIZEOF]
               PROVE  FALSE
  BY DEF Owned
<1>2. PICK b \in Nodes : b = p - SIZEOF
  BY DEF Nodes, Header
<1>3. p \in Int
  BY DEF HeapInv, Slots
<1>4. b \in Nat /\ EndOf(b) = b + size[b]
  BY NodeFacts DEF EndOf
<1>5. b < x /\ x < EndOf(b)
  BY <1>1, <1>2, <1>3, <1>4
<1>6. QED
  BY <1>5

(* No program owns a header, *)
LEMMA HeadersAreNotOwned ==
  ASSUME HeapInv, NEW a \in Nodes
  PROVE  ~Owned(a)
<1>1. \A b \in Nodes : /\ b \in Nat /\ NextOr(b) \in Nat /\ EndOf(b) \in Nat
                       /\ EndOf(b) <= NextOr(b) /\ (b < a => NextOr(b) <= a)
  BY NodeFacts DEF HeapInv, LinksAscend
<1>2. \A b \in Nodes : ~(b < a /\ a < EndOf(b))
  BY <1>1
<1>3. a \in Nat
  BY <1>1
<1>4. QED
  BY <1>2, <1>3, NotOwned

(* nor the place of the next one. *)
LEMMA NewEntryIsNotOwned ==
  ASSUME HeapInv, a2 \in Nodes, NEW r \in Nat, r > 0, r <= GapAt(a2), held # {}
  PROVE  ~Owned(NewEntry)
<1>1. PICK e \in Nat : e = NewEntry /\ a2 < e /\ e + r <= NextOr(a2) /\ e = EndOf(a2)
  BY NewEntryFacts DEF Slots
<1>2. PICK c \in Nodes : c = a2
  OBVIOUS
<1>3. \A b \in Nodes : /\ b \in Nat /\ NextOr(b) \in Nat /\ EndOf(b) \in Nat
                       /\ EndOf(b) <= NextOr(b) /\ (b < c => NextOr(b) <= c)
                       /\ (c < b => NextOr(c) <= b)
  BY NodeFacts DEF HeapInv, LinksAscend
<1>4. ASSUME NEW b \in Nodes, b < e, e < EndOf(b)
      PROVE  FALSE
  <2>1. CASE b = c
    BY <1>1, <1>2, <1>3, <1>4, <2>1
  <2>2. CASE b < c
    BY <1>1, <1>2, <1>3, <1>4, <2>2
  <2>3. CASE c < b
    BY <1>1, <1>2, <1>3, <1>4, <2>3
  <2>4. QED
    BY <1>3, <2>1, <2>2, <2>3
<1>5. QED
  BY <1>1, <1>4, NotOwned

(* No step changes a place that a program owns before and after it. *)
LEMMA DataStep ==
  ASSUME NoWrap, ManagerInv, [Next]_vars
  PROVE  [at # "program" => \A a \in Slots :
            Owned(a) /\ Owned(a)' => next'[a] = next[a] /\ size'[a] = size[a]]_vars
<1> USE MemManAssumption
<1>1. SUFFICES ASSUME at # "program", NEW a \in Slots, Owned(a)
               PROVE  next'[a] = next[a] /\ size'[a] = size[a]
  OBVIOUS
<1>2. a \in Nat
  BY DEF Slots
<1>3. next \in [Slots -> Words] /\ size \in [Slots -> Words]
  BY DEF ManagerInv, OrderInv, HeapInv, BeyondInv
<1>4. CASE SameHeap
  BY <1>4 DEF SameHeap, heap
<1>5. CASE SlotFound
  <2>1. /\ held # {} /\ call.argument \in Requests /\ d0 = Rounded(call.argument)
        /\ a2 \in Nodes /\ d2 = GapAt(a2) /\ d0 <= d2 /\ HeapInv
    BY <1>5 DEF SlotFound, ManagerInv, BeyondInv, OrderInv, SearchInv
  <2>2. PICK r \in Nat : r = d0 /\ r > 0 /\ r <= GapAt(a2)
    <3>1. Rounded(call.argument) \in Nat /\ 2 * SIZEOF <= Rounded(call.argument)
      BY <2>1, RoundedIs
    <3>2. QED
      BY <2>1, <3>1
  <2>3. a # NewEntry
    BY <1>1, <2>1, <2>2, NewEntryIsNotOwned
  <2>4. a # a2
    BY <1>1, <2>1, HeadersAreNotOwned
  <2>5. /\ next' = [next EXCEPT ![NewEntry] = next[a2], ![a2] = NewEntry]
        /\ size' = [size EXCEPT ![NewEntry] = d0]
    BY <1>5 DEF SlotFound, Link, StoreEntry
  <2>6. QED
    BY <1>3, <2>3, <2>4, <2>5
<1>6. CASE FoundSlot
  <2>1. a1 \in Nodes /\ a2 \in Nodes /\ HeapInv
    <3>1. ~BeyondInv
      BY <1>6 DEF FoundSlot, BeyondInv, Slots, NULL
    <3>2. QED
      BY <1>6, <3>1 DEF FoundSlot, ManagerInv, OrderInv, FreeInv
  <2>2. a # a1 /\ a # a2
    BY <1>1, <2>1, HeadersAreNotOwned
  <2>3. /\ next' = [next EXCEPT ![a2] = next[a1], ![a1] = NULL]
        /\ size' = [size EXCEPT ![a1] = 0]
    BY <1>6 DEF FoundSlot
  <2>4. QED
    BY <1>3, <2>2, <2>3
<1>7. CASE \/ \E loadEnd \in LoadEnds : MemInit(loadEnd)
           \/ \E n \in FirstRequests : MemAllocInitial(n)
  BY <1>1, <1>7 DEF MemInit, MemAllocInitial
<1>8. QED
  BY <1>4, <1>5, <1>6, <1>7, HeapStays DEF Next, Walk

-----------------------------------------------------------------------------
(***************************************************************************)
(* The promise to programs.                                                *)
(***************************************************************************)
LEMMA GapsAre ==
  ASSUME HeapInv, held # {}
  PROVE  Promise!Gaps = {[at |-> EndOf(a), size |-> GapAt(a)] : a \in Nodes}
<1> USE MemManAssumption
<1>1. Blocks = {Block(a) : a \in Nodes}
  BY BlocksAre
<1>2. \A a : Block(a).at = a /\ Block(a).size = size[a]
  BY DEF Block
<1>3. \A a \in Nodes : /\ a \in Nat /\ NextOr(a) \in Nat /\ EndOf(a) \in Nat /\ a < Ceiling
                       /\ NextOr(a) <= Ceiling
  BY NodeFacts
<1>4. ASSUME NEW a \in Nodes
      PROVE  Promise!NextAt(Block(a)) = NextOr(a) /\ Promise!End(Block(a)) = EndOf(a)
  <2>1. Promise!Behind(Block(a)) = {c \in Nodes : a < c} \cup {Ceiling}
    <3>1. ASSUME NEW x
          PROVE  x \in {c.at : c \in {c \in Blocks : c.at > Block(a).at}}
                   <=> x \in {c \in Nodes : a < c}
      <4>1. x \in {c.at : c \in {c \in Blocks : c.at > Block(a).at}}
              <=> \E c \in Blocks : c.at > a /\ x = c.at
        BY <1>2
      <4>2. (\E c \in Blocks : c.at > a /\ x = c.at) <=> \E c \in Nodes : c > a /\ x = c
        BY <1>1, <1>2
      <4>3. QED
        BY <1>3, <4>1, <4>2
    <3>2. QED
      BY <3>1 DEF Promise!Behind
  <2> DEFINE B == Promise!Behind(Block(a))
  <2>2. NextOr(a) \in B /\ \A f \in B : NextOr(a) <= f
    BY <1>3, <2>1 DEF HeapInv, LinksAscend, NextOr
  <2>3. \A e \in B : (\A f \in B : e <= f) => e = NextOr(a)
    BY <1>3, <2>1, <2>2
  <2>4. Promise!NextAt(Block(a)) = CHOOSE e \in B : \A f \in B : e <= f
    BY DEF Promise!NextAt
  <2> HIDE DEF B
  <2>5. Promise!NextAt(Block(a)) = NextOr(a)
    BY <2>2, <2>3, <2>4
  <2>6. Promise!End(Block(a)) = EndOf(a)
    BY <1>2 DEF Promise!End, EndOf
  <2>7. QED
    BY <2>5, <2>6
<1>5. Promise!Gaps = {[at |-> Promise!End(b), size |-> Promise!NextAt(b) - Promise!End(b)] : b \in Blocks}
  BY DEF Promise!Gaps
<1>6. Promise!Gaps = {[at |-> Promise!End(Block(a)),
                       size |-> Promise!NextAt(Block(a)) - Promise!End(Block(a))] : a \in Nodes}
  BY <1>1, <1>5
<1>7. QED
  BY <1>4, <1>6 DEF GapAt

(* At first nothing is allocated. *)
LEMMA PromiseStarts ==
  ASSUME Init
  PROVE  Promise!Init
<1>1. HeapInv /\ held = {}
  BY ManagerStarts DEF OrderInv, Init
<1>2. Blocks = {}
  BY <1>1, BlocksAre
<1>3. OsAllocatorStart \in 0 .. Ceiling - 1
  BY <1>1 DEF HeapInv, Slots
<1>4. QED
  BY <1>2, <1>3 DEF Promise!Init

(* A call that returns takes one step of the promise, the others none. *)
LEMMA PromiseOrderStep ==
  ASSUME NoWrap, FirstFits, OrderInv, [Next]_vars
  PROVE  [Promise!Next]_<<OsAllocatorStart, Blocks>>
<1> USE MemManAssumption DEF OrderInv
<1>1. HeapInv'
  BY HeapStep
<1>2. (HeapInv => Blocks = IF held = {} THEN {} ELSE {Block(a) : a \in Nodes})'
  BY BlocksAre, PTL
<1>3. /\ held = {} => Blocks = {}
      /\ held # {} => Blocks = {Block(a) : a \in Nodes}
  BY BlocksAre
<1>4. /\ held' = {} => Blocks' = {}
      /\ held' # {} => Blocks' = {Block(a)' : a \in Nodes'}
  BY <1>1, <1>2
<1>5. \A a : Block(a) = [at |-> a, size |-> size[a]] /\ Block(a)' = [at |-> a, size |-> size'[a]]
  BY DEF Block
<1>6. CASE SameHeap
  <2>1. Nodes' = Nodes /\ held' = held /\ size' = size /\ OsAllocatorStart' = OsAllocatorStart
    BY <1>6, HeapKept DEF SameHeap, heap
  <2>2. \A a : Block(a)' = Block(a)
    BY <1>5, <2>1
  <2>3. {Block(a)' : a \in Nodes'} = {Block(a) : a \in Nodes}
    BY <2>1, <2>2
  <2>4. Blocks' = Blocks
    BY <1>3, <1>4, <2>1, <2>3
  <2>5. QED
    BY <2>1, <2>4
<1>7. CASE \E loadEnd \in LoadEnds : MemInit(loadEnd)
  <2>1. held' = {}
    BY <1>7 DEF MemInit
  <2>2. OsAllocatorStart' \in 0 .. Ceiling - 1
    BY <1>1 DEF HeapInv, Slots
  <2>3. Promise!Boot
    BY <1>4, <2>1, <2>2 DEF Promise!Boot
  <2>4. QED
    BY <2>3 DEF Promise!Next
<1>8. CASE \E n \in FirstRequests : MemAllocInitial(n)
  <2>1. PICK n \in FirstRequests : MemAllocInitial(n)
    BY <1>8
  <2>2. OsAllocatorStart + Rounded(n) <= Ceiling
    BY <2>1 DEF FirstFits
  <2>3. PICK s \in Nodes : s = OsAllocatorStart
    BY NodeFacts
  <2>4. PICK r \in Nat : r = Rounded(n) /\ r >= 1 /\ r < Word
    BY RoundedIs
  <2>5. /\ Nodes = {s} /\ Nodes' = {s} /\ held = {} /\ held' # {}
        /\ size'[s] = r
    BY <2>1, <2>2, <2>3, <2>4, FirstHeap
  <2>6. Blocks = {} /\ Blocks' = {[at |-> s, size |-> r]}
    BY <1>3, <1>4, <1>5, <2>5
  <2>7. r \in 1 .. Word - 1
    BY <2>4
  <2>8. OsAllocatorStart' = OsAllocatorStart
    BY <2>1 DEF MemAllocInitial
  <2>9. Promise!GrantFirst(r)
    BY <2>3, <2>6, <2>8 DEF Promise!GrantFirst
  <2>10. QED
    BY <2>7, <2>9 DEF Promise!Next
<1>9. CASE SlotFound
  <2>1. /\ held # {} /\ call.argument \in Requests /\ d0 = Rounded(call.argument)
        /\ a2 \in Nodes /\ d2 = GapAt(a2) /\ d0 <= d2
        /\ \A a \in Nodes : d0 <= GapAt(a) => d2 <= GapAt(a)
    BY <1>9 DEF SlotFound, SearchInv, Seen
  <2>2. PICK r \in Nat : /\ r = d0 /\ r >= 1 /\ r <= GapAt(a2)
                         /\ r \in Words /\ r % SIZEOF = 0 /\ 2 * SIZEOF <= r
    <3>1. /\ Rounded(call.argument) \in Nat /\ 2 * SIZEOF <= Rounded(call.argument)
          /\ Rounded(call.argument) % SIZEOF = 0 /\ Rounded(call.argument) < Word
      BY <2>1, RoundedIs
    <3>2. PICK q \in Nat : q = Rounded(call.argument) /\ q < Word /\ 2 * SIZEOF <= q /\ q % SIZEOF = 0
      BY <3>1
    <3>3. q >= 1 /\ q \in Words
      BY <3>2 DEF Words
    <3>4. QED
      BY <2>1, <3>2, <3>3
  <2>3. /\ Nodes' = Nodes \cup {NewEntry} /\ held' # {}
        /\ \A a \in Nodes : size'[a] = size[a]
        /\ size'[NewEntry] = r
    BY <1>9, <2>1, <2>2, GrantHeap
  <2>4. PICK e \in Nat : e = NewEntry /\ e = EndOf(a2)
    BY <2>1, <2>2, NewEntryFacts DEF Slots
  <2>5. Blocks' = Blocks \cup {[at |-> e, size |-> r]}
    <3>1. Blocks = {Block(a) : a \in Nodes} /\ Blocks' = {Block(a)' : a \in Nodes'}
      BY <1>3, <1>4, <2>1, <2>3
    <3>2. \A a \in Nodes : Block(a)' = Block(a)
      BY <1>5, <2>3
    <3>3. Block(e)' = [at |-> e, size |-> r]
      BY <1>5, <2>3, <2>4
    <3>4. {Block(a)' : a \in Nodes \cup {e}} = {Block(a)' : a \in Nodes} \cup {Block(e)'}
      OBVIOUS
    <3>5. {Block(a)' : a \in Nodes} = {Block(a) : a \in Nodes}
      BY <3>2
    <3>6. QED
      BY <2>3, <2>4, <3>1, <3>3, <3>4, <3>5
  <2> DEFINE g == [at |-> EndOf(a2), size |-> GapAt(a2)]
  <2>6. g \in Promise!Gaps
    BY <2>1, GapsAre
  <2>7. r <= g.size /\ g.at = e
    BY <2>2, <2>4
  <2>8. ASSUME NEW h \in Promise!Gaps, r <= h.size
        PROVE  g.size <= h.size
    <3>1. PICK a \in Nodes : h = [at |-> EndOf(a), size |-> GapAt(a)]
      BY <2>1, GapsAre
    <3>2. r <= GapAt(a)
      BY <2>8, <3>1
    <3>3. QED
      BY <2>1, <2>2, <3>1, <3>2
  <2>9. OsAllocatorStart' = OsAllocatorStart
    BY <1>9 DEF SlotFound
  <2>10. Blocks' = Blocks \cup {[at |-> g.at, size |-> r]}
    BY <2>5, <2>7
  <2>11. Promise!Grant(r)
    <3> HIDE DEF g
    <3>1. QED
      BY <2>6, <2>7, <2>8, <2>9, <2>10 DEF Promise!Grant
  <2>12. r \in 1 .. Word - 1
    <3>1. GapAt(a2) \in Nat /\ GapAt(a2) < Ceiling
      BY <2>1, NodeFacts
    <3>2. QED
      BY <2>2, <3>1
  <2>13. QED
    BY <2>11, <2>12 DEF Promise!Next
<1>10. CASE FoundSlot
  <2>1. a1 \in Nodes /\ a2 \in Nodes /\ a1 = next[a2] /\ a0 = a1
    BY <1>10 DEF FoundSlot, FreeInv
  <2>2. /\ Nodes' = Nodes \ {a1} /\ a1 # OsAllocatorStart /\ held # {} /\ held' # {}
        /\ \A a \in Nodes' : size'[a] = size[a]
    BY <1>10, <2>1, ReleaseHeap
  <2>3. Blocks = {Block(a) : a \in Nodes} /\ Blocks' = {Block(a)' : a \in Nodes'}
    BY <1>3, <1>4, <2>2
  <2>4. \A a \in Nodes \ {a1} : Block(a)' = Block(a)
    BY <1>5, <2>2
  <2>5. {Block(a)' : a \in Nodes \ {a1}} = {Block(a) : a \in Nodes \ {a1}}
    BY <2>4
  <2>6. {Block(a) : a \in Nodes \ {a1}} = {Block(a) : a \in Nodes} \ {Block(a1)}
    <3>1. \A a, b : Block(a) = Block(b) => a = b
      <4>1. \A a : Block(a).at = a
        BY <1>5
      <4>2. QED
        BY <4>1
    <3>2. QED
      BY <3>1
  <2>7. Blocks' = Blocks \ {Block(a1)} /\ Block(a1) \in Blocks /\ Block(a1).at = a1
    BY <1>5, <2>1, <2>2, <2>3, <2>5, <2>6
  <2>8. OsAllocatorStart' = OsAllocatorStart
    BY <1>10 DEF FoundSlot
  <2>9. Promise!Release
    BY <2>2, <2>7, <2>8 DEF Promise!Release
  <2>10. QED
    BY <2>9 DEF Promise!Next
<1>11. QED
  BY <1>6, <1>7, <1>8, <1>9, <1>10, HeapStays DEF Next, Walk


(* The block that ends beyond the RAM is a first one too. *)
LEMMA PromiseBeyondStarts ==
  ASSUME NoWrap, OrderInv, NEW n \in FirstRequests, MemAllocInitial(n),
         ~(OsAllocatorStart + Rounded(n) <= Ceiling)
  PROVE  Promise!Next
<1> USE MemManAssumption
<1>1. BeyondInv'
  BY BeyondStarts
<1>2. (BeyondInv => Blocks = {Block(OsAllocatorStart)})'
  BY BeyondBlocks, PTL
<1>3. HeapInv /\ held = {}
  BY NothingHeld DEF OrderInv, MemAllocInitial
<1>4. Blocks = {}
  BY <1>3, BlocksAre
<1>5. PICK s \in Slots : s = OsAllocatorStart
  BY <1>3 DEF HeapInv
<1>6. PICK r \in 1 .. Word - 1 : r = Rounded(n)
  BY RoundedIs
<1>7. OsAllocatorStart' = s /\ size' = [size EXCEPT ![s] = r]
  BY <1>5, <1>6 DEF MemAllocInitial, StoreEntry
<1>8. size'[s] = r
  BY <1>3, <1>7 DEF HeapInv
<1>9. Block(OsAllocatorStart)' = [at |-> s, size |-> r]
  BY <1>7, <1>8 DEF Block
<1>10. Blocks' = {[at |-> s, size |-> r]}
  BY <1>1, <1>2, <1>9
<1>11. Promise!GrantFirst(r)
  BY <1>4, <1>5, <1>7, <1>10 DEF Promise!GrantFirst
<1>12. QED
  BY <1>6, <1>11 DEF Promise!Next

(* It stays until another system is booted. *)
LEMMA PromiseBeyondStep ==
  ASSUME BeyondInv, [Next]_vars
  PROVE  [Promise!Next]_<<OsAllocatorStart, Blocks>>
<1> USE MemManAssumption
<1>1. (BeyondInv => Blocks = {Block(OsAllocatorStart)})'
  BY BeyondBlocks, PTL
<1>2. (HeapInv => Blocks = IF held = {} THEN {} ELSE {Block(a) : a \in Nodes})'
  BY BlocksAre, PTL
<1>3. CASE \E loadEnd \in LoadEnds : MemInit(loadEnd)
  <2>1. HeapInv'
    BY <1>3, BeyondEnds DEF OrderInv
  <2>2. Blocks' = {}
    BY <1>2, <1>3, <2>1 DEF MemInit
  <2>3. OsAllocatorStart' \in 0 .. Ceiling - 1
    BY <2>1 DEF HeapInv, Slots
  <2>4. QED
    BY <2>2, <2>3 DEF Promise!Boot, Promise!Next
<1>4. CASE ~(\E loadEnd \in LoadEnds : MemInit(loadEnd))
  <2>1. BeyondInv' /\ SameHeap
    BY <1>4, BeyondStays
  <2>2. OsAllocatorStart' = OsAllocatorStart /\ size' = size
    BY <2>1 DEF SameHeap, heap
  <2>3. Block(OsAllocatorStart)' = Block(OsAllocatorStart)
    BY <2>2 DEF Block
  <2>4. Blocks' = Blocks
    BY <1>1, <2>1, <2>3, BeyondBlocks
  <2>5. QED
    BY <2>2, <2>4
<1>5. QED
  BY <1>3, <1>4

LEMMA PromiseStep ==
  ASSUME NoWrap, ManagerInv, [Next]_vars
  PROVE  [Promise!Next]_<<OsAllocatorStart, Blocks>>
<1>1. CASE OrderInv /\ FirstFits
  BY <1>1, PromiseOrderStep
<1>2. CASE OrderInv /\ ~FirstFits
  BY <1>2, PromiseBeyondStarts DEF FirstFits
<1>3. CASE BeyondInv
  BY <1>3, PromiseBeyondStep
<1>4. QED
  BY <1>1, <1>2, <1>3 DEF ManagerInv

-----------------------------------------------------------------------------
(* The registers, the headers and the pointers keep their types. *)
THEOREM ManagerTypes == NoWrap => (Spec => []TypeOK)
<1>1. SUFFICES ASSUME NoWrap
               PROVE  Spec => []TypeOK
  OBVIOUS
<1>2. Spec => []ManagerInv
  BY <1>1, ManagerIsInvariant
<1>3. QED
  BY <1>2, TypesFollow, PTL

(* The list and the pointers programs hold agree, whatever is freed, and
   however often. *)
THEOREM HeldBlocksAreLinked == NoWrap => (Spec => []HeldIsLinked)
<1>1. SUFFICES ASSUME NoWrap
               PROVE  Spec => []HeldIsLinked
  OBVIOUS
<1>2. Spec => []ManagerInv
  BY <1>1, ManagerIsInvariant
<1>3. QED
  BY <1>2, HeldFollows, PTL

(* MemAvail adds up the free bytes, and MemAlloc refuses only what no run of
   free bytes holds. *)
THEOREM AnswersAreTrue == NoWrap => (Spec => []AnswersAreExact)
<1>1. SUFFICES ASSUME NoWrap
               PROVE  Spec => []AnswersAreExact
  OBVIOUS
<1>2. Spec => []ManagerInv
  BY <1>1, ManagerIsInvariant
<1>3. ManagerInv => AnswersAreExact
  BY <1>1, AnswersFollow
<1>4. QED
  BY <1>2, <1>3, PTL

(* The block behind a pointer that MemAlloc returns holds what was asked for
   and ends below the ceiling; only the first of the heap, which the code does
   not check, may end beyond. *)
THEOREM GrantsAreRam == NoWrap => (Spec => []GrantIsRam)
<1>1. SUFFICES ASSUME NoWrap
               PROVE  Spec => []GrantIsRam
  OBVIOUS
<1>2. Spec => []ManagerInv
  BY <1>1, ManagerIsInvariant
<1>3. ManagerInv => GrantIsRam
  BY <1>1, GrantFollows
<1>4. QED
  BY <1>2, <1>3, PTL

(* No call writes a header over the data of a program. *)
THEOREM DataSurvives == NoWrap => (Spec => DataIsKept)
<1>1. SUFFICES ASSUME NoWrap
               PROVE  Spec => DataIsKept
  OBVIOUS
<1>2. Spec => []ManagerInv
  BY <1>1, ManagerIsInvariant
<1>3. ManagerInv /\ [Next]_vars =>
        [at # "program" => \A a \in Slots :
           Owned(a) /\ Owned(a)' => next'[a] = next[a] /\ size'[a] = size[a]]_vars
  BY <1>1, DataStep
<1>4. QED
  BY <1>2, <1>3, PTL DEF Spec, DataIsKept

(* The manager implements the allocator: blocks that do not overlap, each but
   the first cut from a smallest gap that holds it. *)
THEOREM ManagerAllocates == NoWrap => (Spec => Allocates)
<1>1. SUFFICES ASSUME NoWrap
               PROVE  Spec => Allocates
  OBVIOUS
<1>2. Spec => []ManagerInv
  BY <1>1, ManagerIsInvariant
<1>3. Init => Promise!Init
  BY PromiseStarts
<1>4. ManagerInv /\ [Next]_vars => [Promise!Next]_<<OsAllocatorStart, Blocks>>
  BY <1>1, PromiseStep
<1>5. QED
  BY <1>2, <1>3, <1>4, PTL DEF Spec, Allocates, Promise!Spec

=============================================================================
