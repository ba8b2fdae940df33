-------------------------- MODULE FileSystemProofs --------------------------
(***************************************************************************)
(* What holds of FileSystem on every disk and for every path that the code *)
(* can read (DiskAssumption), proved.  All four properties follow from one *)
(* invariant, which says for every context how its block, sectors, offset  *)
(* and bytes left place it in its file or directory, and for a path lookup *)
(* which object the part of the path before A5 has led to.                 *)
(***************************************************************************)
EXTENDS FileSystem, NaturalLemmas, FiniteSetTheorems, TLAPS

-----------------------------------------------------------------------------
(***************************************************************************)
(* Where a context is.                                                     *)
(***************************************************************************)
\* An object that a context can be open for.
IsObject(o) == o \in EntryType /\ o.kind \in {"file", "dir"} /\ EntrySound(o)

\* The context as FATCreatePathContext leaves it.
Fresh(x, block) ==
  /\ x.currBlock = block /\ x.firstSec = FirstSector(block) /\ x.nextSec = x.firstSec
  /\ x.offset = 0

Describes(x, o) == x.dir = (o.kind = "dir") /\ (o.kind = "file" => x.bytesRem = o.size)

\* r sectors of cluster q of file o were read, the last one up to the offset:
\* p bytes were taken.
SectorsRead(x, o, p, q, r) ==
  /\ x.currBlock = Cluster(o, q) /\ x.firstSec = FirstSector(x.currBlock)
  /\ x.nextSec = x.firstSec + r
  /\ IF x.offset = 0 THEN p = (q * SectorsPerCluster + r) * SectorSize
     ELSE /\ r >= 1 /\ x.offset < SectorSize
          /\ p = (q * SectorsPerCluster + (r - 1)) * SectorSize + x.offset

InFile(x, o, p) ==
  /\ ~x.dir /\ p \in 0 .. o.size
  /\ \E q \in Nat, r \in 0 .. SectorsPerCluster : SectorsRead(x, o, p, q, r)

\* No entry before place i of the directory is an end.
NoEndBefore(block, i) == \A j \in 0 .. i - 1 : EntryAt(block, j).kind # "end"

\* r sectors of the directory were read, the last one up to entry `offset':
\* place i is the next.
PlaceIs(block, nextSec, offset, i, r) ==
  /\ nextSec = FirstSector(block) + r
  /\ IF offset = 0 THEN r = 0 /\ i = 0
     ELSE r >= 1 /\ i = (r - 1) * EntriesPerSector + offset

InDirectory(x, block, p) ==
  /\ x.dir /\ x.currBlock = block /\ x.offset <= EntriesPerSector
  /\ \E i \in Places(block), r \in Nat :
       PlaceIs(block, x.nextSec, x.offset, i, r) /\ NoEndBefore(block, i) /\ p = Rank(block, i)

\* The context of an object of which p bytes or entries were read.
Open(x, o, p) ==
  /\ IsObject(o)
  /\ o.kind = "file" => InFile(x, o, p) /\ x.bytesRem = o.size - p
  /\ o.kind = "dir" => InDirectory(x, o.block, p)

-----------------------------------------------------------------------------
(***************************************************************************)
(* Where a call is.                                                        *)
(***************************************************************************)
\* A scan looks at place i of the directory; the entry it looks at is in
\* DosBuffer, unless the next sector is to be read.
ScanIs(block, i, r) ==
  /\ NoEndBefore(block, i)
  /\ at = "scan" => /\ PlaceIs(block, context[c].nextSec, index, i, r)
                    /\ index % EntriesPerSector # 0 => dosBuffer = context[c].nextSec - 1
  /\ at = "entry" => /\ context[c].nextSec = FirstSector(block) + r /\ r >= 1
                     /\ i = (r - 1) * EntriesPerSector + index
                     /\ dosBuffer = context[c].nextSec - 1

\* None of the entries that the scan has passed has the name.
NoneNamed(block, name, i) == \A j \in Listed(block) : j < i => EntryAt(block, j).name # name

\* Names from the k-th on are left of the path.
LeftOf(names, k) ==
  /\ Len(path) = Len(names) - k
  /\ \A j \in 1 .. Len(path) : path[j] = names[k + j]

\* The lookup has come to object w of the way; what it looks for is there.
LookupAt(w) ==
  /\ at = "context" => /\ IsObject(w) /\ base = w.block /\ Describes(context[c], w)
  /\ at \in {"element", "scan", "entry"} =>
       /\ IsObject(w) /\ w.kind = "dir" /\ base = w.block /\ path # <<>>
  /\ at = "element" => Fresh(context[c], base) /\ context[c].dir
  /\ at \in {"scan", "entry"} =>
       /\ Head(path) # Invalid /\ ~ItselfInRoot(Head(path))
       /\ \E i \in Places(base), r \in Nat : ScanIs(base, i, r) /\ NoneNamed(base, Head(path), i)
  /\ at = "return" =>
       IF result = "ok"
       THEN /\ IsObject(w) /\ asked.found = w
            /\ Fresh(context[c], w.block) /\ Describes(context[c], w)
       ELSE result = "error" /\ asked.found = Closed

\* k names of the path were followed.
Looks(from, names, k) ==
  /\ \A j \in 0 .. Len(names) - 1 : Way(from, names)[j].kind # "file"
  /\ asked.found = Named(from, names)
  /\ LeftOf(names, k) /\ LookupAt(Way(from, names)[k])

LookupInv ==
  /\ at \in {"context", "element", "scan", "entry", "return"}
  /\ object[c] = Closed /\ pos[c] = 0 /\ out = <<>> /\ trusted
  /\ \E from \in Directories, names \in Seq(Names \cup {Invalid}) :
       \E k \in 0 .. Len(names) : Looks(from, names, k)

\* The last sector, behind all directories.
Last == CHOOSE last \in Sectors : StopsAt(last)

ListInv ==
  LET o == object[c]
      x == context[c]
  IN  /\ at \in {"scan", "entry", "return"} /\ IsObject(o)
      /\ at # "return" => out = <<>>
      /\ o.kind = "file" => /\ at = "return" /\ result = "error" /\ out = <<>>
                            /\ Open(x, o, pos[c])
      /\ o.kind = "dir" => /\ x.dir /\ x.currBlock = o.block
                           /\ at = "return" => result \in {"ok", "end"}
      /\ o.kind = "dir" /\ trusted /\ at # "return" =>
           \E i \in Places(o.block), r \in Nat : ScanIs(o.block, i, r) /\ pos[c] = Rank(o.block, i)
      /\ o.kind = "dir" /\ trusted /\ at = "return" =>
           /\ result = "end" =>
                /\ out = <<>>
                /\ \A i \in Listed(o.block) : Rank(o.block, i) # pos[c]
           /\ result = "ok" =>
                /\ \E i \in Listed(o.block) :
                     Rank(o.block, i) = pos[c] /\ out = <<EntryAt(o.block, i)>>
                /\ Open(x, o, pos[c] + 1)
      /\ at = "scan" => x.nextSec <= Last
      /\ at = "entry" => x.nextSec <= Last \/ (dosBuffer = Last /\ index = 0)

\* What ReadsInOrder says of byte i of what was read.
Right(i) ==
  \/ /\ ~trusted /\ pos[c] % SectorSize # 0
     /\ (pos[c] + i - 1) \div SectorSize = pos[c] \div SectorSize
  \/ out[i] = ByteAt(object[c], pos[c] + i - 1)

ReadInv ==
  LET o == object[c]
      x == context[c]
      total == Lesser(asked.amount, o.size - pos[c])
  IN  /\ at \in {"aligned", "cluster", "sector", "return"} /\ IsObject(o)
      /\ o.kind = "dir" => at = "return" /\ result = "error" /\ out = <<>> /\ Open(x, o, pos[c])
      /\ o.kind = "file" =>
           /\ pos[c] \in 0 .. o.size
           /\ InFile(x, o, pos[c] + Len(out))
           /\ \A i \in 1 .. Len(out) : Right(i)
           /\ at # "return" => Len(out) + left = total /\ x.bytesRem = o.size - pos[c]
           /\ at # "return" /\ left > 0 => x.offset = 0
           /\ at \in {"cluster", "sector"} => left > 0
           /\ at = "cluster" => x.nextSec >= x.firstSec + SectorsPerCluster
           /\ at = "sector" => x.nextSec < x.firstSec + SectorsPerCluster
           /\ at = "return" => /\ Len(out) = total
                               /\ x.bytesRem = o.size - (pos[c] + Len(out))
                               /\ result = IF out = <<>> THEN "end" ELSE "ok"

RestInv ==
  /\ at = "none" /\ path = <<>> /\ out = <<>> /\ index = 0
  /\ object[c] # Closed => Open(context[c], object[c], pos[c])

\* DosBuffer holds a sector as soon as one is needed.
Filled ==
  /\ \/ dosBuffer \in Sectors
     \/ index = 0 /\ at # "entry" /\ \A d \in Contexts : context[d].offset = 0
  /\ at = "entry" => index < EntriesPerSector

\* Every other context is placed in its object.
OthersOpen ==
  \A d \in Contexts : d # c /\ object[d] # Closed => Open(context[d], object[d], pos[d])

Inv ==
  /\ TypeOK /\ currentDir \in Directories
  /\ call # "lost" => Filled /\ OthersOpen
  /\ call = "lost" => at = "none"
  /\ call = "none" => RestInv
  /\ call = "FMCreateContext" => LookupInv
  /\ call = "FMReadDir" => ListInv
  /\ call = "FMReadFile" => ReadInv

-----------------------------------------------------------------------------
(***************************************************************************)
(* The disk.                                                               *)
(***************************************************************************)
LEMMA Sizes ==
  /\ SectorSize \in Nat \ {0} /\ EntriesPerSector \in Nat \ {0} /\ FatPerSector \in Nat \ {0}
  /\ SectorsPerCluster \in Nat \ {0} /\ FatStart \in Nat \ {0} /\ RootStart \in Nat \ {0}
  /\ RootSectors \in Nat \ {0} /\ DataStart \in Nat \ {0}
BY FileSystemAssumption

LEMMA SectorNumbers ==
  ASSUME NEW k \in Nat
  PROVE  /\ SectorCount(k) \in Nat \ {0} /\ FirstSector(k) \in Int
         /\ k # 1 => FirstSector(k) \in Nat \ {0}
         /\ k >= 2 => FirstSector(k) = FATClusterToSector(k)
<1> USE Sizes
<1>1. CASE k < 2
  <2>1. k - 2 \in Int
    BY <1>1
  <2>2. FATClusterToSector(k) \in Int
    BY <2>1 DEF FATClusterToSector
  <2>3. k = 0 \/ k = 1
    BY <1>1
  <2>4. QED
    BY <1>1, <2>2, <2>3 DEF SectorCount, FirstSector
<1>2. CASE k >= 2
  <2>1. PICK m \in Nat : m = k - 2
    BY <1>2
  <2>2. m * SectorsPerCluster \in Nat
    OBVIOUS
  <2>3. FATClusterToSector(k) = DataStart + m * SectorsPerCluster
    BY <2>1 DEF FATClusterToSector
  <2>4. FATClusterToSector(k) \in Nat \ {0}
    BY <2>2, <2>3
  <2>5. QED
    BY <1>2, <2>4 DEF SectorCount, FirstSector
<1>3. QED
  BY <1>1, <1>2

\* The chain of a file goes from cluster to cluster.
LEMMA ChainIs ==
  ASSUME NEW block \in Clusters
  PROVE  /\ Chain(block)[0] = block
         /\ \A n \in Nat : Chain(block)[n] \in Clusters /\ Chain(block)[n + 1] = Fat[Chain(block)[n]]
<1> DEFINE chain[k \in Nat] == IF k = 0 THEN block ELSE Fat[chain[k - 1]]
           next == [k \in Clusters |-> Fat[k]]
<1>1. Chain(block) = chain
  BY DEF Chain
<1>2. next \in [Clusters -> Clusters]
  BY FileSystemAssumption
<1>3. PICK f : Repeats(f, Clusters, block, next)
  <2> HIDE DEF next
  <2>1. QED
    BY <1>2, StepsExist
<1>4. f = [k \in Nat |-> IF k = 0 THEN block ELSE Fat[f[k - 1]]]
  <2>1. ASSUME NEW k \in Nat
        PROVE  f[k] = IF k = 0 THEN block ELSE Fat[f[k - 1]]
    <3>1. CASE k = 0
      BY <1>3, <3>1 DEF Repeats
    <3>2. CASE k # 0
      <4>1. PICK m \in Nat : m = k - 1 /\ k = m + 1
        BY <3>2
      <4>2. f[m] \in Clusters /\ f[m + 1] = next[f[m]]
        BY <1>3 DEF Repeats
      <4>3. QED
        BY <3>2, <4>1, <4>2
    <3>3. QED
      BY <3>1, <3>2
  <2>2. f \in [Nat -> Clusters]
    BY <1>3 DEF Repeats
  <2>3. QED
    BY <2>1, <2>2
<1>5. chain = [k \in Nat |-> IF k = 0 THEN block ELSE Fat[chain[k - 1]]]
  <2> DEFINE IsChain(g) == g = [k \in Nat |-> IF k = 0 THEN block ELSE Fat[g[k - 1]]]
  <2>1. chain = CHOOSE g : IsChain(g)
    OBVIOUS
  <2>2. \E g : IsChain(g)
    BY <1>4
  <2>3. IsChain(CHOOSE g : IsChain(g))
    <3> HIDE DEF IsChain
    <3>1. QED
      BY <2>2
  <2> HIDE DEF chain
  <2>4. IsChain(chain)
    <3> HIDE DEF IsChain
    <3>1. QED
      BY <2>1, <2>3
  <2>5. QED
    BY <2>4
<1> HIDE DEF chain
<1>6. chain[0] = block
  BY <1>5
<1>7. ASSUME NEW n \in Nat
      PROVE  chain[n + 1] = Fat[chain[n]]
  <2>1. n + 1 \in Nat /\ n + 1 # 0 /\ (n + 1) - 1 = n
    OBVIOUS
  <2>2. QED
    BY <1>5, <2>1
<1>8. Nat \subseteq {n \in Nat : chain[n] \in Clusters}
  <2> DEFINE Fine == {n \in Nat : chain[n] \in Clusters}
  <2>1. 0 \in Fine
    BY <1>6
  <2>2. ASSUME NEW n \in Nat, n \in Fine
        PROVE  n + 1 \in Fine
    <3>1. chain[n] \in Clusters
      BY <2>2
    <3>2. Fat[chain[n]] \in Clusters
      BY <3>1, FileSystemAssumption
    <3>3. n + 1 \in Nat /\ chain[n + 1] = Fat[chain[n]]
      BY <1>7
    <3>4. QED
      BY <3>2, <3>3
  <2> HIDE DEF Fine
  <2>3. Nat \subseteq Fine
    BY <2>1, <2>2, SetInduction
  <2>4. QED
    BY <2>3 DEF Fine
<1>9. QED
  BY <1>1, <1>6, <1>7, <1>8

\* The sector and the place in it of a byte.
LEMMA ByteIs ==
  ASSUME NEW o, NEW q \in Nat, NEW r \in 0 .. SectorsPerCluster - 1, NEW j \in 0 .. SectorSize - 1,
         NEW i, i = (q * SectorsPerCluster + r) * SectorSize + j
  PROVE  /\ i \in Nat /\ i \div SectorSize = q * SectorsPerCluster + r
         /\ (i \div SectorSize) \div SectorsPerCluster = q
         /\ ByteAt(o, i) = <<FATClusterToSector(Cluster(o, q)) + r, j>>
<1> USE Sizes
<1>1. PICK s : s = q * SectorsPerCluster + r
  OBVIOUS
<1>2. s \in Nat /\ s \div SectorsPerCluster = q /\ s % SectorsPerCluster = r
  BY <1>1, DivIs
<1>3. i \in Nat /\ i \div SectorSize = s /\ i % SectorSize = j
  <2>1. i = s * SectorSize + j
    BY <1>1
  <2>2. QED
    BY <1>2, <2>1, DivIs
<1>4. ByteAt(o, i) = <<SectorAt(o, s), j>>
  BY <1>3 DEF ByteAt
<1>5. SectorAt(o, s) = FATClusterToSector(Cluster(o, q)) + r
  BY <1>2 DEF SectorAt
<1>6. QED
  BY <1>1, <1>2, <1>3, <1>4, <1>5

LEMMA ClusterOfByte ==
  ASSUME NEW o, IsObject(o), o.kind = "file", NEW q \in Nat, NEW r \in 0 .. SectorsPerCluster - 1,
         NEW j \in 0 .. SectorSize - 1, (q * SectorsPerCluster + r) * SectorSize + j < o.size
  PROVE  ClusterSound(Cluster(o, q))
<1> USE Sizes
<1>1. PICK i : i = (q * SectorsPerCluster + r) * SectorSize + j
  OBVIOUS
<1>2. i \in Nat /\ (i \div SectorSize) \div SectorsPerCluster = q
  BY <1>1, ByteIs
<1>3. o.size \in Nat
  BY DEF IsObject, EntryType
<1>4. i \in 0 .. o.size - 1
  BY <1>1, <1>2, <1>3
<1>5. QED
  BY <1>2, <1>4 DEF IsObject, EntrySound, FileSound

\* Entry j of the r-th sector of a directory.
LEMMA EntryAtIs ==
  ASSUME NEW block \in Directories, NEW i \in Places(block), NEW r \in Nat \ {0},
         NEW j \in 0 .. EntriesPerSector - 1, i = (r - 1) * EntriesPerSector + j
  PROVE  /\ EntryAt(block, i) = Entries[FirstSector(block) + r - 1][j]
         /\ r <= SectorCount(block) /\ FirstSector(block) + r - 1 \in Sectors
<1> USE Sizes
<1>1. block \in Nat
  BY FileSystemAssumption
<1>2. PICK n \in Nat, count \in Nat \ {0}, first \in Int :
        n = r - 1 /\ count = SectorCount(block) /\ first = FirstSector(block)
  <2>1. r - 1 \in Nat
    OBVIOUS
  <2>2. SectorCount(block) \in Nat \ {0} /\ FirstSector(block) \in Int
    BY <1>1, SectorNumbers
  <2>3. QED
    BY <2>1, <2>2
<1>3. i \in Nat /\ i \div EntriesPerSector = n /\ i % EntriesPerSector = j
  <2>1. i = n * EntriesPerSector + j
    BY <1>2
  <2>2. QED
    BY <2>1, DivIs
<1>4. n * EntriesPerSector + j < count * EntriesPerSector
  <2>1. count * EntriesPerSector \in Int
    OBVIOUS
  <2>2. i <= count * EntriesPerSector - 1
    BY <1>2 DEF Places
  <2>3. QED
    BY <1>2, <1>3, <2>1, <2>2
<1>5. n < count
  BY <1>4, FewerTimes
<1>6. first + n \in Sectors
  <2>1. n \in 0 .. count - 1
    BY <1>5
  <2>2. QED
    BY <1>2, <2>1, DiskAssumption DEF DirectorySound
<1>7. EntryAt(block, i) = Entries[first + n][j]
  BY <1>2, <1>3 DEF EntryAt
<1>8. r \in Nat /\ first + n = first + r - 1 /\ r <= count
  BY <1>2, <1>5
<1>9. QED
  BY <1>2, <1>6, <1>7, <1>8

-----------------------------------------------------------------------------
(***************************************************************************)
(* Directories.                                                            *)
(***************************************************************************)
LEMMA LeastIs ==
  ASSUME NEW S \in SUBSET Nat, S # {}
  PROVE  Least(S) \in S /\ \A j \in S : Least(S) <= j
<1> DEFINE P(i) == i \in S /\ \A j \in S : i <= j
<1>1. \E i : P(i)
  BY LeastNumber
<1>2. P(CHOOSE i : P(i))
  <2> HIDE DEF P
  <2>1. QED
    BY <1>1
<1>3. Least(S) = CHOOSE i : P(i)
  BY DEF Least
<1>4. QED
  BY <1>2, <1>3

LEMMA PlacesAre ==
  ASSUME NEW block \in Directories
  PROVE  /\ 0 \in Places(block) /\ Places(block) \subseteq Nat /\ Listed(block) \subseteq Places(block)
         /\ \A i \in Places(block), j \in Nat : j <= i => j \in Places(block)
         /\ \E end \in Places(block) : EntryAt(block, end).kind = "end"
<1> USE Sizes
<1>1. block \in Nat
  BY FileSystemAssumption
<1>2. PICK size \in Nat \ {0} : size = SectorCount(block) * EntriesPerSector
  <2>1. PICK count \in Nat \ {0} : count = SectorCount(block)
    BY <1>1, SectorNumbers
  <2>2. count * EntriesPerSector \in Nat \ {0}
    <3>1. count >= 1 /\ EntriesPerSector >= 1
      OBVIOUS
    <3>2. count * EntriesPerSector >= 1 /\ count * EntriesPerSector \in Int
      BY <3>1
    <3>3. QED
      BY <3>2
  <2>3. QED
    BY <2>1, <2>2
<1>3. Places(block) = 0 .. size - 1
  BY <1>2 DEF Places
<1>4. Listed(block) \subseteq Places(block)
  BY DEF Listed
<1>5. \E end \in Places(block) : EntryAt(block, end).kind = "end"
  BY DiskAssumption DEF DirectorySound
<1>6. QED
  BY <1>3, <1>4, <1>5

LEMMA EntryTypes ==
  ASSUME NEW block \in Directories, NEW i \in Places(block)
  PROVE  EntryAt(block, i) \in EntryType
<1> USE Sizes
<1>1. i \in Nat
  BY PlacesAre
<1>2. PICK q \in Nat, j \in 0 .. EntriesPerSector - 1 :
        q = i \div EntriesPerSector /\ j = (i % EntriesPerSector)
  BY <1>1, DivMod
<1>3. i = ((q + 1) - 1) * EntriesPerSector + j
  <2>1. i = EntriesPerSector * q + j
    BY <1>1, <1>2, DivMod
  <2>2. EntriesPerSector * q = q * EntriesPerSector /\ (q + 1) - 1 = q
    OBVIOUS
  <2>3. QED
    BY <2>1, <2>2
<1>4. PICK r \in Nat \ {0} : r = q + 1
  OBVIOUS
<1>5. i = (r - 1) * EntriesPerSector + j
  BY <1>3, <1>4
<1>6. PICK s : s = FirstSector(block) + r - 1
  OBVIOUS
<1>7. EntryAt(block, i) = Entries[s][j] /\ s \in Sectors
  BY <1>5, <1>6, EntryAtIs
<1>8. QED
  BY <1>7, FileSystemAssumption

\* What place i, which the scan has come to, holds.
LEMMA PlaceHolds ==
  ASSUME NEW block \in Directories, NEW i \in Places(block), NoEndBefore(block, i),
         NEW entry, entry = EntryAt(block, i)
  PROVE  /\ i \in Nat /\ entry \in EntryType
         /\ entry.kind = "end" => \A j \in Listed(block) : j < i
         /\ entry.kind # "end" => i + 1 \in Places(block) /\ NoEndBefore(block, i + 1)
         /\ entry.kind \in {"file", "dir"} => i \in Listed(block) /\ IsObject(entry)
         /\ entry.kind \notin {"file", "dir"} => i \notin Listed(block)
<1>1. i \in Nat /\ Places(block) \subseteq Nat /\ Listed(block) \subseteq Places(block)
  BY PlacesAre
<1>2. entry \in EntryType
  BY EntryTypes
<1>3. ASSUME entry.kind = "end", NEW j \in Listed(block)
      PROVE  j < i
  <2>1. j \in Nat /\ \A k \in 0 .. j : EntryAt(block, k).kind # "end"
    BY <1>1 DEF Listed
  <2>2. i \notin 0 .. j
    BY <1>3, <2>1
  <2>3. QED
    BY <1>1, <2>1, <2>2
<1>4. ASSUME entry.kind # "end"
      PROVE  i + 1 \in Places(block) /\ NoEndBefore(block, i + 1)
  <2>1. PICK end \in Places(block) : EntryAt(block, end).kind = "end"
    BY PlacesAre
  <2>2. end \in Nat /\ end \notin 0 .. i - 1 /\ end # i
    BY <1>1, <1>4, <2>1 DEF NoEndBefore
  <2>3. i + 1 \in Nat /\ i + 1 <= end
    BY <1>1, <2>2
  <2>4. ASSUME NEW j \in 0 .. (i + 1) - 1
        PROVE  EntryAt(block, j).kind # "end"
    <3>1. j \in 0 .. i - 1 \/ j = i
      BY <1>1
    <3>2. QED
      BY <1>4, <3>1 DEF NoEndBefore
  <2>5. QED
    BY <2>1, <2>3, <2>4, PlacesAre DEF NoEndBefore
<1>5. ASSUME entry.kind \in {"file", "dir"}
      PROVE  i \in Listed(block) /\ IsObject(entry)
  <2>1. NoEndBefore(block, i + 1) /\ 0 .. i = 0 .. (i + 1) - 1
    BY <1>1, <1>4, <1>5
  <2>2. i \in Listed(block)
    BY <1>5, <2>1 DEF Listed, NoEndBefore
  <2>3. EntrySound(entry)
    BY <2>2, DiskAssumption DEF DirectorySound
  <2>4. QED
    BY <1>2, <1>5, <2>2, <2>3 DEF IsObject
<1>6. ASSUME entry.kind \notin {"file", "dir"}
      PROVE  i \notin Listed(block)
  BY <1>6 DEF Listed
<1>7. QED
  BY <1>1, <1>2, <1>3, <1>4, <1>5, <1>6

LEMMA ListedObject ==
  ASSUME NEW block \in Directories, NEW i \in Listed(block)
  PROVE  IsObject(EntryAt(block, i)) /\ i \in Nat
<1>1. i \in Places(block) /\ i \in Nat
  BY PlacesAre
<1>2. EntryAt(block, i) \in EntryType /\ EntrySound(EntryAt(block, i))
  BY <1>1, EntryTypes, DiskAssumption DEF DirectorySound
<1>3. EntryAt(block, i).kind \in {"file", "dir"}
  BY DEF Listed
<1>4. QED
  BY <1>1, <1>2, <1>3 DEF IsObject

\* The entries before a place are finitely many, and its rank is a number.
LEMMA Before ==
  ASSUME NEW block \in Directories, NEW i \in Nat, NEW T, T = {j \in Listed(block) : j < i}
  PROVE  IsFiniteSet(T) /\ Rank(block, i) = Cardinality(T) /\ Rank(block, i) \in Nat
<1>1. Listed(block) \subseteq Nat
  BY PlacesAre
<1>2. T \in SUBSET (0 .. i)
  BY <1>1
<1>3. IsFiniteSet(0 .. i)
  BY FS_Interval
<1>4. IsFiniteSet(T)
  BY <1>2, <1>3, FS_Subset
<1>5. Rank(block, i) = Cardinality(T)
  BY DEF Rank
<1>6. QED
  BY <1>4, <1>5, FS_CardinalityType

LEMMA RankAfter ==
  ASSUME NEW block \in Directories, NEW i \in Nat
  PROVE  Rank(block, i + 1) = IF i \in Listed(block) THEN Rank(block, i) + 1 ELSE Rank(block, i)
<1>1. PICK T : T = {j \in Listed(block) : j < i}
  OBVIOUS
<1>2. IsFiniteSet(T) /\ Rank(block, i) = Cardinality(T)
  BY <1>1, Before
<1>3. PICK U : U = {j \in Listed(block) : j < i + 1}
  OBVIOUS
<1>4. Rank(block, i + 1) = Cardinality(U)
  BY <1>3 DEF Rank
<1>5. Listed(block) \subseteq Nat
  BY PlacesAre
<1>6. CASE i \in Listed(block)
  <2>1. U = T \cup {i} /\ i \notin T
    BY <1>1, <1>3, <1>5, <1>6
  <2>2. QED
    BY <1>2, <1>4, <1>6, <2>1, FS_AddElement
<1>7. CASE i \notin Listed(block)
  <2>1. U = T
    BY <1>1, <1>3, <1>5, <1>7
  <2>2. QED
    BY <1>2, <1>4, <1>7, <2>1
<1>8. QED
  BY <1>6, <1>7

LEMMA RankOfFirst ==
  ASSUME NEW block \in Directories
  PROVE  Rank(block, 0) = 0
<1>1. {j \in Listed(block) : j < 0} = {}
  BY PlacesAre
<1>2. QED
  BY <1>1, FS_EmptySet DEF Rank

\* A usable entry has a lower rank than any place behind it.
LEMMA RankGrows ==
  ASSUME NEW block \in Directories, NEW i \in Listed(block), NEW k \in Nat, i < k
  PROVE  Rank(block, i) < Rank(block, k)
<1>1. Listed(block) \subseteq Nat /\ i \in Nat
  BY PlacesAre
<1>2. PICK T, U : T = {j \in Listed(block) : j < i} /\ U = {j \in Listed(block) : j < k}
  OBVIOUS
<1>3. /\ IsFiniteSet(T) /\ Rank(block, i) = Cardinality(T) /\ Cardinality(T) \in Nat
      /\ IsFiniteSet(U) /\ Rank(block, k) = Cardinality(U) /\ Cardinality(U) \in Nat
  BY <1>1, <1>2, Before
<1>4. T \in SUBSET U
  BY <1>1, <1>2
<1>5. i \in U /\ i \notin T
  BY <1>1, <1>2
<1>6. Cardinality(T) <= Cardinality(U) /\ Cardinality(U) # Cardinality(T)
  BY <1>3, <1>4, <1>5, FS_Subset
<1>7. QED
  BY <1>3, <1>6

-----------------------------------------------------------------------------
(***************************************************************************)
(* Paths.                                                                  *)
(***************************************************************************)
LEMMA ClosedEntry == Closed \in EntryType /\ Closed.kind = "end"
<1>1. 0 \in Clusters /\ Dot \in Names
  BY FileSystemAssumption
<1>2. QED
  BY <1>1 DEF Closed, EntryType, Kinds

LEMMA ObjectIsOpen ==
  ASSUME NEW o, IsObject(o)
  PROVE  /\ o # Closed /\ o.block \in Clusters /\ o.block \in Nat /\ o.block # 1 /\ o.size \in Nat
         /\ o.kind = "dir" => o.block \in Directories
         /\ o.kind # "dir" <=> o.kind = "file"
<1>1. o \in EntryType /\ o.kind \in {"file", "dir"} /\ EntrySound(o)
  BY DEF IsObject
<1>2. o.block \in Clusters /\ o.block \in Nat /\ o.size \in Nat
  BY <1>1, FileSystemAssumption DEF EntryType
<1>3. o.block # 1
  BY <1>1, DiskAssumption DEF EntrySound, FileSound, DirectorySound
<1>4. QED
  BY <1>1, <1>2, <1>3, ClosedEntry DEF EntrySound

LEMMA ChildOfClosed ==
  ASSUME NEW name
  PROVE  Child(Closed, name) = Closed
BY ClosedEntry DEF Child

\* The entry with the name, the first one if there are more.
LEMMA ChildFound ==
  ASSUME NEW o, IsObject(o), o.kind = "dir", NEW name, ~(name = Dot /\ o.block = 0),
         NEW i \in Listed(o.block), EntryAt(o.block, i).name = name, NoneNamed(o.block, name, i)
  PROVE  Child(o, name) = EntryAt(o.block, i)
<1>1. o.block \in Directories
  BY ObjectIsOpen
<1>2. PICK found : found = {j \in Listed(o.block) : EntryAt(o.block, j).name = name}
  OBVIOUS
<1>3. found \in SUBSET Nat /\ i \in found
  BY <1>1, <1>2, PlacesAre
<1>4. Least(found) \in found /\ Least(found) <= i
  BY <1>3, LeastIs
<1>5. ~(Least(found) < i)
  BY <1>2, <1>4 DEF NoneNamed
<1>6. Least(found) = i
  <2>1. PICK m : m = Least(found)
    OBVIOUS
  <2>2. m \in Nat /\ i \in Nat /\ m <= i /\ ~(m < i)
    BY <1>3, <1>4, <1>5, <2>1
  <2>3. m = i
    BY <2>2
  <2>4. QED
    BY <2>1, <2>3
<1>7. Child(o, name) = IF found = {} THEN Closed ELSE EntryAt(o.block, Least(found))
  BY <1>2 DEF Child
<1>8. QED
  BY <1>3, <1>6, <1>7

LEMMA ChildMissing ==
  ASSUME NEW o, IsObject(o), o.kind = "dir", NEW name, ~(name = Dot /\ o.block = 0),
         \A i \in Listed(o.block) : EntryAt(o.block, i).name # name
  PROVE  Child(o, name) = Closed
<1>1. {j \in Listed(o.block) : EntryAt(o.block, j).name = name} = {}
  OBVIOUS
<1>2. QED
  BY <1>1 DEF Child

LEMMA ChildItself ==
  ASSUME NEW o, IsObject(o), o.kind = "dir", o.block = 0
  PROVE  Child(o, Dot) = o
BY DEF Child

LEMMA ChildIsObject ==
  ASSUME NEW o, IsObject(o) \/ o = Closed, NEW name
  PROVE  IsObject(Child(o, name)) \/ Child(o, name) = Closed
<1>1. CASE o = Closed
  BY <1>1, ChildOfClosed
<1>2. CASE IsObject(o) /\ o.kind # "dir"
  BY <1>2 DEF Child
<1>3. CASE IsObject(o) /\ o.kind = "dir" /\ name = Dot /\ o.block = 0
  BY <1>3, ChildItself
<1>4. CASE IsObject(o) /\ o.kind = "dir" /\ ~(name = Dot /\ o.block = 0)
  <2>1. PICK found : found = {j \in Listed(o.block) : EntryAt(o.block, j).name = name}
    OBVIOUS
  <2>2. Child(o, name) = IF found = {} THEN Closed ELSE EntryAt(o.block, Least(found))
    BY <1>4, <2>1 DEF Child
  <2>3. CASE found = {}
    BY <2>2, <2>3
  <2>4. CASE found # {}
    <3>1. o.block \in Directories
      BY <1>4, ObjectIsOpen
    <3>2. found \in SUBSET Nat
      BY <2>1, <3>1, PlacesAre
    <3>3. Least(found) \in found
      BY <2>4, <3>2, LeastIs
    <3>4. IsObject(EntryAt(o.block, Least(found)))
      BY <2>1, <3>1, <3>3, ListedObject
    <3>5. QED
      BY <2>2, <2>4, <3>4
  <2>5. QED
    BY <2>3, <2>4
<1>5. QED
  BY <1>1, <1>2, <1>3, <1>4

LEMMA RootIsObject ==
  ASSUME NEW from \in Directories
  PROVE  LET o == [Root EXCEPT !.block = from]
         IN  IsObject(o) /\ o.kind = "dir" /\ o.block = from
<1>1. from \in Clusters /\ Dot \in Names
  BY FileSystemAssumption
<1>2. QED
  BY <1>1 DEF Root, IsObject, EntryType, Kinds, EntrySound

\* The objects along a path; where it leads nowhere, Closed.
LEMMA WayIs ==
  ASSUME NEW from \in Directories, NEW names, Len(names) \in Nat
  PROVE  /\ Way(from, names)[0] = [Root EXCEPT !.block = from]
         /\ \A k \in 1 .. Len(names) :
              Way(from, names)[k] = Child(Way(from, names)[k - 1], names[k])
         /\ \A k \in 0 .. Len(names) :
              IsObject(Way(from, names)[k]) \/ Way(from, names)[k] = Closed
<1> DEFINE first == [Root EXCEPT !.block = from]
           Objects == {o \in EntryType : IsObject(o) \/ o = Closed}
           Steps == Nat \X Objects
           step == [z \in Steps |-> <<z[1] + 1, Child(z[2], names[z[1] + 1])>>]
           way[k \in 0 .. Len(names)] == IF k = 0 THEN first ELSE Child(way[k - 1], names[k])
<1>1. Way(from, names) = way
  BY DEF Way
<1>2. first \in Objects
  BY RootIsObject DEF IsObject
<1>3. ASSUME NEW o \in Objects, NEW name
      PROVE  Child(o, name) \in Objects
  <2>1. IsObject(Child(o, name)) \/ Child(o, name) = Closed
    BY <1>3, ChildIsObject
  <2>2. QED
    BY <2>1, ClosedEntry DEF IsObject
<1> HIDE DEF Objects, first
<1>4. step \in [Steps -> Steps]
  BY <1>3
<1>5. <<0, first>> \in Steps
  BY <1>2
<1> HIDE DEF Steps
<1>6. PICK f : Repeats(f, Steps, <<0, first>>, step)
  <2> HIDE DEF step
  <2>1. QED
    BY <1>4, <1>5, StepsExist
<1> USE DEF Steps
<1>7. /\ \A n \in Nat : f[n] \in Steps
      /\ f[0] = <<0, first>>
      /\ \A n \in Nat : f[n + 1] = <<f[n][1] + 1, Child(f[n][2], names[f[n][1] + 1])>>
  <2>1. f \in [Nat -> Steps] /\ f[0] = <<0, first>> /\ \A n \in Nat : f[n + 1] = step[f[n]]
    <3> HIDE DEF Steps, step
    <3>1. QED
      BY <1>6 DEF Repeats
  <2>2. \A n \in Nat : f[n] \in Steps
    BY <2>1
  <2>3. ASSUME NEW n \in Nat
        PROVE  f[n + 1] = <<f[n][1] + 1, Child(f[n][2], names[f[n][1] + 1])>>
    BY <2>1, <2>2
  <2>4. QED
    BY <2>1, <2>2, <2>3
<1>8. \A n \in Nat : f[n][1] = n
  <2> DEFINE Counted == {n \in Nat : f[n][1] = n}
  <2>1. 0 \in Counted
    BY <1>7
  <2>2. ASSUME NEW n \in Nat, n \in Counted
        PROVE  n + 1 \in Counted
    <3>1. f[n + 1][1] = f[n][1] + 1
      <4>1. PICK number, o : number = f[n][1] + 1 /\ o = Child(f[n][2], names[f[n][1] + 1])
        OBVIOUS
      <4>2. f[n + 1] = <<number, o>>
        BY <1>7, <4>1
      <4>3. QED
        BY <4>1, <4>2
    <3>2. QED
      BY <2>2, <3>1
  <2>3. Nat \subseteq Counted
    <3> HIDE DEF Counted
    <3>1. QED
      BY <2>1, <2>2, SetInduction
  <2>4. QED
    BY <2>3
<1> DEFINE g == [k \in 0 .. Len(names) |-> f[k][2]]
<1>9. g = [k \in 0 .. Len(names) |-> IF k = 0 THEN first ELSE Child(g[k - 1], names[k])]
  <2>1. ASSUME NEW k \in 0 .. Len(names)
        PROVE  f[k][2] = IF k = 0 THEN first ELSE Child(g[k - 1], names[k])
    <3>1. CASE k = 0
      BY <1>7, <3>1
    <3>2. CASE k # 0
      <4>1. PICK m \in Nat : m = k - 1 /\ k = m + 1 /\ m \in 0 .. Len(names)
        BY <3>2
      <4>2. f[m + 1] = <<f[m][1] + 1, Child(f[m][2], names[f[m][1] + 1])>> /\ f[m][1] = m
        BY <1>7, <1>8
      <4>3. f[k][2] = Child(f[m][2], names[k])
        <5>1. f[m + 1] = <<m + 1, Child(f[m][2], names[m + 1])>>
          BY <4>2
        <5>2. f[m + 1][2] = Child(f[m][2], names[m + 1])
          BY <5>1
        <5>3. QED
          BY <4>1, <5>2
      <4>4. g[k - 1] = f[m][2]
        BY <4>1
      <4> HIDE DEF g
      <4>5. QED
        BY <3>2, <4>3, <4>4
    <3>3. QED
      BY <3>1, <3>2
  <2>2. QED
    BY <2>1
<1>10. way = [k \in 0 .. Len(names) |-> IF k = 0 THEN first ELSE Child(way[k - 1], names[k])]
  <2> DEFINE IsWay(h) ==
               h = [k \in 0 .. Len(names) |-> IF k = 0 THEN first ELSE Child(h[k - 1], names[k])]
  <2>1. way = CHOOSE h : IsWay(h)
    OBVIOUS
  <2>2. \E h : IsWay(h)
    <3>1. IsWay(g)
      BY <1>9
    <3> HIDE DEF IsWay, g
    <3>2. QED
      BY <3>1
  <2>3. IsWay(CHOOSE h : IsWay(h))
    <3> HIDE DEF IsWay
    <3>1. QED
      BY <2>2
  <2> HIDE DEF way
  <2>4. IsWay(way)
    <3> HIDE DEF IsWay
    <3>1. QED
      BY <2>1, <2>3
  <2>5. QED
    BY <2>4
<1> HIDE DEF way, g
<1>11. way[0] = first
  <2>1. 0 \in 0 .. Len(names)
    OBVIOUS
  <2>2. QED
    BY <1>10, <2>1
<1>12. ASSUME NEW k \in 1 .. Len(names)
       PROVE  way[k] = Child(way[k - 1], names[k])
  <2>1. k \in 0 .. Len(names) /\ k # 0
    OBVIOUS
  <2>2. QED
    BY <1>10, <2>1
<1>13. ASSUME NEW k \in 0 .. Len(names)
       PROVE  IsObject(way[k]) \/ way[k] = Closed
  <2> DEFINE Fine == {n \in Nat : n <= Len(names) => way[n] \in Objects}
  <2>1. 0 \in Fine
    BY <1>2, <1>11
  <2>2. ASSUME NEW n \in Nat, n \in Fine
        PROVE  n + 1 \in Fine
    <3>1. SUFFICES ASSUME n + 1 <= Len(names) PROVE way[n + 1] \in Objects
      OBVIOUS
    <3>2. n <= Len(names) /\ n + 1 \in 1 .. Len(names) /\ (n + 1) - 1 = n
      BY <3>1
    <3>3. way[n] \in Objects
      BY <2>2, <3>2
    <3>4. way[n + 1] = Child(way[n], names[n + 1])
      BY <1>12, <3>2
    <3>5. QED
      BY <1>3, <3>3, <3>4
  <2>3. Nat \subseteq Fine
    <3> HIDE DEF Fine
    <3>1. QED
      BY <2>1, <2>2, SetInduction
  <2>4. k \in Nat /\ k <= Len(names)
    OBVIOUS
  <2>5. way[k] \in Objects
    BY <2>3, <2>4
  <2>6. QED
    BY <2>5 DEF Objects
<1>14. QED
  BY <1>1, <1>11, <1>12, <1>13 DEF first

\* A path that has led nowhere leads nowhere.
LEMMA ClosedStays ==
  ASSUME NEW from \in Directories, NEW names, Len(names) \in Nat,
         NEW k \in 0 .. Len(names), Way(from, names)[k] = Closed
  PROVE  Named(from, names) = Closed
<1> DEFINE Stays == {n \in Nat : k + n <= Len(names) => Way(from, names)[k + n] = Closed}
<1>0. \A j \in 1 .. Len(names) : Way(from, names)[j] = Child(Way(from, names)[j - 1], names[j])
  BY ONLY WayIs, from \in Directories, Len(names) \in Nat
<1>1. k \in Nat
  OBVIOUS
<1>2. 0 \in Stays
  BY <1>1
<1>3. ASSUME NEW n \in Nat, n \in Stays
      PROVE  n + 1 \in Stays
  <2>1. SUFFICES ASSUME k + (n + 1) <= Len(names) PROVE Way(from, names)[k + (n + 1)] = Closed
    OBVIOUS
  <2>2. PICK m : m = k + (n + 1)
    OBVIOUS
  <2>3. m \in 1 .. Len(names) /\ m - 1 = k + n /\ k + n <= Len(names)
    BY <1>1, <2>1, <2>2
  <2>4. Way(from, names)[m - 1] = Closed
    BY <1>3, <2>3
  <2>5. Way(from, names)[m] = Child(Way(from, names)[m - 1], names[m])
    BY <2>3, <1>0
  <2>6. QED
    BY <2>2, <2>4, <2>5, ChildOfClosed
<1>4. Nat \subseteq Stays
  <2> HIDE DEF Stays
  <2>1. QED
    BY <1>2, <1>3, SetInduction
<1>5. PICK n \in Nat : k + n = Len(names)
  <2>1. Len(names) - k \in Nat /\ k + (Len(names) - k) = Len(names)
    BY <1>1
  <2>2. QED
    BY <2>1
<1>6. Way(from, names)[k + n] = Closed
  BY <1>4, <1>5
<1>7. QED
  BY <1>5, <1>6 DEF Named

LEMMA LastIs == Last \in Sectors /\ StopsAt(Last) /\ Last \in Nat
<1> DEFINE P(last) == last \in Sectors /\ StopsAt(last)
<1>1. \E last : P(last)
  BY DiskAssumption
<1>2. P(CHOOSE last : P(last))
  <2> HIDE DEF P
  <2>1. QED
    BY <1>1
<1>3. Last = CHOOSE last : P(last)
  BY DEF Last
<1>4. QED
  BY <1>2, <1>3, FileSystemAssumption

-----------------------------------------------------------------------------
(***************************************************************************)
(* What a change of the current context leaves alone.                      *)
(***************************************************************************)
PathContext ==
  [firstSec : Nat, currBlock : Nat, nextSec : Nat, offset : Nat, bytesRem : Nat, dir : BOOLEAN]
Offsets == (0 .. EntriesPerSector) \cup (0 .. SectorSize - 1)
ContextsTyped ==
  context \in [Contexts -> PathContext] /\ \A d \in Contexts : context[d].offset \in Offsets

\* The current context becomes y, of the right type.
Becomes(y) == y \in PathContext /\ y.offset \in Offsets /\ context' = [context EXCEPT ![c] = y]

LEMMA Typed ==
  ASSUME TypeOK
  PROVE  ContextsTyped /\ c \in Contexts /\ context[c] \in PathContext /\ context[c].offset \in Offsets
BY DEF TypeOK, ContextsTyped, PathContext, Offsets

LEMMA BecomesTyped ==
  ASSUME TypeOK, NEW y, Becomes(y)
  PROVE  ContextsTyped' /\ context'[c] = y
<1>1. ContextsTyped /\ c \in Contexts
  BY Typed
<1>2. context'[c] = y /\ \A d \in Contexts : d # c => context'[d] = context[d]
  BY <1>1 DEF Becomes, ContextsTyped
<1>3. context' \in [Contexts -> PathContext]
  BY <1>1 DEF Becomes, ContextsTyped
<1>4. ASSUME NEW d \in Contexts
      PROVE  context'[d].offset \in Offsets
  <2>1. CASE d = c
    BY <1>2, <2>1 DEF Becomes
  <2>2. CASE d # c
    BY <1>1, <1>2, <2>2 DEF ContextsTyped
  <2>3. QED
    BY <2>1, <2>2
<1>5. QED
  BY <1>2, <1>3, <1>4 DEF ContextsTyped

LEMMA SameTyped ==
  ASSUME TypeOK, UNCHANGED context
  PROVE  ContextsTyped'
<1>1. ContextsTyped
  BY Typed
<1>2. QED
  BY <1>1 DEF ContextsTyped

LEMMA OthersKept ==
  ASSUME TypeOK, OthersOpen, NEW y, Becomes(y), UNCHANGED <<c, object, pos>>
  PROVE  OthersOpen'
<1>1. ContextsTyped /\ c \in Contexts
  BY Typed
<1>2. ASSUME NEW d \in Contexts, d # c, object[d] # Closed
      PROVE  Open(context'[d], object[d], pos[d])
  <2>1. context'[d] = context[d]
    BY <1>1, <1>2 DEF Becomes, ContextsTyped
  <2>2. QED
    BY <1>2, <2>1 DEF OthersOpen
<1>3. QED
  BY <1>2 DEF OthersOpen

LEMMA OthersSame ==
  ASSUME OthersOpen, UNCHANGED <<context, c, object, pos>>
  PROVE  OthersOpen'
BY DEF OthersOpen

\* Filled, with the offset of the current context changed.
LEMMA FilledAfter ==
  ASSUME TypeOK, Filled, NEW y, Becomes(y), c' = c,
         dosBuffer' \in Sectors \/ (dosBuffer' = dosBuffer /\ index' = 0 /\ at' # "entry" /\ y.offset = 0),
         at' = "entry" => index' < EntriesPerSector,
         index' = 0 \/ dosBuffer' \in Sectors
  PROVE  Filled'
<1>1. ContextsTyped /\ c \in Contexts
  BY Typed
<1>2. CASE dosBuffer' \in Sectors
  BY <1>2 DEF Filled
<1>3. CASE dosBuffer' \notin Sectors
  <2>1. dosBuffer' = dosBuffer /\ index' = 0 /\ at' # "entry" /\ y.offset = 0
    BY <1>3
  <2>2. \A d \in Contexts : context[d].offset = 0
    BY <1>3, <2>1 DEF Filled
  <2>3. \A d \in Contexts : context'[d].offset = 0
    BY <1>1, <2>1, <2>2 DEF Becomes, ContextsTyped
  <2>4. QED
    BY <2>1, <2>3 DEF Filled
<1>4. QED
  BY <1>2, <1>3

\* At rest every context is placed.
LEMMA RestOpen ==
  ASSUME Inv, call = "none"
  PROVE  \A d \in Contexts : object[d] # Closed => Open(context[d], object[d], pos[d])
BY DEF Inv, RestInv, OthersOpen

-----------------------------------------------------------------------------
(***************************************************************************)
(* Start, reset, and what fails.                                           *)
(***************************************************************************)
LEMMA EmptyIs == EmptyContext \in PathContext /\ EmptyContext.offset = 0 /\ 0 \in Offsets
BY Sizes DEF EmptyContext, PathContext, Offsets

LEMMA NothingIs == Nothing \in [found : EntryType, amount : Nat]
BY ClosedEntry DEF Nothing

LEMMA InitInv ==
  ASSUME Init
  PROVE  Inv
<1>1. c \in Contexts
  BY FileSystemAssumption DEF Init
<1>2. /\ context \in [Contexts -> PathContext] /\ \A d \in Contexts : context[d].offset \in Offsets
      /\ \A d \in Contexts : context[d].offset = 0
  BY EmptyIs DEF Init
<1>3. object \in [Contexts -> EntryType] /\ pos \in [Contexts -> Nat]
      /\ \A d \in Contexts : object[d] = Closed
  BY ClosedEntry DEF Init
<1>4. TypeOK
  <2>1. currentDir \in Nat /\ asked \in [found : EntryType, amount : Nat]
    BY NothingIs DEF Init
  <2>2. /\ path \in Seq(Names \cup {Invalid}) /\ index \in 0 .. EntriesPerSector
        /\ out \in IF call = "FMReadDir" THEN Seq(EntryType) ELSE Seq(Locations)
    BY Sizes DEF Init
  <2>3. QED
    BY <1>1, <1>2, <1>3, <2>1, <2>2 DEF Init, TypeOK, PathContext, Offsets
<1>5. currentDir \in Directories
  BY FileSystemAssumption DEF Init
<1>6. Filled /\ OthersOpen
  BY <1>2, <1>3 DEF Init, Filled, OthersOpen
<1>7. RestInv
  BY <1>1, <1>3 DEF Init, RestInv
<1>8. QED
  BY <1>4, <1>5, <1>6, <1>7 DEF Init, Inv

LEMMA ResetInv ==
  ASSUME Inv, Reset
  PROVE  Inv'
<1>1. TypeOK /\ c \in Contexts
  BY Typed DEF Inv
<1>2. /\ context' \in [Contexts -> PathContext] /\ \A d \in Contexts : context'[d].offset \in Offsets
      /\ \A d \in Contexts : context'[d].offset = 0
  BY EmptyIs DEF Reset
<1>3. object' \in [Contexts -> EntryType] /\ pos' \in [Contexts -> Nat]
      /\ \A d \in Contexts : object'[d] = Closed
  BY ClosedEntry DEF Reset
<1>4. TypeOK'
  <2>1. currentDir' \in Nat /\ asked' \in [found : EntryType, amount : Nat]
    BY NothingIs DEF Reset
  <2>2. /\ path' \in Seq(Names \cup {Invalid}) /\ index' \in 0 .. EntriesPerSector
        /\ out' \in IF call' = "FMReadDir" THEN Seq(EntryType) ELSE Seq(Locations)
    BY Sizes DEF Reset
  <2>3. QED
    BY <1>1, <1>2, <1>3, <2>1, <2>2 DEF Reset, TypeOK, PathContext, Offsets
<1>5. currentDir' \in Directories
  BY FileSystemAssumption DEF Reset
<1>6. at = "none"
  BY DEF Reset, Inv
<1>7. Filled' /\ OthersOpen'
  BY <1>2, <1>3, <1>6 DEF Reset, Filled, OthersOpen
<1>8. RestInv'
  BY <1>1, <1>3, <1>6 DEF Reset, RestInv
<1>9. QED
  BY <1>4, <1>5, <1>7, <1>8 DEF Reset, Inv

LEMMA DeviceErrorInv ==
  ASSUME Inv, DeviceError
  PROVE  Inv'
<1>1. TypeOK
  BY DEF Inv
<1>2. out \in Seq(Locations)
  <2>1. CASE call = "FMReadDir"
    <3>1. out = <<>>
      BY <2>1 DEF Inv, ListInv, DeviceError
    <3>2. QED
      BY <3>1
  <2>2. CASE call # "FMReadDir"
    BY <1>1, <2>2 DEF TypeOK
  <2>3. QED
    BY <2>1, <2>2
<1>3. TypeOK'
  BY <1>1, <1>2 DEF DeviceError, TypeOK, registers, history
<1>4. QED
  BY <1>3 DEF DeviceError, Inv

LEMMA StutterInv ==
  ASSUME Inv, UNCHANGED vars
  PROVE  Inv'
<1> USE DEF vars, disk, registers, history
<1>1. /\ TypeOK' = TypeOK /\ Filled' = Filled /\ OthersOpen' = OthersOpen /\ RestInv' = RestInv
  BY DEF TypeOK, Filled, OthersOpen, RestInv
<1>2. LookupInv' = LookupInv
  <2>1. ASSUME NEW block, NEW i, NEW r
        PROVE  ScanIs(block, i, r)' = ScanIs(block, i, r)
    BY DEF ScanIs
  <2>2. ASSUME NEW w
        PROVE  LookupAt(w)' = LookupAt(w)
    BY <2>1 DEF LookupAt, ItselfInRoot
  <2>3. ASSUME NEW names, NEW k
        PROVE  LeftOf(names, k)' = LeftOf(names, k)
    BY DEF LeftOf
  <2>4. QED
    BY <2>2, <2>3 DEF LookupInv, Looks
<1>3. ListInv' = ListInv
  BY DEF ListInv, ScanIs
<1>4. ReadInv' = ReadInv
  BY DEF ReadInv, Right
<1>5. QED
  BY <1>1, <1>2, <1>3, <1>4 DEF Inv

\* The directory of an open context is one.
LEMMA ChangeDirectoryInv ==
  ASSUME Inv, FMChangeDirectory
  PROVE  Inv'
<1>1. TypeOK /\ call = "none" /\ call' = "none" /\ RestInv /\ Filled /\ OthersOpen
  BY DEF Inv, FMChangeDirectory
<1>2. PICK d \in Contexts : object[d] # Closed /\ context[d].dir /\ currentDir' = context[d].currBlock
  BY DEF FMChangeDirectory
<1>3. currentDir' \in Directories
  <2>1. Open(context[d], object[d], pos[d])
    BY <1>1, <1>2, RestOpen
  <2>2. object[d].kind = "dir"
    BY <1>2, <2>1 DEF Open, InFile, IsObject
  <2>3. context[d].currBlock = object[d].block
    BY <2>1, <2>2 DEF Open, InDirectory
  <2>4. QED
    BY <1>2, <2>1, <2>2, <2>3, ObjectIsOpen DEF Open
<1>4. currentDir' \in Nat
  BY <1>3, FileSystemAssumption
<1>5. TypeOK'
  BY <1>1, <1>4 DEF FMChangeDirectory, TypeOK, disk, registers, history
<1>6. RestInv' /\ Filled' /\ OthersOpen'
  BY <1>1 DEF FMChangeDirectory, RestInv, Filled, OthersOpen, disk, registers, history
<1>7. QED
  BY <1>1, <1>3, <1>5, <1>6 DEF Inv

-----------------------------------------------------------------------------
(***************************************************************************)
(* Scans.                                                                  *)
(***************************************************************************)
LEMMA RestOf ==
  ASSUME NEW i \in 0 .. EntriesPerSector
  PROVE  IF i = EntriesPerSector THEN i % EntriesPerSector = 0 ELSE i % EntriesPerSector = i
<1> USE Sizes
<1>1. CASE i = EntriesPerSector
  <2>1. i = 1 * EntriesPerSector + 0
    BY <1>1
  <2>2. QED
    BY <1>1, <2>1, DivIs
<1>2. CASE i # EntriesPerSector
  <2>1. i \in 0 .. EntriesPerSector - 1 /\ i = 0 * EntriesPerSector + i
    BY <1>2
  <2>2. QED
    BY <1>2, <2>1, DivIs
<1>3. QED
  BY <1>1, <1>2

\* The next sector of a directory is on the disk and holds the next place.
LEMMA ScanReads ==
  ASSUME TypeOK, NEW block \in Directories, NEW i \in Places(block), NEW r \in Nat,
         ScanIs(block, i, r), ReadDirSector
  PROVE  ScanIs(block, i, r + 1)' /\ dosBuffer' \in Sectors /\ context[c].nextSec \in Sectors
<1> USE Sizes
<1>1. /\ at = "scan" /\ index % EntriesPerSector = 0 /\ dosBuffer' = context[c].nextSec
      /\ index' = 0 /\ at' = "entry" /\ c' = c
      /\ context' = [context EXCEPT ![c] = AfterSector(@)]
  BY DEF ReadDirSector
<1>2. PICK s \in Nat, k \in 0 .. EntriesPerSector, first \in Int :
        s = context[c].nextSec /\ k = index /\ first = FirstSector(block)
  <2>1. context[c].nextSec \in Nat /\ index \in 0 .. EntriesPerSector
    BY Typed DEF TypeOK, PathContext
  <2>2. FirstSector(block) \in Int
    BY SectorNumbers, FileSystemAssumption
  <2>3. QED
    BY <2>1, <2>2
<1>3. s = first + r /\ IF k = 0 THEN r = 0 /\ i = 0 ELSE r >= 1 /\ i = (r - 1) * EntriesPerSector + k
  BY <1>1, <1>2 DEF ScanIs, PlaceIs
<1>4. k = 0 \/ k = EntriesPerSector
  BY <1>1, <1>2, RestOf
<1>5. i = r * EntriesPerSector
  <2>1. CASE k = 0
    BY <1>3, <2>1
  <2>2. CASE k # 0
    <3>1. PICK m \in Nat : m = r - 1 /\ r = m + 1
      BY <1>3, <2>2
    <3>2. i = m * EntriesPerSector + EntriesPerSector
      BY <1>3, <1>4, <2>2, <3>1
    <3>3. (m + 1) * EntriesPerSector = m * EntriesPerSector + EntriesPerSector
      OBVIOUS
    <3>4. QED
      BY <3>1, <3>2, <3>3
  <2>3. QED
    BY <2>1, <2>2
<1>6. PICK n \in Nat \ {0} : n = r + 1
  OBVIOUS
<1>7. n - 1 = r /\ i = (n - 1) * EntriesPerSector + 0
  <2>1. n - 1 = r /\ r * EntriesPerSector \in Int
    BY <1>6
  <2>2. QED
    BY <1>5, <2>1
<1>8. s \in Sectors
  <2>1. FirstSector(block) + n - 1 \in Sectors
    BY <1>7, EntryAtIs
  <2>2. FirstSector(block) + n - 1 = s
    BY <1>2, <1>3, <1>6
  <2>3. QED
    BY <2>1, <2>2
<1>9. context'[c].nextSec = s + 1
  <2>1. c \in Contexts /\ context \in [Contexts -> PathContext]
    BY Typed DEF ContextsTyped
  <2>2. context'[c] = AfterSector(context[c])
    BY <1>1, <2>1
  <2>3. AfterSector(context[c]).nextSec = context[c].nextSec + 1
    BY <2>1 DEF AfterSector, PathContext
  <2>4. QED
    BY <1>2, <2>2, <2>3
<1>10. ScanIs(block, i, n)'
  <2>1. NoEndBefore(block, i)
    BY DEF ScanIs
  <2>2. context'[c'].nextSec = FirstSector(block) + n /\ n >= 1 /\ dosBuffer' = context'[c'].nextSec - 1
    BY <1>1, <1>2, <1>3, <1>6, <1>9
  <2>3. i = (n - 1) * EntriesPerSector + index'
    BY <1>1, <1>7
  <2>4. QED
    BY <1>1, <2>1, <2>2, <2>3 DEF ScanIs
<1>11. QED
  BY <1>1, <1>2, <1>6, <1>8, <1>10

LEMMA ScanStays ==
  ASSUME TypeOK, NEW block \in Directories, NEW i \in Places(block), NEW r \in Nat,
         ScanIs(block, i, r), SameDirSector
  PROVE  ScanIs(block, i, r)'
<1> USE Sizes
<1>1. /\ at = "scan" /\ index % EntriesPerSector # 0 /\ at' = "entry"
      /\ UNCHANGED <<c, context, dosBuffer, index>>
  BY DEF SameDirSector, disk, registers
<1>2. index # 0
  <2>1. 0 \in 0 .. EntriesPerSector /\ 0 # EntriesPerSector
    OBVIOUS
  <2>2. 0 % EntriesPerSector = 0
    BY <2>1, RestOf
  <2>3. QED
    BY <1>1, <2>2
<1>3. QED
  BY <1>1, <1>2 DEF ScanIs, PlaceIs

\* The entry the scan looks at is the one at its place.
LEMMA ScanSees ==
  ASSUME TypeOK, Filled, NEW block \in Directories, NEW i \in Places(block), NEW r \in Nat,
         ScanIs(block, i, r), at = "entry"
  PROVE  Entry = EntryAt(block, i) /\ r >= 1
<1> USE Sizes
<1>1. /\ context[c].nextSec = FirstSector(block) + r /\ r >= 1
      /\ i = (r - 1) * EntriesPerSector + index /\ dosBuffer = context[c].nextSec - 1
  BY DEF ScanIs
<1>2. index \in 0 .. EntriesPerSector - 1
  BY DEF TypeOK, Filled
<1>3. EntryAt(block, i) = Entries[FirstSector(block) + r - 1][index]
  BY <1>1, <1>2, EntryAtIs
<1>4. dosBuffer = FirstSector(block) + r - 1
  <2>1. FirstSector(block) \in Int
    BY SectorNumbers, FileSystemAssumption
  <2>2. QED
    BY <1>1, <2>1
<1>5. QED
  BY <1>1, <1>3, <1>4 DEF Entry

\* The scan goes on behind an entry.
LEMMA ScanSteps ==
  ASSUME TypeOK, Filled, NEW block \in Directories, NEW i \in Places(block), NEW r \in Nat,
         ScanIs(block, i, r), at = "entry", Entry.kind # "end",
         at' = "scan", index' = index + 1, UNCHANGED <<c, dosBuffer>>,
         context'[c].nextSec = context[c].nextSec
  PROVE  ScanIs(block, i + 1, r)'
<1> USE Sizes
<1>1. Entry = EntryAt(block, i) /\ r >= 1
  BY ScanSees
<1>2. NoEndBefore(block, i + 1)
  BY <1>1, PlaceHolds DEF ScanIs
<1>3. PICK k \in Nat : k = index
  BY DEF TypeOK
<1>4. PICK m \in Nat : m = r - 1
  BY <1>1
<1>5. m * EntriesPerSector \in Int /\ i = m * EntriesPerSector + k
  BY <1>3, <1>4 DEF ScanIs
<1>6. i + 1 = m * EntriesPerSector + (k + 1)
  BY <1>5
<1>7. PlaceIs(block, context[c].nextSec, k + 1, i + 1, r)
  BY <1>1, <1>3, <1>4, <1>6 DEF ScanIs, PlaceIs
<1>8. QED
  BY <1>2, <1>3, <1>7 DEF ScanIs

-----------------------------------------------------------------------------
(***************************************************************************)
(* FMCreateContext.                                                        *)
(***************************************************************************)
LEMMA NamedIs ==
  ASSUME NEW from \in Directories, NEW names \in Seq(Names \cup {Invalid})
  PROVE  /\ Len(names) \in Nat /\ Named(from, names) = Way(from, names)[Len(names)]
         /\ Named(from, names) \in EntryType
         /\ IsObject(Named(from, names)) \/ Named(from, names) = Closed
<1>1. Len(names) \in Nat /\ Len(names) \in 0 .. Len(names)
  OBVIOUS
<1>2. \A k \in 0 .. Len(names) : IsObject(Way(from, names)[k]) \/ Way(from, names)[k] = Closed
  BY <1>1, WayIs
<1>3. QED
  BY <1>1, <1>2, ClosedEntry DEF Named, IsObject

LEMMA ElementsTyped ==
  ASSUME NEW p \in Paths
  PROVE  Elements(p) \in Seq(Names \cup {Invalid})
<1>1. p.names \in Seq(Names \cup {Invalid}) /\ p.behind \in Seq(Names \cup {Invalid})
  BY FileSystemAssumption
<1>2. p.names \o p.behind \in Seq(Names \cup {Invalid})
  BY <1>1
<1>3. QED
  BY <1>1, <1>2 DEF Elements

LEMMA CreateContextInv ==
  ASSUME Inv, FMCreateContext
  PROVE  Inv'
<1>1. TypeOK /\ call = "none" /\ RestInv /\ Filled /\ OthersOpen /\ currentDir \in Directories
  BY DEF Inv, FMCreateContext
<1>2. PICK d \in Contexts, p \in Paths :
        /\ c' = d /\ path' = Elements(p)
        /\ base' = IF p.absolute THEN 0 ELSE currentDir
        /\ asked' = [Nothing EXCEPT !.found = Named(base', Elements(p))]
        /\ context' = [context EXCEPT ![d] = EmptyContext]
        /\ object' = [object EXCEPT ![d] = Closed] /\ pos' = [pos EXCEPT ![d] = 0]
  BY DEF FMCreateContext
<1>3. PICK from \in Directories, names \in Seq(Names \cup {Invalid}) :
        from = base' /\ names = Elements(p) /\ (p.absolute => from = 0)
  <2>1. Elements(p) \in Seq(Names \cup {Invalid})
    BY ElementsTyped
  <2>2. base' \in Directories /\ (p.absolute => base' = 0)
    BY <1>1, <1>2, FileSystemAssumption
  <2>3. QED
    BY <2>1, <2>2
<1>4. Len(names) \in Nat /\ Named(from, names) \in EntryType
  BY NamedIs
<1>5. asked'.found = Named(from, names) /\ asked' \in [found : EntryType, amount : Nat]
  BY <1>2, <1>3, <1>4, NothingIs
<1>6. /\ context \in [Contexts -> PathContext] /\ \A e \in Contexts : context[e].offset \in Offsets
      /\ object \in [Contexts -> EntryType] /\ pos \in [Contexts -> Nat]
  BY <1>1, Typed DEF TypeOK, ContextsTyped
<1>7. /\ context'[d] = EmptyContext /\ object'[d] = Closed /\ pos'[d] = 0
      /\ \A e \in Contexts : e # d => /\ context'[e] = context[e] /\ object'[e] = object[e]
                                      /\ pos'[e] = pos[e]
  BY <1>2, <1>6
<1>8. TypeOK'
  <2>1. context' \in [Contexts -> PathContext]
    BY <1>2, <1>6, EmptyIs
  <2>2. \A e \in Contexts : context'[e].offset \in Offsets
    BY <1>6, <1>7, EmptyIs
  <2>3. object' \in [Contexts -> EntryType] /\ pos' \in [Contexts -> Nat]
    BY <1>2, <1>6, ClosedEntry
  <2>4. base' \in Nat /\ path' \in Seq(Names \cup {Invalid})
    BY <1>2, <1>3, FileSystemAssumption
  <2>5. out' = <<>>
    BY <1>1 DEF RestInv, FMCreateContext
  <2>6. out' \in IF call' = "FMReadDir" THEN Seq(EntryType) ELSE Seq(Locations)
    BY <2>5
  <2>7. QED
    BY <1>1, <1>2, <1>5, <2>1, <2>2, <2>3, <2>4, <2>6 DEF FMCreateContext, TypeOK, PathContext, Offsets
<1>9. Filled'
  BY <1>1, <1>7, EmptyIs DEF FMCreateContext, Filled
<1>10. OthersOpen'
  <2>1. ASSUME NEW e \in Contexts, e # d, object'[e] # Closed
        PROVE  Open(context'[e], object'[e], pos'[e])
    BY <1>1, <1>7, <2>1, RestOpen
  <2>2. QED
    BY <1>2, <2>1 DEF OthersOpen
<1>11. Looks(from, names, 0)'
  <2>1. \A j \in 0 .. Len(names) - 1 : Way(from, names)[j].kind # "file"
    BY <1>3, DiskAssumption DEF NoFileOnTheWay
  <2>2. LeftOf(names, 0)'
    BY <1>2, <1>3, <1>4 DEF LeftOf
  <2>3. PICK w : w = Way(from, names)[0]
    OBVIOUS
  <2>4. w = [Root EXCEPT !.block = from]
    BY <1>4, <2>3, WayIs
  <2>5. IsObject(w) /\ w.kind = "dir" /\ w.block = from
    BY <2>4, RootIsObject
  <2>6. Describes(EmptyContext, w)
    BY <2>5 DEF Describes, EmptyContext
  <2>7. LookupAt(w)'
    BY <1>2, <1>3, <1>7, <2>5, <2>6 DEF LookupAt, FMCreateContext
  <2>8. QED
    BY <1>5, <2>1, <2>2, <2>3, <2>7 DEF Looks
<1>12. LookupInv'
  <2>1. out' = <<>> /\ at' = "context" /\ trusted'
    BY <1>1 DEF RestInv, FMCreateContext
  <2>2. 0 \in 0 .. Len(names)
    BY <1>4
  <2>3. QED
    BY <1>2, <1>7, <1>11, <2>1, <2>2 DEF LookupInv
<1>13. QED
  BY <1>1, <1>8, <1>9, <1>10, <1>12 DEF Inv, FMCreateContext

\* What a lookup keeps, whatever it does next.
LEMMA LookupStep ==
  ASSUME Inv, call = "FMCreateContext", TypeOK', Filled', OthersOpen',
         UNCHANGED <<currentDir, call, c, out, history>>,
         at' \in {"context", "element", "scan", "entry", "return"},
         NEW from \in Directories, NEW names \in Seq(Names \cup {Invalid}),
         NEW k \in 0 .. Len(names), Looks(from, names, k)'
  PROVE  Inv'
<1>1. /\ object' = object /\ pos' = pos /\ trusted' = trusted /\ c' = c /\ out' = out
      /\ call' = "FMCreateContext"
  BY DEF history
<1>2. LookupInv'
  BY <1>1 DEF Inv, LookupInv
<1>3. QED
  BY <1>1, <1>2 DEF Inv

\* The lookup's way, and where it is on it.
LEMMA LookupIs ==
  ASSUME Inv, call = "FMCreateContext"
  PROVE  \E from \in Directories, names \in Seq(Names \cup {Invalid}) :
           \E k \in 0 .. Len(names) : Looks(from, names, k)
BY DEF Inv, LookupInv

LEMMA NextNames ==
  ASSUME TypeOK, NEW names \in Seq(Names \cup {Invalid}), NEW k \in 0 .. Len(names), LeftOf(names, k)
  PROVE  /\ path = <<>> <=> k = Len(names)
         /\ path # <<>> =>
              /\ k \in 0 .. Len(names) - 1 /\ k + 1 \in 1 .. Len(names) /\ Head(path) = names[k + 1]
              /\ Head(path) \in Names \cup {Invalid}
              /\ Tail(path) \in Seq(Names \cup {Invalid})
              /\ path' = Tail(path) => LeftOf(names, k + 1)'
<1>1. path \in Seq(Names \cup {Invalid})
  BY DEF TypeOK
<1>2. PICK length \in Nat : length = Len(names)
  OBVIOUS
<1>3. Len(path) = length - k /\ \A j \in 1 .. Len(path) : path[j] = names[k + j]
  BY <1>2 DEF LeftOf
<1>4. path = <<>> <=> k = length
  <2>1. path = <<>> <=> Len(path) = 0
    BY <1>1
  <2>2. QED
    BY <1>2, <1>3, <2>1
<1>5. ASSUME path # <<>>
      PROVE  /\ k \in 0 .. length - 1 /\ k + 1 \in 1 .. length /\ Head(path) = names[k + 1]
             /\ Head(path) \in Names \cup {Invalid} /\ Tail(path) \in Seq(Names \cup {Invalid})
             /\ path' = Tail(path) => LeftOf(names, k + 1)'
  <2>1. k \in 0 .. length - 1 /\ k + 1 \in 1 .. length
    BY <1>2, <1>4, <1>5
  <2>2. Len(path) >= 1 /\ 1 \in 1 .. Len(path)
    BY <1>2, <1>3, <2>1
  <2>3. Head(path) = path[1] /\ Head(path) \in Names \cup {Invalid}
    BY <1>1, <1>5
  <2>4. Head(path) = names[k + 1]
    BY <1>3, <2>2, <2>3
  <2>5. PICK rest \in Seq(Names \cup {Invalid}) :
          rest = Tail(path) /\ Len(rest) = Len(path) - 1 /\ \A j \in 1 .. Len(rest) : rest[j] = path[j + 1]
    <3>1. Tail(path) \in Seq(Names \cup {Invalid}) /\ Len(Tail(path)) = Len(path) - 1
      BY <1>1, <1>5
    <3>2. \A j \in 1 .. Len(Tail(path)) : Tail(path)[j] = path[j + 1]
      BY <1>1, <1>5
    <3>3. QED
      BY <3>1, <3>2
  <2>6. Len(rest) = length - (k + 1)
    <3>1. PICK n \in Nat, m \in Nat : n = Len(path) /\ m = Len(rest)
      BY <1>1
    <3>2. n = length - k /\ m = n - 1 /\ k \in Int
      BY <1>3, <2>1, <2>5, <3>1
    <3>3. m = length - (k + 1)
      BY <3>2
    <3>4. QED
      BY <3>1, <3>3
  <2>7. ASSUME NEW j \in 1 .. Len(rest)
        PROVE  rest[j] = names[(k + 1) + j]
    <3>1. j + 1 \in 1 .. Len(path) /\ k + (j + 1) = (k + 1) + j
      BY <1>2, <1>3, <2>1, <2>6
    <3>2. QED
      BY <1>3, <2>5, <3>1
  <2>8. path' = Tail(path) => LeftOf(names, k + 1)'
    BY <1>2, <2>5, <2>6, <2>7 DEF LeftOf
  <2>9. QED
    BY <2>1, <2>3, <2>4, <2>5, <2>8
<1>6. QED
  BY <1>2, <1>4, <1>5

LEMMA PathContextInv ==
  ASSUME Inv, FATCreatePathContext
  PROVE  Inv'
<1>1. TypeOK /\ call = "FMCreateContext" /\ at = "context" /\ Filled /\ OthersOpen
  BY DEF Inv, FATCreatePathContext, Running
<1>2. PICK from \in Directories, names \in Seq(Names \cup {Invalid}) :
        \E k \in 0 .. Len(names) : Looks(from, names, k)
  BY <1>1, LookupIs
<1>3. PICK k \in 0 .. Len(names) : Looks(from, names, k)
  BY <1>2
<1>4. PICK w : w = Way(from, names)[k]
  OBVIOUS
<1>5. IsObject(w) /\ base = w.block /\ Describes(context[c], w)
  BY <1>1, <1>3, <1>4 DEF Looks, LookupAt
<1>6. base # 1 /\ base \in Nat /\ FirstSector(base) \in Nat
  <2>1. base \in Nat /\ base # 1
    BY <1>5, ObjectIsOpen
  <2>2. QED
    BY <2>1, SectorNumbers
<1>7. PICK y : y = [context[c] EXCEPT !.currBlock = base, !.firstSec = FirstSector(base),
                                      !.nextSec = FirstSector(base), !.offset = 0]
  OBVIOUS
<1>8. /\ context' = [context EXCEPT ![c] = y] /\ NextElement(path)
      /\ UNCHANGED <<dosBuffer, currentDir, call, c, registers, out, history>>
  BY <1>6, <1>7 DEF FATCreatePathContext
<1>9. Becomes(y) /\ Fresh(y, base) /\ y.dir = context[c].dir /\ y.bytesRem = context[c].bytesRem
  <2>1. context[c] \in PathContext
    BY <1>1, Typed
  <2>2. /\ y \in PathContext /\ Fresh(y, base) /\ y.offset = 0
        /\ y.dir = context[c].dir /\ y.bytesRem = context[c].bytesRem
    BY <1>6, <1>7, <2>1 DEF PathContext, Fresh
  <2>3. QED
    BY <1>8, <2>2, EmptyIs DEF Becomes
<1>10. ContextsTyped' /\ context'[c] = y
  BY <1>1, <1>9, BecomesTyped
<1>11. IF path = <<>> THEN at' = "return" /\ result' = "ok" ELSE at' = "element" /\ result' = result
  BY <1>8 DEF NextElement, Finish
<1>12. TypeOK'
  BY <1>1, <1>8, <1>10, <1>11 DEF TypeOK, ContextsTyped, PathContext, Offsets, registers, history
<1>13. Filled'
  <2>1. dosBuffer' = dosBuffer /\ index' = index /\ at' # "entry" /\ y.offset = 0 /\ c' = c
    BY <1>8, <1>9, <1>11 DEF registers, Fresh
  <2>2. dosBuffer \in Sectors \/ index = 0
    BY <1>1 DEF Filled
  <2>3. QED
    BY <1>1, <1>9, <2>1, <2>2, FilledAfter
<1>14. OthersOpen'
  BY <1>1, <1>8, <1>9, OthersKept DEF history
<1>15. Looks(from, names, k)'
  <2>1. Describes(y, w) /\ Fresh(y, w.block)
    BY <1>5, <1>9 DEF Describes
  <2>2. /\ LeftOf(names, k)' /\ asked' = asked /\ base' = base /\ path' = path /\ c' = c
        /\ LeftOf(names, k)
    BY <1>3, <1>8 DEF Looks, LeftOf, registers, history
  <2>3. LookupAt(w)'
    <3>1. CASE path = <<>>
      <4>1. k = Len(names)
        BY <1>1, <2>2, <3>1, NextNames
      <4>2. asked.found = w
        BY <1>3, <1>4, <4>1 DEF Looks, Named
      <4>3. QED
        BY <1>5, <1>10, <1>11, <2>1, <2>2, <3>1, <4>2 DEF LookupAt
    <3>2. CASE path # <<>>
      <4>1. k \in 0 .. Len(names) - 1
        BY <1>1, <2>2, <3>2, NextNames
      <4>2. w.kind # "file"
        BY <1>3, <1>4, <4>1 DEF Looks
      <4>3. w.kind = "dir"
        BY <1>5, <4>2 DEF IsObject
      <4>4. y.dir
        BY <2>1, <4>3 DEF Describes
      <4>5. QED
        BY <1>5, <1>10, <1>11, <2>1, <2>2, <3>2, <4>3, <4>4 DEF LookupAt
    <3>3. QED
      BY <3>1, <3>2
  <2>4. QED
    BY <1>3, <1>4, <2>2, <2>3 DEF Looks
<1>16. QED
  BY <1>1, <1>8, <1>11, <1>12, <1>13, <1>14, <1>15, LookupStep DEF history

LEMMA ElementInv ==
  ASSUME Inv, ExtractNextPathElement
  PROVE  Inv'
<1>1. /\ TypeOK /\ call = "FMCreateContext" /\ at = "element" /\ Filled /\ OthersOpen
      /\ UNCHANGED <<context, dosBuffer, currentDir, call, c, base, left, asked, trusted, object, pos>>
  BY DEF Inv, ExtractNextPathElement, Running, disk, history
<1>2. out = <<>> /\ out' = <<>>
  BY <1>1 DEF Inv, LookupInv, ExtractNextPathElement
<1>3. PICK from \in Directories, names \in Seq(Names \cup {Invalid}) :
        \E k \in 0 .. Len(names) : Looks(from, names, k)
  BY <1>1, LookupIs
<1>4. PICK k \in 0 .. Len(names) : Looks(from, names, k)
  BY <1>3
<1>5. PICK w : w = Way(from, names)[k]
  OBVIOUS
<1>6. /\ IsObject(w) /\ w.kind = "dir" /\ base = w.block /\ path # <<>>
      /\ Fresh(context[c], base) /\ context[c].dir
  BY <1>1, <1>4, <1>5 DEF Looks, LookupAt
<1>7. base \in Directories /\ FirstSector(base) \in Int
  <2>1. base \in Directories
    BY <1>6, ObjectIsOpen
  <2>2. QED
    BY <2>1, SectorNumbers, FileSystemAssumption
<1>8. PICK name \in Names \cup {Invalid} : name = Head(path) /\ name = names[k + 1]
  BY <1>1, <1>4, <1>6, NextNames DEF Looks
<1>9. /\ k + 1 \in 0 .. Len(names) /\ Tail(path) \in Seq(Names \cup {Invalid})
      /\ path' = Tail(path) => LeftOf(names, k + 1)'
      /\ Way(from, names)[k + 1] = Child(w, name)
  <2>1. /\ k + 1 \in 1 .. Len(names) /\ Tail(path) \in Seq(Names \cup {Invalid})
        /\ path' = Tail(path) => LeftOf(names, k + 1)'
    BY <1>1, <1>4, <1>6, NextNames DEF Looks
  <2>2. Len(names) \in Nat
    OBVIOUS
  <2>3. \A j \in 1 .. Len(names) : Way(from, names)[j] = Child(Way(from, names)[j - 1], names[j])
    BY <2>2, WayIs
  <2>4. (k + 1) - 1 = k /\ k + 1 \in 0 .. Len(names)
    BY <2>1
  <2>5. Way(from, names)[k + 1] = Child(Way(from, names)[(k + 1) - 1], names[k + 1])
    BY <2>1, <2>3
  <2>6. QED
    BY <1>5, <1>8, <2>1, <2>4, <2>5
<1>10. OthersOpen' /\ ContextsTyped'
  BY <1>1, OthersSame, SameTyped
<1>11. asked.found = Named(from, names) /\ LeftOf(names, k)
       /\ \A j \in 0 .. Len(names) - 1 : Way(from, names)[j].kind # "file"
  BY <1>4 DEF Looks
<1>12. CASE name = Invalid /\ at' = "return" /\ result' = "error" /\ UNCHANGED <<path, index>>
  <2>1. Child(w, name) = Closed
    <3>1. name # Dot /\ name \notin Names
      BY <1>12, FileSystemAssumption
    <3>2. ASSUME NEW i \in Listed(w.block)
          PROVE  EntryAt(w.block, i).name # name
      <4>1. EntryAt(w.block, i) \in EntryType
        BY <1>6, <1>7, <3>2, ListedObject DEF IsObject
      <4>2. QED
        BY <3>1, <4>1 DEF EntryType
    <3>3. QED
      BY <1>6, <3>1, <3>2, ChildMissing
  <2>2. Named(from, names) = Closed
    <3>1. Way(from, names)[k + 1] = Closed
      BY <1>9, <2>1
    <3>2. Len(names) \in Nat
      OBVIOUS
    <3>3. PICK m \in 0 .. Len(names) : m = k + 1
      BY <1>9
    <3>4. QED
      BY <3>1, <3>2, <3>3, ClosedStays
  <2>3. TypeOK'
    BY <1>1, <1>2, <1>10, <1>12 DEF TypeOK, ContextsTyped, PathContext, Offsets
  <2>4. Filled'
    BY <1>1, <1>12 DEF Filled
  <2>5. Looks(from, names, k)'
    BY <1>1, <1>5, <1>11, <1>12, <2>2 DEF Looks, LeftOf, LookupAt
  <2>6. QED
    BY <1>1, <1>2, <1>10, <1>12, <2>3, <2>4, <2>5, LookupStep DEF history
<1>13. CASE ItselfInRoot(name) /\ path' = Tail(path) /\ NextElement(Tail(path)) /\ UNCHANGED index
  <2>1. Way(from, names)[k + 1] = w
    BY <1>6, <1>9, <1>13, ChildItself DEF ItselfInRoot
  <2>2. IF path' = <<>> THEN at' = "return" /\ result' = "ok" ELSE at' = "element" /\ result' = result
    BY <1>13 DEF NextElement, Finish
  <2>3. TypeOK'
    BY <1>1, <1>2, <1>9, <1>10, <1>13, <2>2 DEF TypeOK, ContextsTyped, PathContext, Offsets
  <2>4. Filled'
    BY <1>1, <1>13, <2>2 DEF Filled
  <2>5. LeftOf(names, k + 1)'
    BY <1>9, <1>13
  <2>6. LookupAt(w)'
    <3>1. CASE path' = <<>>
      <4>1. k + 1 = Len(names)
        <5>1. PICK length \in Nat : length = Len(names)
          OBVIOUS
        <5>2. Len(path') = 0
          BY <3>1
        <5>3. k + 1 \in Int /\ length - (k + 1) = 0
          BY <2>5, <5>1, <5>2 DEF LeftOf
        <5>4. QED
          BY <5>1, <5>3
      <4>2. asked.found = w
        BY <1>11, <2>1, <4>1 DEF Named
      <4>3. Describes(context[c], w)
        BY <1>6 DEF Describes
      <4>4. QED
        BY <1>1, <1>6, <2>2, <3>1, <4>2, <4>3 DEF LookupAt
    <3>2. CASE path' # <<>>
      BY <1>1, <1>6, <2>2, <3>2 DEF LookupAt
    <3>3. QED
      BY <3>1, <3>2
  <2>7. Looks(from, names, k + 1)'
    BY <1>1, <1>11, <2>1, <2>5, <2>6 DEF Looks
  <2>8. PICK m \in 0 .. Len(names) : m = k + 1
    BY <1>9
  <2>9. Looks(from, names, m)'
    BY <2>7, <2>8
  <2>10. at' \in {"context", "element", "scan", "entry", "return"} /\ UNCHANGED <<currentDir, call, c, out, history>>
    BY <1>1, <1>2, <2>2 DEF history
  <2>11. QED
    BY <1>1, <1>10, <2>3, <2>4, <2>9, <2>10, LookupStep
<1>14. CASE /\ name # Invalid /\ ~ItselfInRoot(name) /\ at' = "scan" /\ index' = context[c].offset
            /\ UNCHANGED <<path, result>>
  <2>1. index' = 0 /\ context[c].nextSec = FirstSector(base) + 0
    BY <1>6, <1>7, <1>14 DEF Fresh
  <2>2. TypeOK'
    BY <1>1, <1>2, <1>10, <1>14, <2>1, Sizes DEF TypeOK, ContextsTyped, PathContext, Offsets
  <2>3. Filled'
    BY <1>1, <1>14, <2>1 DEF Filled
  <2>4. ScanIs(base, 0, 0)'
    <3>1. 0 % EntriesPerSector = 0
      BY RestOf, Sizes
    <3>2. QED
      BY <1>1, <1>14, <2>1, <3>1 DEF ScanIs, PlaceIs, NoEndBefore
  <2>5. NoneNamed(base, name, 0)
    BY <1>7, PlacesAre DEF NoneNamed
  <2>6. 0 \in Places(base)
    BY <1>7, PlacesAre
  <2>7. LookupAt(w)'
    BY <1>1, <1>6, <1>8, <1>14, <2>4, <2>5, <2>6 DEF LookupAt, ItselfInRoot
  <2>8. Looks(from, names, k)'
    BY <1>1, <1>5, <1>11, <1>14, <2>7 DEF Looks, LeftOf
  <2>9. QED
    BY <1>1, <1>2, <1>10, <1>14, <2>2, <2>3, <2>8, LookupStep DEF history
<1>15. QED
  BY <1>8, <1>12, <1>13, <1>14 DEF ExtractNextPathElement, Finish

-----------------------------------------------------------------------------
(***************************************************************************)
(* Steps of a scan, in a lookup or in a listing.                           *)
(***************************************************************************)
LEMMA ScanCalls ==
  ASSUME Inv, at \in {"scan", "entry"}
  PROVE  call \in {"FMCreateContext", "FMReadDir"} /\ TypeOK /\ Filled /\ OthersOpen /\ out = <<>>
<1>1. TypeOK /\ call # "lost" /\ call # "none" /\ call # "FMReadFile"
  BY DEF Inv, RestInv, ReadInv
<1>2. call \in {"FMCreateContext", "FMReadDir"}
  BY <1>1 DEF TypeOK
<1>3. QED
  BY <1>1, <1>2 DEF Inv, LookupInv, ListInv

LEMMA LookupGoesOn ==
  ASSUME at \in {"scan", "entry"}, at' \in {"scan", "entry"}, UNCHANGED <<path, base, asked>>,
         NEW from, NEW names, NEW k, Looks(from, names, k),
         NEW block, block = base, NEW i \in Places(block), NEW r \in Nat,
         ScanIs(block, i, r)', NoneNamed(block, Head(path), i)
  PROVE  Looks(from, names, k)'
<1>1. PICK w : w = Way(from, names)[k]
  OBVIOUS
<1>2. /\ IsObject(w) /\ w.kind = "dir" /\ base = w.block /\ path # <<>>
      /\ Head(path) # Invalid /\ ~ItselfInRoot(Head(path))
  BY <1>1 DEF Looks, LookupAt
<1>3. (\E j \in Places(base), s \in Nat : ScanIs(base, j, s) /\ NoneNamed(base, Head(path), j))'
  <2>1. base' = block /\ path' = path
    OBVIOUS
  <2>2. QED
    BY <2>1
<1>4. LookupAt(w)'
  BY <1>2, <1>3 DEF LookupAt, ItselfInRoot
<1>5. QED
  BY <1>1, <1>4 DEF Looks, LeftOf

\* Where the scan of a lookup is.
LEMMA LookupScans ==
  ASSUME Inv, call = "FMCreateContext", at \in {"scan", "entry"}
  PROVE  /\ base \in Directories
         /\ \E from \in Directories, names \in Seq(Names \cup {Invalid}) :
              \E k \in 0 .. Len(names) : Looks(from, names, k)
         /\ \E i \in Places(base), r \in Nat : ScanIs(base, i, r) /\ NoneNamed(base, Head(path), i)
<1>1. PICK from \in Directories, names \in Seq(Names \cup {Invalid}) :
        \E k \in 0 .. Len(names) : Looks(from, names, k)
  BY LookupIs
<1>2. PICK k \in 0 .. Len(names) : Looks(from, names, k)
  BY <1>1
<1>3. PICK w : w = Way(from, names)[k]
  OBVIOUS
<1>4. LookupAt(w)
  BY <1>2, <1>3 DEF Looks
<1>5. IsObject(w) /\ w.kind = "dir" /\ base = w.block
  BY <1>4 DEF LookupAt
<1>6. \E i \in Places(base), r \in Nat : ScanIs(base, i, r) /\ NoneNamed(base, Head(path), i)
  BY <1>4 DEF LookupAt
<1>7. QED
  BY <1>1, <1>5, <1>6, ObjectIsOpen

LEMMA ListGoesOn ==
  ASSUME Inv, call = "FMReadDir", at \in {"scan", "entry"}, at' \in {"scan", "entry"},
         UNCHANGED <<c, out, object, pos, trusted>>,
         context'[c].dir = context[c].dir, context'[c].currBlock = context[c].currBlock,
         trusted => \E i \in Places(object[c].block), r \in Nat :
                      ScanIs(object[c].block, i, r)' /\ pos[c] = Rank(object[c].block, i),
         at' = "scan" => context'[c].nextSec <= Last,
         at' = "entry" => context'[c].nextSec <= Last \/ (dosBuffer' = Last /\ index' = 0)
  PROVE  ListInv'
<1>1. PICK o : o = object[c]
  OBVIOUS
<1>2. /\ IsObject(o) /\ out = <<>> /\ o.kind # "file" /\ context[c].dir
      /\ context[c].currBlock = o.block
  BY <1>1, ObjectIsOpen DEF Inv, ListInv
<1>3. QED
  BY <1>1, <1>2 DEF ListInv

\* Where the scan of a listing is.
LEMMA ListScans ==
  ASSUME Inv, call = "FMReadDir", at \in {"scan", "entry"}
  PROVE  /\ IsObject(object[c]) /\ object[c].kind = "dir" /\ object[c].block \in Directories
         /\ context[c].dir /\ context[c].currBlock = object[c].block
         /\ trusted => \E i \in Places(object[c].block), r \in Nat :
                         ScanIs(object[c].block, i, r) /\ pos[c] = Rank(object[c].block, i)
         /\ at = "scan" => context[c].nextSec <= Last
         /\ at = "entry" => context[c].nextSec <= Last \/ (dosBuffer = Last /\ index = 0)
<1>1. PICK o : o = object[c]
  OBVIOUS
<1>2. IsObject(o) /\ o.kind # "file"
  BY <1>1 DEF Inv, ListInv
<1>3. o.kind = "dir" /\ o.block \in Directories
  BY <1>2, ObjectIsOpen
<1>4. QED
  BY <1>1, <1>2, <1>3 DEF Inv, ListInv

LEMMA ReadDirSectorInv ==
  ASSUME Inv, ReadDirSector
  PROVE  Inv'
<1>1. /\ at = "scan" /\ dosBuffer' = context[c].nextSec /\ index' = 0 /\ at' = "entry"
      /\ context' = [context EXCEPT ![c] = AfterSector(@)]
      /\ UNCHANGED <<currentDir, call, c, path, base, left, out, result,
                     asked, trusted, object, pos>>
  BY DEF ReadDirSector, history
<1>2. call \in {"FMCreateContext", "FMReadDir"} /\ TypeOK /\ Filled /\ OthersOpen
  BY <1>1, ScanCalls
<1>3. PICK y : y = AfterSector(context[c])
  OBVIOUS
<1>4. c \in Contexts /\ context \in [Contexts -> PathContext] /\ context[c].nextSec \in Nat
  BY <1>2, Typed DEF ContextsTyped, PathContext
<1>5. /\ y.nextSec = context[c].nextSec + 1 /\ y.dir = context[c].dir
      /\ y.currBlock = context[c].currBlock /\ y.offset = 0 /\ y \in PathContext
  <2>1. PICK x \in PathContext : x = context[c]
    BY <1>4
  <2>2. y = [x EXCEPT !.nextSec = x.nextSec + 1, !.offset = 0] /\ x.nextSec + 1 \in Nat
    BY <1>3, <2>1 DEF AfterSector, PathContext
  <2>3. y.nextSec = x.nextSec + 1 /\ y.dir = x.dir /\ y.currBlock = x.currBlock /\ y.offset = 0
    BY <2>2 DEF PathContext
  <2>4. y \in PathContext
    BY <2>2 DEF PathContext
  <2>5. QED
    BY <2>1, <2>3, <2>4
<1>6. Becomes(y)
  BY <1>1, <1>3, <1>4, <1>5, EmptyIs DEF Becomes
<1>7. ContextsTyped' /\ context'[c] = y
  BY <1>2, <1>6, BecomesTyped
<1>8. context[c].nextSec \in Sectors
  <2>1. CASE call = "FMCreateContext"
    BY <1>1, <1>2, <2>1, LookupScans, ScanReads
  <2>2. CASE call = "FMReadDir"
    <3>1. context[c].nextSec <= Last
      BY <1>1, <2>2, ListScans
    <3>2. Last \in Nat /\ 0 .. Last \subseteq Sectors
      BY LastIs DEF StopsAt
    <3>3. QED
      BY <1>4, <3>1, <3>2
  <2>3. QED
    BY <1>2, <2>1, <2>2
<1>9. TypeOK'
  <2>1. /\ dosBuffer' \in {0} \cup Sectors
        /\ index' \in 0 .. EntriesPerSector
        /\ at' \in {"none", "context", "element", "scan", "entry", "aligned", "cluster", "sector", "return"}
    BY <1>1, <1>8, Sizes
  <2>2. /\ context' \in [Contexts -> PathContext]
        /\ \A e \in Contexts : context'[e].offset \in Offsets
    BY <1>7 DEF ContextsTyped
  <2>3. QED
    BY <1>1, <1>2, <2>1, <2>2 DEF TypeOK, PathContext, Offsets
<1>10. Filled'
  BY <1>1, <1>8, Sizes DEF Filled
<1>11. OthersOpen'
  BY <1>1, <1>2, <1>6, OthersKept
<1>12. CASE call = "FMCreateContext"
  <2>1. PICK block \in Directories : block = base
    BY <1>1, <1>12, LookupScans
  <2>2. PICK i \in Places(block), r \in Nat : ScanIs(block, i, r) /\ NoneNamed(block, Head(path), i)
    BY <1>1, <1>12, <2>1, LookupScans
  <2>3. ScanIs(block, i, r + 1)' /\ r + 1 \in Nat
    BY <1>2, <2>2, ScanReads
  <2>4. PICK from \in Directories, names \in Seq(Names \cup {Invalid}) :
          \E k \in 0 .. Len(names) : Looks(from, names, k)
    BY <1>12, LookupIs
  <2>5. PICK k \in 0 .. Len(names) : Looks(from, names, k)
    BY <2>4
  <2>6. Looks(from, names, k)'
    BY <1>1, <2>1, <2>2, <2>3, <2>5, LookupGoesOn
  <2>7. QED
    BY <1>1, <1>9, <1>10, <1>11, <1>12, <2>6, LookupStep DEF history
<1>13. CASE call = "FMReadDir"
  <2>1. PICK block : block = object[c].block
    OBVIOUS
  <2>2. block \in Directories /\ context[c].nextSec <= Last
    BY <1>1, <1>13, <2>1, ListScans
  <2>3. ASSUME trusted
        PROVE  \E i \in Places(block), r \in Nat : ScanIs(block, i, r)' /\ pos[c] = Rank(block, i)
    <3>1. PICK i \in Places(block), r \in Nat : ScanIs(block, i, r) /\ pos[c] = Rank(block, i)
      BY <1>1, <1>13, <2>1, <2>3, ListScans
    <3>2. ScanIs(block, i, r + 1)' /\ r + 1 \in Nat
      BY <1>2, <2>2, <3>1, ScanReads
    <3>3. QED
      BY <3>1, <3>2
  <2>4. context'[c].nextSec <= Last \/ dosBuffer' = Last
    <3>1. PICK s \in Nat, last \in Nat : s = context[c].nextSec /\ last = Last
      BY <1>4, LastIs
    <3>2. s <= last
      BY <2>2, <3>1
    <3>3. s + 1 <= last \/ s = last
      BY <3>2
    <3>4. QED
      BY <1>1, <1>5, <1>7, <3>1, <3>3
  <2>5. ListInv'
    BY <1>1, <1>5, <1>7, <1>13, <2>1, <2>3, <2>4, ListGoesOn
  <2>6. QED
    BY <1>1, <1>9, <1>10, <1>11, <1>13, <2>5 DEF Inv
<1>14. QED
  BY <1>2, <1>12, <1>13

LEMMA SameDirSectorInv ==
  ASSUME Inv, SameDirSector
  PROVE  Inv'
<1>1. /\ at = "scan" /\ index % EntriesPerSector # 0 /\ at' = "entry"
      /\ UNCHANGED <<context, dosBuffer, currentDir, call, c, path, base, index, left, out, result,
                     asked, trusted, object, pos>>
  BY DEF SameDirSector, disk, registers, history
<1>2. call \in {"FMCreateContext", "FMReadDir"} /\ TypeOK /\ Filled /\ OthersOpen
  BY <1>1, ScanCalls
<1>3. index # 0 /\ index < EntriesPerSector
  <2>1. PICK k \in 0 .. EntriesPerSector : k = index
    BY <1>2 DEF TypeOK
  <2>2. k # 0 /\ k # EntriesPerSector
    BY <1>1, <2>1, RestOf, Sizes
  <2>3. QED
    BY <2>1, <2>2, Sizes
<1>4. TypeOK'
  BY <1>1, <1>2 DEF TypeOK
<1>5. Filled' /\ OthersOpen'
  BY <1>1, <1>2, <1>3, OthersSame DEF Filled
<1>6. CASE call = "FMCreateContext"
  <2>1. PICK block \in Directories : block = base
    BY <1>1, <1>6, LookupScans
  <2>2. PICK i \in Places(block), r \in Nat : ScanIs(block, i, r) /\ NoneNamed(block, Head(path), i)
    BY <1>1, <1>6, <2>1, LookupScans
  <2>3. ScanIs(block, i, r)'
    BY <1>2, <2>2, ScanStays
  <2>4. PICK from \in Directories, names \in Seq(Names \cup {Invalid}) :
          \E k \in 0 .. Len(names) : Looks(from, names, k)
    BY <1>6, LookupIs
  <2>5. PICK k \in 0 .. Len(names) : Looks(from, names, k)
    BY <2>4
  <2>6. Looks(from, names, k)'
    BY <1>1, <2>1, <2>2, <2>3, <2>5, LookupGoesOn
  <2>7. QED
    BY <1>1, <1>4, <1>5, <1>6, <2>6, LookupStep DEF history
<1>7. CASE call = "FMReadDir"
  <2>1. PICK block : block = object[c].block
    OBVIOUS
  <2>2. block \in Directories /\ context[c].nextSec <= Last
    BY <1>1, <1>7, <2>1, ListScans
  <2>3. ASSUME trusted
        PROVE  \E i \in Places(block), r \in Nat : ScanIs(block, i, r)' /\ pos[c] = Rank(block, i)
    <3>1. PICK i \in Places(block), r \in Nat : ScanIs(block, i, r) /\ pos[c] = Rank(block, i)
      BY <1>1, <1>7, <2>1, <2>3, ListScans
    <3>2. ScanIs(block, i, r)'
      BY <1>2, <2>2, <3>1, ScanStays
    <3>3. QED
      BY <3>1, <3>2
  <2>4. ListInv'
    BY <1>1, <1>7, <2>1, <2>2, <2>3, ListGoesOn
  <2>5. QED
    BY <1>1, <1>4, <1>5, <1>7, <2>4 DEF Inv
<1>8. QED
  BY <1>2, <1>6, <1>7

\* The object whose directory a lookup scans, and what the path names in it.
LEMMA LookupWay ==
  ASSUME Inv, call = "FMCreateContext", at \in {"scan", "entry"},
         NEW from \in Directories, NEW names \in Seq(Names \cup {Invalid}),
         NEW k \in 0 .. Len(names), Looks(from, names, k), NEW w, w = Way(from, names)[k]
  PROVE  /\ IsObject(w) /\ w.kind = "dir" /\ base = w.block /\ w.block \in Directories
         /\ ~(Head(path) = Dot /\ w.block = 0)
         /\ k + 1 \in 0 .. Len(names) /\ Way(from, names)[k + 1] = Child(w, Head(path))
         /\ Tail(path) \in Seq(Names \cup {Invalid})
         /\ path' = Tail(path) => LeftOf(names, k + 1)'
         /\ asked.found = Named(from, names)
         /\ \A j \in 0 .. Len(names) - 1 : Way(from, names)[j].kind # "file"
<1>1. TypeOK
  BY DEF Inv
<1>2. LookupAt(w) /\ LeftOf(names, k) /\ asked.found = Named(from, names)
      /\ \A j \in 0 .. Len(names) - 1 : Way(from, names)[j].kind # "file"
  BY DEF Looks
<1>3. /\ IsObject(w) /\ w.kind = "dir" /\ base = w.block /\ path # <<>>
      /\ ~(Head(path) = Dot /\ w.block = 0)
  BY <1>2 DEF LookupAt, ItselfInRoot
<1>4. /\ k + 1 \in 1 .. Len(names) /\ Head(path) = names[k + 1]
      /\ Tail(path) \in Seq(Names \cup {Invalid})
      /\ path' = Tail(path) => LeftOf(names, k + 1)'
  BY <1>1, <1>2, <1>3, NextNames
<1>5. Way(from, names)[k + 1] = Child(w, Head(path))
  <2>1. Len(names) \in Nat
    OBVIOUS
  <2>2. \A j \in 1 .. Len(names) : Way(from, names)[j] = Child(Way(from, names)[j - 1], names[j])
    BY <2>1, WayIs
  <2>3. PICK m \in 1 .. Len(names) : m = k + 1 /\ m - 1 = k
    BY <1>4
  <2>4. Way(from, names)[m] = Child(Way(from, names)[m - 1], names[m])
    BY <2>2
  <2>5. QED
    BY <1>4, <2>3, <2>4
<1>6. k + 1 \in 0 .. Len(names)
  BY <1>4
<1>7. QED
  BY <1>2, <1>3, <1>4, <1>5, <1>6, ObjectIsOpen

\* The entry looked at is one of the disk's, and in a listing it is not the
\* one that stops it, unless it does.
LEMMA EntryIs ==
  ASSUME Inv, at = "entry"
  PROVE  /\ Entry \in EntryType /\ dosBuffer \in Sectors
         /\ index \in Nat /\ index + 1 \in 0 .. EntriesPerSector
         /\ call = "FMReadDir" /\ Entry.kind # "end" => context[c].nextSec <= Last
<1>1. TypeOK /\ Filled
  BY ScanCalls
<1>2. PICK k \in 0 .. EntriesPerSector : k = index /\ k < EntriesPerSector
  BY <1>1 DEF TypeOK, Filled
<1>3. k \in 0 .. EntriesPerSector - 1 /\ k + 1 \in 0 .. EntriesPerSector /\ k \in Nat
  BY <1>2, Sizes
<1>4. dosBuffer \in Sectors
  BY <1>1 DEF Filled
<1>5. Entry \in EntryType
  BY <1>2, <1>3, <1>4, FileSystemAssumption DEF Entry
<1>6. ASSUME call = "FMReadDir", Entry.kind # "end"
      PROVE  context[c].nextSec <= Last
  <2>1. context[c].nextSec <= Last \/ (dosBuffer = Last /\ index = 0)
    BY <1>6, ListScans
  <2>2. Entries[Last][0].kind = "end"
    BY LastIs DEF StopsAt
  <2>3. QED
    BY <1>6, <2>1, <2>2 DEF Entry
<1>7. QED
  BY <1>2, <1>3, <1>4, <1>5, <1>6

LEMMA EndOfListingInv ==
  ASSUME Inv, EndOfListing
  PROVE  Inv'
<1>1. /\ at = "entry" /\ Entry.kind = "end" /\ at' = "return"
      /\ result' = (IF call = "FMReadDir" THEN "end" ELSE "error")
      /\ UNCHANGED <<context, dosBuffer, currentDir, call, c, path, base, index, left, out,
                     asked, trusted, object, pos>>
  BY DEF EndOfListing, Finish, disk, registers, history
<1>2. /\ call \in {"FMCreateContext", "FMReadDir"} /\ TypeOK /\ Filled /\ OthersOpen /\ out = <<>>
      /\ dosBuffer \in Sectors
  BY <1>1, ScanCalls, EntryIs
<1>3. TypeOK'
  BY <1>1, <1>2 DEF TypeOK
<1>4. Filled' /\ OthersOpen'
  BY <1>1, <1>2, OthersSame DEF Filled
<1>5. CASE call = "FMCreateContext"
  <2>1. PICK block \in Directories : block = base
    BY <1>1, <1>5, LookupScans
  <2>2. PICK i \in Places(block), r \in Nat : ScanIs(block, i, r) /\ NoneNamed(block, Head(path), i)
    BY <1>1, <1>5, <2>1, LookupScans
  <2>3. PICK from \in Directories, names \in Seq(Names \cup {Invalid}) :
          \E k \in 0 .. Len(names) : Looks(from, names, k)
    BY <1>5, LookupIs
  <2>4. PICK k \in 0 .. Len(names) : Looks(from, names, k)
    BY <2>3
  <2>5. PICK w : w = Way(from, names)[k]
    OBVIOUS
  <2>6. /\ IsObject(w) /\ w.kind = "dir" /\ block = w.block /\ ~(Head(path) = Dot /\ w.block = 0)
        /\ k + 1 \in 0 .. Len(names) /\ Way(from, names)[k + 1] = Child(w, Head(path))
        /\ asked.found = Named(from, names)
        /\ \A j \in 0 .. Len(names) - 1 : Way(from, names)[j].kind # "file"
    BY <1>1, <1>5, <2>1, <2>4, <2>5, LookupWay
  <2>7. \A j \in Listed(block) : EntryAt(block, j).name # Head(path)
    <3>1. Entry = EntryAt(block, i)
      BY <1>1, <1>2, <2>2, ScanSees
    <3>2. NoEndBefore(block, i)
      BY <2>2 DEF ScanIs
    <3>3. \A j \in Listed(block) : j < i
      BY <1>1, <3>1, <3>2, PlaceHolds
    <3>4. QED
      BY <2>2, <3>3 DEF NoneNamed
  <2>8. Child(w, Head(path)) = Closed
    BY <2>6, <2>7, ChildMissing
  <2>9. asked.found = Closed
    <3>1. PICK m \in 0 .. Len(names) : m = k + 1
      BY <2>6
    <3>2. Len(names) \in Nat /\ Way(from, names)[m] = Closed
      BY <2>6, <2>8, <3>1
    <3>3. QED
      BY <2>6, <3>2, ClosedStays
  <2>10. LookupAt(w)'
    BY <1>1, <1>5, <2>9 DEF LookupAt
  <2>11. Looks(from, names, k)'
    BY <1>1, <2>4, <2>5, <2>10 DEF Looks, LeftOf
  <2>12. QED
    BY <1>1, <1>3, <1>4, <1>5, <2>11, LookupStep DEF history
<1>6. CASE call = "FMReadDir"
  <2>1. PICK block : block = object[c].block
    OBVIOUS
  <2>2. /\ IsObject(object[c]) /\ object[c].kind = "dir" /\ block \in Directories
        /\ context[c].dir /\ context[c].currBlock = block
    BY <1>1, <1>6, <2>1, ListScans
  <2>3. ASSUME trusted, NEW j \in Listed(block)
        PROVE  Rank(block, j) # pos[c]
    <3>1. PICK i \in Places(block), r \in Nat : ScanIs(block, i, r) /\ pos[c] = Rank(block, i)
      BY <1>1, <1>6, <2>1, <2>3, ListScans
    <3>2. Entry = EntryAt(block, i)
      BY <1>1, <1>2, <2>2, <3>1, ScanSees
    <3>3. NoEndBefore(block, i)
      BY <3>1 DEF ScanIs
    <3>4. i \in Nat /\ j < i
      BY <1>1, <2>2, <2>3, <3>2, <3>3, PlaceHolds
    <3>5. Rank(block, j) < Rank(block, i)
      BY <2>2, <2>3, <3>4, RankGrows
    <3>6. j \in Nat
      BY <2>2, <2>3, ListedObject
    <3>7. PICK a \in Nat, b \in Nat : a = Rank(block, j) /\ b = Rank(block, i)
      BY <2>2, <3>4, <3>6, Before
    <3>8. a # b
      BY <3>5, <3>7
    <3>9. QED
      BY <3>1, <3>7, <3>8
  <2>4. ListInv'
    BY <1>1, <1>2, <1>6, <2>1, <2>2, <2>3 DEF ListInv
  <2>5. QED
    BY <1>1, <1>3, <1>4, <1>6, <2>4 DEF Inv
<1>7. QED
  BY <1>2, <1>5, <1>6

LEMMA SkipEntryInv ==
  ASSUME Inv, SkipEntry
  PROVE  Inv'
<1>1. /\ at = "entry" /\ Entry.kind \in {"deleted", "skipped"} /\ index' = index + 1 /\ at' = "scan"
      /\ UNCHANGED <<context, dosBuffer, currentDir, call, c, path, base, left, out, result,
                     asked, trusted, object, pos>>
  BY DEF SkipEntry, disk, history
<1>2. /\ call \in {"FMCreateContext", "FMReadDir"} /\ TypeOK /\ Filled /\ OthersOpen /\ out = <<>>
      /\ dosBuffer \in Sectors /\ index + 1 \in 0 .. EntriesPerSector
  BY <1>1, ScanCalls, EntryIs
<1>3. TypeOK'
  BY <1>1, <1>2 DEF TypeOK
<1>4. Filled' /\ OthersOpen'
  BY <1>1, <1>2, OthersSame DEF Filled
\* The next place, behind one that holds no usable entry.
<1>5. ASSUME NEW block \in Directories, NEW i \in Places(block), NEW r \in Nat, ScanIs(block, i, r)
      PROVE  i + 1 \in Places(block) /\ ScanIs(block, i + 1, r)' /\ i \in Nat /\ i \notin Listed(block)
  <2>1. Entry = EntryAt(block, i)
    BY <1>1, <1>2, <1>5, ScanSees
  <2>2. NoEndBefore(block, i) /\ Entry.kind # "end" /\ Entry.kind \notin {"file", "dir"}
    BY <1>1, <1>5 DEF ScanIs
  <2>3. i + 1 \in Places(block) /\ i \in Nat /\ i \notin Listed(block)
    BY <1>5, <2>1, <2>2, PlaceHolds
  <2>4. ScanIs(block, i + 1, r)'
    BY <1>1, <1>2, <1>5, <2>2, ScanSteps
  <2>5. QED
    BY <2>3, <2>4
<1>6. CASE call = "FMCreateContext"
  <2>1. PICK block \in Directories : block = base
    BY <1>1, <1>6, LookupScans
  <2>2. PICK i \in Places(block), r \in Nat : ScanIs(block, i, r) /\ NoneNamed(block, Head(path), i)
    BY <1>1, <1>6, <2>1, LookupScans
  <2>3. PICK n \in Places(block) : n = i + 1 /\ ScanIs(block, n, r)' /\ i \in Nat /\ i \notin Listed(block)
    BY <1>5, <2>2
  <2>4. NoneNamed(block, Head(path), n)
    <3>1. ASSUME NEW j \in Listed(block), j < n
          PROVE  j < i
      <4>1. j \in Nat
        BY PlacesAre
      <4>2. QED
        BY <2>3, <3>1, <4>1
    <3>2. QED
      BY <2>2, <3>1 DEF NoneNamed
  <2>5. PICK from \in Directories, names \in Seq(Names \cup {Invalid}) :
          \E k \in 0 .. Len(names) : Looks(from, names, k)
    BY <1>6, LookupIs
  <2>6. PICK k \in 0 .. Len(names) : Looks(from, names, k)
    BY <2>5
  <2>7. Looks(from, names, k)'
    BY <1>1, <2>1, <2>3, <2>4, <2>6, LookupGoesOn
  <2>8. QED
    BY <1>1, <1>3, <1>4, <1>6, <2>7, LookupStep DEF history
<1>7. CASE call = "FMReadDir"
  <2>1. PICK block : block = object[c].block
    OBVIOUS
  <2>2. block \in Directories
    BY <1>1, <1>7, <2>1, ListScans
  <2>3. ASSUME trusted
        PROVE  \E i \in Places(block), r \in Nat : ScanIs(block, i, r)' /\ pos[c] = Rank(block, i)
    <3>1. PICK i \in Places(block), r \in Nat : ScanIs(block, i, r) /\ pos[c] = Rank(block, i)
      BY <1>1, <1>7, <2>1, <2>3, ListScans
    <3>2. /\ i + 1 \in Places(block) /\ ScanIs(block, i + 1, r)'
          /\ i \in Nat /\ i \notin Listed(block)
      BY <1>5, <2>2, <3>1
    <3>3. Rank(block, i + 1) = pos[c]
      BY <2>2, <3>1, <3>2, RankAfter
    <3>4. QED
      BY <3>2, <3>3
  <2>4. context[c].nextSec <= Last
    BY <1>1, <1>7, EntryIs
  <2>5. ListInv'
    BY <1>1, <1>7, <2>1, <2>3, <2>4, ListGoesOn
  <2>6. QED
    BY <1>1, <1>3, <1>4, <1>7, <2>5 DEF Inv
<1>8. QED
  BY <1>2, <1>6, <1>7

LEMMA EntryOkInv ==
  ASSUME Inv, EntryOk
  PROVE  Inv'
<1>1. /\ at = "entry" /\ Entry.kind \in {"file", "dir"} /\ Entry.kind # "end"
      /\ UNCHANGED <<dosBuffer, currentDir, call, c, left, asked, trusted, object, pos>>
  BY DEF EntryOk, history
<1>2. /\ call \in {"FMCreateContext", "FMReadDir"} /\ TypeOK /\ Filled /\ OthersOpen /\ out = <<>>
      /\ dosBuffer \in Sectors /\ index \in Nat /\ index + 1 \in 0 .. EntriesPerSector
  BY <1>1, ScanCalls, EntryIs
<1>3. PICK entry \in EntryType : entry = Entry
  BY <1>1, EntryIs
<1>4. PICK x \in PathContext : x = context[c]
  BY <1>2, Typed
<1>5. index + 1 \in Nat /\ index + 1 \in Offsets /\ entry.size \in Nat /\ entry.block \in Nat
  <2>1. entry.size \in Nat /\ entry.block \in Clusters
    BY DEF EntryType
  <2>2. entry.block \in Nat
    BY <2>1, FileSystemAssumption
  <2>3. index + 1 \in Nat /\ index + 1 \in Offsets
    BY <1>2 DEF Offsets
  <2>4. QED
    BY <2>1, <2>2, <2>3
\* The place looked at holds a usable entry; the scan may go on behind it.
<1>6. ASSUME NEW block \in Directories, NEW i \in Places(block), NEW r \in Nat, ScanIs(block, i, r)
      PROVE  /\ i + 1 \in Places(block) /\ i \in Nat /\ i \in Listed(block) /\ IsObject(entry)
             /\ entry = EntryAt(block, i) /\ r >= 1 /\ NoEndBefore(block, i + 1)
             /\ i = (r - 1) * EntriesPerSector + index /\ context[c].nextSec = FirstSector(block) + r
  <2>1. Entry = EntryAt(block, i) /\ r >= 1
    BY <1>1, <1>2, <1>6, ScanSees
  <2>2. /\ NoEndBefore(block, i) /\ i = (r - 1) * EntriesPerSector + index
        /\ context[c].nextSec = FirstSector(block) + r
    BY <1>1, <1>6 DEF ScanIs
  <2>3. /\ i + 1 \in Places(block) /\ NoEndBefore(block, i + 1) /\ i \in Nat
        /\ i \in Listed(block) /\ IsObject(entry)
    BY <1>1, <1>3, <1>6, <2>1, <2>2, PlaceHolds
  <2>4. QED
    BY <1>3, <2>1, <2>2, <2>3
<1>7. CASE call = "FMCreateContext" /\ Compare(entry)
  <2>1. PICK y : y = [x EXCEPT !.offset = index + 1, !.bytesRem = entry.size,
                               !.dir = (entry.kind = "dir")]
    OBVIOUS
  <2>2. /\ y \in PathContext /\ y.offset = index + 1 /\ y.nextSec = x.nextSec
        /\ y.bytesRem = entry.size /\ y.dir = (entry.kind = "dir")
    BY <1>5, <2>1 DEF PathContext
  <2>3. context' = [context EXCEPT ![c] = y] /\ out' = out /\ result' = result
    BY <1>3, <1>4, <1>7, <2>1 DEF Compare, BehindEntry
  <2>4. Becomes(y)
    BY <1>5, <2>2, <2>3 DEF Becomes
  <2>5. ContextsTyped' /\ context'[c] = y /\ OthersOpen'
    BY <1>1, <1>2, <2>4, BecomesTyped, OthersKept
  <2>6. PICK block \in Directories : block = base
    BY <1>1, <1>7, LookupScans
  <2>7. PICK i \in Places(block), r \in Nat : ScanIs(block, i, r) /\ NoneNamed(block, Head(path), i)
    BY <1>1, <1>7, <2>6, LookupScans
  <2>8. /\ i + 1 \in Places(block) /\ i \in Nat /\ i \in Listed(block) /\ IsObject(entry)
        /\ entry = EntryAt(block, i)
    BY <1>6, <2>7
  <2>9. PICK from \in Directories, names \in Seq(Names \cup {Invalid}) :
          \E k \in 0 .. Len(names) : Looks(from, names, k)
    BY <1>7, LookupIs
  <2>10. PICK k \in 0 .. Len(names) : Looks(from, names, k)
    BY <2>9
  <2>11. PICK w : w = Way(from, names)[k]
    OBVIOUS
  <2>12. /\ IsObject(w) /\ w.kind = "dir" /\ block = w.block /\ ~(Head(path) = Dot /\ w.block = 0)
         /\ k + 1 \in 0 .. Len(names) /\ Way(from, names)[k + 1] = Child(w, Head(path))
         /\ Tail(path) \in Seq(Names \cup {Invalid})
         /\ path' = Tail(path) => LeftOf(names, k + 1)'
         /\ asked.found = Named(from, names)
         /\ \A j \in 0 .. Len(names) - 1 : Way(from, names)[j].kind # "file"
    BY <1>1, <1>7, <2>6, <2>10, <2>11, LookupWay
  <2>13. CASE /\ entry.name = Head(path) /\ at' = "context" /\ base' = entry.block
              /\ path' = Tail(path) /\ index' = index
    <3>1. Way(from, names)[k + 1] = entry
      BY <2>7, <2>8, <2>12, <2>13, ChildFound
    <3>2. TypeOK'
      BY <1>1, <1>2, <1>5, <2>3, <2>5, <2>12, <2>13 DEF TypeOK, ContextsTyped, PathContext, Offsets
    <3>3. Filled'
      BY <1>1, <1>2, <2>13 DEF Filled
    <3>4. Describes(y, entry)
      BY <2>2 DEF Describes
    <3>5. LookupAt(entry)'
      BY <1>1, <2>5, <2>8, <2>13, <3>4 DEF LookupAt
    <3>6. PICK m \in 0 .. Len(names) : m = k + 1
      BY <2>12
    <3>7. Looks(from, names, m)'
      BY <1>1, <2>12, <2>13, <3>1, <3>5, <3>6 DEF Looks
    <3>8. at' \in {"context", "element", "scan", "entry", "return"}
          /\ UNCHANGED <<currentDir, call, c, out, history>>
      BY <1>1, <2>3, <2>13 DEF history
    <3>9. QED
      BY <1>7, <2>5, <3>2, <3>3, <3>7, <3>8, LookupStep
  <2>14. CASE /\ entry.name # Head(path) /\ at' = "scan" /\ index' = index + 1
              /\ UNCHANGED <<base, path>>
    <3>1. TypeOK'
      BY <1>1, <1>2, <2>3, <2>5, <2>14 DEF TypeOK, ContextsTyped, PathContext, Offsets
    <3>2. Filled'
      BY <1>1, <1>2, <2>14 DEF Filled
    <3>3. PICK n \in Places(block) : n = i + 1
      BY <2>8
    <3>4. ScanIs(block, n, r)'
      <4>1. context'[c].nextSec = context[c].nextSec
        BY <1>4, <2>2, <2>5
      <4>2. UNCHANGED <<c, dosBuffer>>
        BY <1>1
      <4>3. ScanIs(block, i + 1, r)'
        BY <1>1, <1>2, <2>7, <2>14, <4>1, <4>2, ScanSteps
      <4>4. QED
        BY <3>3, <4>3
    <3>5. NoneNamed(block, Head(path), n)
      <4>1. ASSUME NEW j \in Listed(block), j < n
            PROVE  EntryAt(block, j).name # Head(path)
        <5>1. j \in Nat
          BY PlacesAre
        <5>2. j < i \/ j = i
          BY <2>8, <3>3, <4>1, <5>1
        <5>3. QED
          BY <2>7, <2>8, <2>14, <5>2 DEF NoneNamed
      <4>2. QED
        BY <4>1 DEF NoneNamed
    <3>6. Looks(from, names, k)'
      BY <1>1, <2>6, <2>10, <2>14, <3>4, <3>5, LookupGoesOn
    <3>7. at' \in {"context", "element", "scan", "entry", "return"}
          /\ UNCHANGED <<currentDir, call, c, out, history>>
      BY <1>1, <2>3, <2>14 DEF history
    <3>8. QED
      BY <1>7, <2>5, <3>1, <3>2, <3>6, <3>7, LookupStep
  <2>15. QED
    BY <1>7, <2>13, <2>14 DEF Compare
<1>8. CASE /\ call = "FMReadDir" /\ context' = [context EXCEPT ![c].offset = index + 1]
           /\ out' = <<entry>> /\ at' = "return" /\ result' = "ok" /\ UNCHANGED <<path, base, index>>
  <2>1. PICK y : y = [x EXCEPT !.offset = index + 1]
    OBVIOUS
  <2>2. /\ y \in PathContext /\ y.offset = index + 1 /\ y.nextSec = x.nextSec
        /\ y.dir = x.dir /\ y.currBlock = x.currBlock
    BY <1>5, <2>1 DEF PathContext
  <2>3. Becomes(y)
    BY <1>4, <1>5, <1>8, <2>1, <2>2 DEF Becomes
  <2>4. ContextsTyped' /\ context'[c] = y /\ OthersOpen'
    BY <1>1, <1>2, <2>3, BecomesTyped, OthersKept
  <2>5. TypeOK'
    <3>1. out' \in Seq(EntryType) /\ call' = "FMReadDir"
      BY <1>1, <1>8
    <3>2. out' \in IF call' = "FMReadDir" THEN Seq(EntryType) ELSE Seq(Locations)
      BY <3>1
    <3>3. QED
      BY <1>1, <1>2, <1>8, <2>4, <3>2 DEF TypeOK, ContextsTyped, PathContext, Offsets
  <2>6. Filled'
    BY <1>1, <1>2, <1>8 DEF Filled
  <2>7. PICK block : block = object[c].block
    OBVIOUS
  <2>8. /\ IsObject(object[c]) /\ object[c].kind = "dir" /\ block \in Directories
        /\ x.dir /\ x.currBlock = block
    BY <1>1, <1>4, <1>8, <2>7, ListScans
  <2>9. ASSUME trusted
        PROVE  /\ \E i \in Listed(block) : Rank(block, i) = pos[c] /\ entry = EntryAt(block, i)
               /\ Open(y, object[c], pos[c] + 1)
    <3>1. PICK i \in Places(block), r \in Nat : ScanIs(block, i, r) /\ pos[c] = Rank(block, i)
      BY <1>1, <1>8, <2>7, <2>9, ListScans
    <3>2. /\ i + 1 \in Places(block) /\ i \in Nat /\ i \in Listed(block)
          /\ entry = EntryAt(block, i) /\ r >= 1 /\ NoEndBefore(block, i + 1)
          /\ i = (r - 1) * EntriesPerSector + index /\ context[c].nextSec = FirstSector(block) + r
      BY <1>6, <2>8, <3>1
    <3>3. Rank(block, i + 1) = pos[c] + 1
      BY <2>8, <3>1, <3>2, RankAfter
    <3>4. PlaceIs(block, y.nextSec, y.offset, i + 1, r)
      <4>1. PICK m \in Nat, j \in Nat : m = r - 1 /\ j = index
        BY <1>2, <3>2
      <4>2. m * EntriesPerSector \in Int /\ i = m * EntriesPerSector + j
        BY <3>2, <4>1, Sizes
      <4>3. i + 1 = m * EntriesPerSector + (j + 1) /\ j + 1 # 0
        BY <4>2
      <4>4. QED
        BY <1>4, <2>2, <3>2, <4>1, <4>3 DEF PlaceIs
    <3>5. y.offset <= EntriesPerSector
      BY <1>2, <2>2, Sizes
    <3>6. InDirectory(y, block, pos[c] + 1)
      BY <2>2, <2>8, <3>2, <3>3, <3>4, <3>5 DEF InDirectory
    <3>7. QED
      BY <2>7, <2>8, <3>1, <3>2, <3>6 DEF Open
  <2>10. ListInv'
    BY <1>1, <1>8, <2>2, <2>4, <2>7, <2>8, <2>9 DEF ListInv
  <2>11. QED
    BY <1>1, <1>8, <2>4, <2>5, <2>6, <2>10 DEF Inv
<1>9. QED
  BY <1>3, <1>7, <1>8 DEF EntryOk, Finish, BehindEntry

\* The sector a listing goes on with.
LEMMA NextIsNear ==
  ASSUME NEW x \in PathContext, NEW block \in Directories, NEW p, InDirectory(x, block, p)
  PROVE  x.nextSec <= Last
<1> USE Sizes
<1>1. PICK i \in Places(block), r \in Nat : PlaceIs(block, x.nextSec, x.offset, i, r)
  BY DEF InDirectory
<1>2. PICK first \in Int, count \in Nat \ {0}, last \in Nat :
        first = FirstSector(block) /\ count = SectorCount(block) /\ last = Last
  BY SectorNumbers, LastIs, FileSystemAssumption
<1>3. first + count <= last
  BY <1>2, LastIs DEF StopsAt
<1>4. PICK k \in 0 .. EntriesPerSector : k = x.offset
  BY DEF InDirectory, PathContext
<1>5. r <= count
  <2>1. CASE k = 0
    BY <1>1, <1>4, <2>1 DEF PlaceIs
  <2>2. CASE k # 0
    <3>1. r >= 1 /\ i = (r - 1) * EntriesPerSector + k
      BY <1>1, <1>4, <2>2 DEF PlaceIs
    <3>2. PICK m \in Nat : m = r - 1 /\ r = m + 1
      BY <3>1
    <3>3. i = m * EntriesPerSector + (k - 1) + 1 /\ k - 1 \in 0 .. EntriesPerSector - 1
      <4>1. m * EntriesPerSector \in Int
        OBVIOUS
      <4>2. QED
        BY <2>2, <3>1, <3>2, <4>1
    <3>4. m * EntriesPerSector + (k - 1) < count * EntriesPerSector
      <4>1. m * EntriesPerSector \in Int /\ count * EntriesPerSector \in Int
        OBVIOUS
      <4>2. i <= count * EntriesPerSector - 1 /\ i \in Int
        BY <1>2, <4>1 DEF Places
      <4>3. QED
        BY <3>3, <4>1, <4>2
    <3>5. m < count
      BY <3>3, <3>4, FewerTimes
    <3>6. QED
      BY <3>2, <3>5
  <2>3. QED
    BY <2>1, <2>2
<1>6. x.nextSec = first + r
  BY <1>1, <1>2 DEF PlaceIs
<1>7. QED
  BY <1>2, <1>3, <1>5, <1>6

LEMMA ReadDirInv ==
  ASSUME Inv, FMReadDir
  PROVE  Inv'
<1> USE Sizes
<1>1. TypeOK /\ call = "none" /\ RestInv /\ Filled /\ OthersOpen /\ currentDir \in Directories
  BY DEF Inv, FMReadDir
<1>2. PICK d \in Contexts :
        /\ object[d] # Closed
        /\ c' = d /\ trusted' = Trusted(d)
        /\ IF context[d].dir
           THEN at' = "scan" /\ index' = context[d].offset /\ UNCHANGED result
           ELSE at' = "return" /\ result' = "error" /\ UNCHANGED index
  BY DEF FMReadDir, Finish
<1>3. /\ call' = "FMReadDir"
      /\ UNCHANGED <<context, dosBuffer, currentDir, path, base, left, out, asked, object, pos>>
  BY DEF FMReadDir, disk
<1>4. out = <<>> /\ out' = <<>> /\ index = 0
  BY <1>1, <1>3 DEF RestInv
<1>5. PICK x \in PathContext : x = context[d]
  BY <1>1, Typed DEF ContextsTyped
<1>6. PICK o : o = object[d]
  OBVIOUS
<1>7. Open(x, o, pos[d]) /\ IsObject(o)
  BY <1>1, <1>2, <1>5, <1>6, RestOpen DEF Open
<1>8. trusted' \in BOOLEAN
  BY <1>2 DEF Trusted
<1>9. OthersOpen'
  <2>1. ASSUME NEW e \in Contexts, object[e] # Closed
        PROVE  Open(context[e], object[e], pos[e])
    BY <1>1, <2>1, RestOpen
  <2>2. QED
    BY <1>3, <2>1 DEF OthersOpen
<1>10. CASE o.kind = "file"
  <2>1. at' = "return" /\ result' = "error" /\ index' = 0
    <3>1. ~x.dir
      BY <1>7, <1>10 DEF Open, InFile
    <3>2. QED
      BY <1>2, <1>4, <1>5, <3>1
  <2>2. TypeOK'
    BY <1>1, <1>2, <1>3, <1>4, <1>8, <2>1 DEF TypeOK
  <2>3. Filled'
    BY <1>1, <1>3, <2>1 DEF Filled
  <2>4. ListInv'
    BY <1>2, <1>3, <1>4, <1>5, <1>6, <1>7, <1>10, <2>1 DEF ListInv
  <2>5. QED
    BY <1>1, <1>3, <1>9, <2>2, <2>3, <2>4 DEF Inv
<1>11. CASE o.kind = "dir"
  <2>1. PICK block \in Directories : block = o.block
    BY <1>7, <1>11, ObjectIsOpen
  <2>2. InDirectory(x, block, pos[d])
    BY <1>7, <1>11, <2>1 DEF Open
  <2>3. x.dir /\ x.currBlock = block /\ x.offset \in 0 .. EntriesPerSector
    BY <2>2 DEF InDirectory, PathContext
  <2>4. at' = "scan" /\ index' = x.offset /\ result' = result
    BY <1>2, <1>5, <2>3
  <2>5. TypeOK'
    <3>1. /\ call' \in {"none", "FMCreateContext", "FMReadDir", "FMReadFile", "lost"}
          /\ at' \in {"none", "context", "element", "scan", "entry", "aligned", "cluster", "sector", "return"}
          /\ out' \in IF call' = "FMReadDir" THEN Seq(EntryType) ELSE Seq(Locations)
      BY <1>3, <1>4, <2>4
    <3>2. c' \in Contexts /\ index' \in 0 .. EntriesPerSector
      BY <1>2, <2>3, <2>4
    <3>3. QED
      BY <1>1, <1>3, <1>8, <2>4, <3>1, <3>2 DEF TypeOK
  <2>6. Filled'
    BY <1>1, <1>3, <1>5, <2>4 DEF Filled
  <2>7. ASSUME trusted'
        PROVE  \E i \in Places(block), r \in Nat : ScanIs(block, i, r)' /\ pos[d] = Rank(block, i)
    <3>1. PICK i \in Places(block), r \in Nat :
            PlaceIs(block, x.nextSec, x.offset, i, r) /\ NoEndBefore(block, i) /\ pos[d] = Rank(block, i)
      BY <2>2 DEF InDirectory
    <3>2. x.offset % EntriesPerSector # 0 => dosBuffer = x.nextSec - 1
      <4>1. x.offset % EntriesPerSector # 0 => x.offset # 0 /\ x.offset # EntriesPerSector
        <5>1. 0 \in 0 .. EntriesPerSector /\ 0 # EntriesPerSector
          OBVIOUS
        <5>2. 0 % EntriesPerSector = 0
          BY <5>1, RestOf
        <5>3. EntriesPerSector \in 0 .. EntriesPerSector
          OBVIOUS
        <5>4. EntriesPerSector % EntriesPerSector = 0
          BY <5>3, RestOf
        <5>5. QED
          BY <5>2, <5>4
      <4>2. Trusted(d)
        BY <1>2, <2>7
      <4>3. QED
        BY <1>5, <4>1, <4>2 DEF Trusted
    <3>3. ScanIs(block, i, r)'
      BY <1>2, <1>3, <1>5, <2>4, <3>1, <3>2 DEF ScanIs
    <3>4. QED
      BY <3>1, <3>3
  <2>8. x.nextSec <= Last
    BY <2>2, NextIsNear
  <2>9. ListInv'
    BY <1>2, <1>3, <1>4, <1>5, <1>6, <1>7, <1>11, <2>1, <2>3, <2>4, <2>7, <2>8 DEF ListInv
  <2>10. QED
    BY <1>1, <1>3, <1>9, <2>5, <2>6, <2>9 DEF Inv
<1>12. QED
  BY <1>7, <1>10, <1>11, ObjectIsOpen

-----------------------------------------------------------------------------
(***************************************************************************)
(* Reading a file.                                                         *)
(***************************************************************************)
LEMMA SamePlace ==
  ASSUME NEW x, NEW y, NEW o, NEW p, InFile(x, o, p),
         y.dir = x.dir, y.currBlock = x.currBlock, y.firstSec = x.firstSec,
         y.nextSec = x.nextSec, y.offset = x.offset
  PROVE  InFile(y, o, p)
BY DEF InFile, SectorsRead

LEMMA BytesAre ==
  ASSUME NEW s \in Sectors, NEW from \in Nat, NEW count \in Nat, from + count <= SectorSize
  PROVE  /\ Bytes(s, from, count) \in Seq(Locations) /\ Len(Bytes(s, from, count)) = count
         /\ \A i \in 1 .. count : Bytes(s, from, count)[i] = <<s, from + i - 1>>
<1> USE Sizes
<1>1. ASSUME NEW i \in 1 .. count
      PROVE  <<s, from + i - 1>> \in Locations
  <2>1. from + i - 1 \in 0 .. SectorSize - 1
    OBVIOUS
  <2>2. QED
    BY <2>1 DEF Locations
<1>2. [i \in 1 .. count |-> <<s, from + i - 1>>] \in [1 .. count -> Locations]
  BY <1>1
<1>3. Bytes(s, from, count) \in [1 .. count -> Locations]
  BY <1>2 DEF Bytes
<1>4. Bytes(s, from, count) \in Seq(Locations) /\ Len(Bytes(s, from, count)) = count
  BY <1>3
<1>5. QED
  BY <1>4 DEF Bytes

LEMMA NoBytes ==
  ASSUME NEW s, NEW from
  PROVE  Bytes(s, from, 0) = <<>>
BY DEF Bytes

\* Byte i of a file is in its sector on the disk.
LEMMA ByteFrom ==
  ASSUME NEW o, IsObject(o), o.kind = "file", NEW q \in Nat, NEW r \in 0 .. SectorsPerCluster - 1,
         NEW j \in 0 .. SectorSize - 1, NEW i, i = (q * SectorsPerCluster + r) * SectorSize + j,
         i < o.size, NEW first, first = FirstSector(Cluster(o, q))
  PROVE  /\ ByteAt(o, i) = <<first + r, j>> /\ first + r \in Sectors /\ first \in Nat
         /\ ClusterSound(Cluster(o, q)) /\ first = FATClusterToSector(Cluster(o, q))
         /\ i \div SectorSize = q * SectorsPerCluster + r
<1>1. ClusterSound(Cluster(o, q))
  BY ClusterOfByte
<1>2. Cluster(o, q) \in Nat
  <2>1. o.block \in Clusters
    BY ObjectIsOpen
  <2>2. Chain(o.block)[q] \in Clusters
    BY <2>1, ChainIs
  <2>3. QED
    BY <2>2, FileSystemAssumption DEF Cluster
<1>3. first = FATClusterToSector(Cluster(o, q)) /\ first \in Nat
  BY <1>1, <1>2, SectorNumbers DEF ClusterSound
<1>4. ByteAt(o, i) = <<first + r, j>> /\ i \div SectorSize = q * SectorsPerCluster + r
  BY <1>3, ByteIs
<1>5. first + r \in Sectors
  BY <1>1, <1>3 DEF ClusterSound
<1>6. QED
  BY <1>1, <1>3, <1>4, <1>5

LEMMA ReadCalls ==
  ASSUME Inv, at \in {"aligned", "cluster", "sector"}
  PROVE  call = "FMReadFile"
<1>1. TypeOK /\ call # "lost" /\ call # "none" /\ call # "FMCreateContext" /\ call # "FMReadDir"
  BY DEF Inv, RestInv, LookupInv, ListInv
<1>2. QED
  BY <1>1 DEF TypeOK

\* Where the reading of a file is.
LEMMA ReadIs ==
  ASSUME Inv, at \in {"aligned", "cluster", "sector"}, NEW o, o = object[c], NEW x, x = context[c]
  PROVE  /\ TypeOK /\ Filled /\ OthersOpen /\ IsObject(o) /\ o.kind = "file" /\ o.size \in Nat
         /\ x \in PathContext /\ x.offset \in Offsets
         /\ out \in Seq(Locations) /\ Len(out) \in Nat /\ left \in Nat
         /\ pos[c] \in 0 .. o.size /\ InFile(x, o, pos[c] + Len(out))
         /\ \A i \in 1 .. Len(out) : Right(i)
         /\ Len(out) + left = Lesser(asked.amount, o.size - pos[c])
         /\ x.bytesRem = o.size - pos[c]
         /\ left > 0 => x.offset = 0 /\ pos[c] + Len(out) + left <= o.size
         /\ at \in {"cluster", "sector"} => left > 0
         /\ at = "cluster" => x.nextSec >= x.firstSec + SectorsPerCluster
         /\ at = "sector" => x.nextSec < x.firstSec + SectorsPerCluster
<1>1. TypeOK /\ Filled /\ OthersOpen /\ call = "FMReadFile" /\ ReadInv
  BY ReadCalls DEF Inv
<1>2. IsObject(o) /\ o.kind # "dir"
  BY <1>1 DEF ReadInv
<1>3. o.kind = "file" /\ o.size \in Nat
  BY <1>2, ObjectIsOpen
<1>4. x \in PathContext /\ x.offset \in Offsets
  BY <1>1, Typed
<1>5. out \in Seq(Locations) /\ left \in Nat /\ Len(out) \in Nat
  <2>1. out \in Seq(Locations) /\ left \in Nat
    BY <1>1 DEF TypeOK
  <2>2. QED
    BY <2>1
<1>6. /\ pos[c] \in 0 .. o.size /\ InFile(x, o, pos[c] + Len(out))
      /\ \A i \in 1 .. Len(out) : Right(i)
      /\ Len(out) + left = Lesser(asked.amount, o.size - pos[c])
      /\ x.bytesRem = o.size - pos[c]
      /\ left > 0 => x.offset = 0
      /\ at \in {"cluster", "sector"} => left > 0
      /\ at = "cluster" => x.nextSec >= x.firstSec + SectorsPerCluster
      /\ at = "sector" => x.nextSec < x.firstSec + SectorsPerCluster
  BY <1>1, <1>3 DEF ReadInv
<1>7. pos[c] + Len(out) + left <= o.size
  <2>1. asked.amount \in Nat
    BY <1>1 DEF TypeOK
  <2>2. PICK p \in Nat, l \in Nat, n \in Nat, size \in Nat, m \in Nat :
          p = pos[c] /\ l = Len(out) /\ n = left /\ size = o.size /\ m = asked.amount
    BY <1>3, <1>5, <1>6, <2>1
  <2>3. l + n = (IF m < size - p THEN m ELSE size - p) /\ p <= size
    BY <1>6, <2>2 DEF Lesser
  <2>4. p + l + n <= size
    BY <2>3
  <2>5. QED
    BY <2>2, <2>4
<1>8. QED
  BY <1>1, <1>2, <1>3, <1>4, <1>5, <1>6, <1>7

\* The byte that is read next, q clusters and r sectors into the file.
LEMMA NextByte ==
  ASSUME Inv, at \in {"cluster", "sector"}, NEW o, o = object[c], NEW x, x = context[c],
         NEW p, p = pos[c] + Len(out), NEW q \in Nat, NEW r \in 0 .. SectorsPerCluster,
         SectorsRead(x, o, p, q, r)
  PROVE  /\ p \in Nat /\ p < o.size /\ p + left <= o.size /\ p = (q * SectorsPerCluster + r) * SectorSize
         /\ x.nextSec = x.firstSec + r /\ x.firstSec = FirstSector(Cluster(o, q))
         /\ x.currBlock = Cluster(o, q) /\ x.offset = 0
<1>1. x.offset = 0 /\ left > 0 /\ p + left <= o.size /\ pos[c] \in Nat /\ Len(out) \in Nat /\ left \in Nat
      /\ o.size \in Nat
  BY ReadIs
<1>2. p \in Nat /\ p < o.size
  BY <1>1
<1>3. QED
  BY <1>1, <1>2 DEF SectorsRead

\* What a step that takes no bytes leaves in place.
LEMMA RightStays ==
  ASSUME UNCHANGED <<c, out, object, pos, trusted>>, NEW i, Right(i)
  PROVE  Right(i)'
BY DEF Right

LEMMA EndReadingInv ==
  ASSUME Inv, EndReading
  PROVE  Inv'
<1>1. /\ at = "aligned" /\ left = 0 /\ at' = "return"
      /\ result' = (IF out = <<>> THEN "end" ELSE "ok")
      /\ context' = [context EXCEPT ![c].bytesRem = @ - Len(out)]
      /\ UNCHANGED <<dosBuffer, currentDir, call, c, path, base, index, left, out,
                     asked, trusted, object, pos>>
  BY DEF EndReading, Finish, registers, history
<1>2. PICK o, x : o = object[c] /\ x = context[c]
  OBVIOUS
<1>3. /\ TypeOK /\ Filled /\ OthersOpen /\ IsObject(o) /\ o.kind = "file" /\ o.size \in Nat
      /\ x \in PathContext /\ x.offset \in Offsets /\ Len(out) \in Nat
      /\ pos[c] \in 0 .. o.size /\ InFile(x, o, pos[c] + Len(out))
      /\ \A i \in 1 .. Len(out) : Right(i)
      /\ Len(out) + left = Lesser(asked.amount, o.size - pos[c])
      /\ x.bytesRem = o.size - pos[c]
  BY <1>1, <1>2, ReadIs
<1>4. /\ x.bytesRem - Len(out) \in Nat /\ x.bytesRem - Len(out) = o.size - (pos[c] + Len(out))
      /\ Len(out) = Lesser(asked.amount, o.size - pos[c])
  <2>1. PICK p \in Nat, l \in Nat, size \in Nat : p = pos[c] /\ l = Len(out) /\ size = o.size
    BY <1>3
  <2>2. p + l <= size
    BY <1>3, <2>1 DEF InFile
  <2>3. (size - p) - l \in Nat /\ (size - p) - l = size - (p + l) /\ l + 0 = l
    BY <2>2
  <2>4. QED
    BY <1>1, <1>3, <2>1, <2>3
<1>5. PICK y : y = [x EXCEPT !.bytesRem = x.bytesRem - Len(out)]
  OBVIOUS
<1>6. /\ y \in PathContext /\ y.bytesRem = x.bytesRem - Len(out) /\ y.dir = x.dir
      /\ y.currBlock = x.currBlock /\ y.firstSec = x.firstSec /\ y.nextSec = x.nextSec
      /\ y.offset = x.offset
  BY <1>3, <1>4, <1>5 DEF PathContext
<1>7. Becomes(y)
  BY <1>1, <1>2, <1>3, <1>5, <1>6 DEF Becomes
<1>8. ContextsTyped' /\ context'[c] = y /\ OthersOpen'
  BY <1>1, <1>3, <1>7, BecomesTyped, OthersKept
<1>9. TypeOK'
  BY <1>1, <1>3, <1>8 DEF TypeOK, ContextsTyped, PathContext, Offsets
<1>10. Filled'
  <2>1. dosBuffer \in Sectors \/ (index = 0 /\ \A d \in Contexts : context[d].offset = 0)
    BY <1>3 DEF Filled
  <2>2. c \in Contexts
    BY <1>3, Typed
  <2>3. QED
    BY <1>1, <1>2, <1>3, <1>6, <1>7, <2>1, <2>2, FilledAfter
<1>11. ReadInv'
  <2>1. InFile(y, o, pos[c] + Len(out))
    BY <1>3, <1>6, SamePlace
  <2>2. ASSUME NEW i \in 1 .. Len(out)
        PROVE  Right(i)'
    BY <1>1, <1>3, <2>2, RightStays
  <2>3. QED
    BY <1>1, <1>2, <1>3, <1>4, <1>6, <1>8, <2>1, <2>2 DEF ReadInv
<1>12. call' = "FMReadFile" /\ currentDir' \in Directories
  BY <1>1, ReadCalls DEF Inv
<1>13. QED
  BY <1>8, <1>9, <1>10, <1>11, <1>12 DEF Inv

LEMMA ReadFileSectorInv ==
  ASSUME Inv, FATReadFileSector
  PROVE  Inv'
<1>1. /\ at = "aligned" /\ left > 0
      /\ at' = (IF ClusterRead(context[c]) THEN "cluster" ELSE "sector")
      /\ UNCHANGED <<context, dosBuffer, currentDir, call, c, path, base, index, left, out, result,
                     asked, trusted, object, pos>>
  BY DEF FATReadFileSector, disk, registers, history
<1>2. PICK o, x : o = object[c] /\ x = context[c]
  OBVIOUS
<1>3. /\ TypeOK /\ Filled /\ OthersOpen /\ IsObject(o) /\ o.kind = "file"
      /\ x \in PathContext
      /\ pos[c] \in 0 .. o.size /\ InFile(x, o, pos[c] + Len(out))
      /\ \A i \in 1 .. Len(out) : Right(i)
      /\ Len(out) + left = Lesser(asked.amount, o.size - pos[c])
      /\ x.bytesRem = o.size - pos[c] /\ x.offset = 0
  BY <1>1, <1>2, ReadIs
<1>4. \/ at' = "cluster" /\ x.nextSec >= x.firstSec + SectorsPerCluster
      \/ at' = "sector" /\ x.nextSec < x.firstSec + SectorsPerCluster
  <2>1. PICK s \in Nat, f \in Nat : s = x.nextSec /\ f = x.firstSec
    BY <1>3 DEF PathContext
  <2>2. s >= f + SectorsPerCluster \/ s < f + SectorsPerCluster
    BY Sizes
  <2>3. CASE s >= f + SectorsPerCluster
    BY <1>1, <1>2, <2>1, <2>3 DEF ClusterRead
  <2>4. CASE ~(s >= f + SectorsPerCluster)
    BY <1>1, <1>2, <2>1, <2>2, <2>4 DEF ClusterRead
  <2>5. QED
    BY <2>3, <2>4
<1>5. TypeOK'
  BY <1>1, <1>3, <1>4 DEF TypeOK
<1>6. Filled' /\ OthersOpen'
  BY <1>1, <1>3, <1>4, OthersSame DEF Filled
<1>7. ReadInv'
  <2>1. ASSUME NEW i \in 1 .. Len(out)
        PROVE  Right(i)'
    BY <1>1, <1>3, <2>1, RightStays
  <2>2. CASE at' = "cluster" /\ x.nextSec >= x.firstSec + SectorsPerCluster
    BY <1>1, <1>2, <1>3, <2>1, <2>2 DEF ReadInv
  <2>3. CASE at' = "sector" /\ x.nextSec < x.firstSec + SectorsPerCluster
    BY <1>1, <1>2, <1>3, <2>1, <2>3 DEF ReadInv
  <2>4. QED
    BY <1>4, <2>2, <2>3
<1>8. call' = "FMReadFile" /\ currentDir' \in Directories
  BY <1>1, ReadCalls DEF Inv
<1>9. QED
  BY <1>5, <1>6, <1>7, <1>8 DEF Inv

LEMMA GetNextClusterInv ==
  ASSUME Inv, FATGetNextCluster
  PROVE  Inv'
<1> USE Sizes
<1>1. PICK o, x : o = object[c] /\ x = context[c]
  OBVIOUS
<1>2. PICK next, first : next = Fat[x.currBlock] /\ first = FATClusterToSector(next)
  OBVIOUS
<1>3. /\ at = "cluster" /\ at' = "sector" /\ dosBuffer' = FatSector(x.currBlock)
      /\ context' = [context EXCEPT ![c] = [@ EXCEPT !.currBlock = next, !.firstSec = first,
                                                     !.nextSec = first]]
      /\ UNCHANGED <<currentDir, call, c, path, base, index, left, out, result,
                     asked, trusted, object, pos>>
  BY <1>1, <1>2 DEF FATGetNextCluster, registers, history
<1>4. /\ TypeOK /\ Filled /\ OthersOpen /\ IsObject(o) /\ o.kind = "file"
      /\ x \in PathContext /\ left \in Nat /\ left > 0
      /\ pos[c] \in 0 .. o.size /\ InFile(x, o, pos[c] + Len(out))
      /\ \A i \in 1 .. Len(out) : Right(i)
      /\ Len(out) + left = Lesser(asked.amount, o.size - pos[c])
      /\ x.bytesRem = o.size - pos[c]
      /\ x.nextSec >= x.firstSec + SectorsPerCluster
  BY <1>1, <1>3, ReadIs
<1>5. PICK p : p = pos[c] + Len(out)
  OBVIOUS
<1>6. PICK q \in Nat, r \in 0 .. SectorsPerCluster : SectorsRead(x, o, p, q, r)
  BY <1>4, <1>5 DEF InFile
<1>7. /\ p \in Nat /\ p < o.size /\ p = (q * SectorsPerCluster + r) * SectorSize
      /\ x.nextSec = x.firstSec + r /\ x.currBlock = Cluster(o, q) /\ x.offset = 0
  <2>1. at \in {"cluster", "sector"}
    BY <1>3
  <2>2. QED
    BY <1>1, <1>5, <1>6, <2>1, NextByte
<1>8. r = SectorsPerCluster
  <2>1. PICK f \in Nat : f = x.firstSec
    BY <1>4 DEF PathContext
  <2>2. f + r >= f + SectorsPerCluster
    BY <1>4, <1>7, <2>1
  <2>3. QED
    BY <2>2
<1>9. PICK n \in Nat : n = q + 1
  OBVIOUS
<1>10. p = (n * SectorsPerCluster + 0) * SectorSize
  <2>1. n * SectorsPerCluster + 0 = q * SectorsPerCluster + SectorsPerCluster
    BY <1>9
  <2>2. QED
    BY <1>7, <1>8, <2>1
\* The cluster that was read is one of the file's, and so is the next.
<1>11. FatSector(x.currBlock) \in Sectors
  <2>1. PICK m \in Nat : m = q * SectorsPerCluster
    OBVIOUS
  <2>2. (m + 0) * SectorSize + 0 <= p
    <3>1. PICK a \in Nat, b \in Nat : a = m * SectorSize /\ b = SectorsPerCluster * SectorSize
      OBVIOUS
    <3>2. (m + SectorsPerCluster) * SectorSize = a + b
      BY <3>1
    <3>3. p = a + b
      BY <1>7, <1>8, <2>1, <3>2
    <3>4. (m + 0) * SectorSize + 0 = a
      BY <3>1
    <3>5. QED
      BY <3>3, <3>4
  <2>3. (q * SectorsPerCluster + 0) * SectorSize + 0 < o.size
    <3>1. PICK size \in Nat : size = o.size
      BY <1>4, ObjectIsOpen
    <3>2. PICK a \in Nat : a = (m + 0) * SectorSize + 0
      OBVIOUS
    <3>3. a < size
      BY <1>7, <2>2, <3>1, <3>2
    <3>4. QED
      BY <2>1, <3>1, <3>2, <3>3
  <2>4. 0 \in 0 .. SectorsPerCluster - 1 /\ 0 \in 0 .. SectorSize - 1
    OBVIOUS
  <2>5. ClusterSound(Cluster(o, q))
    BY <1>4, <2>3, <2>4, ClusterOfByte
  <2>6. QED
    BY <1>7, <2>5 DEF ClusterSound
<1>12. next = Cluster(o, n)
  <2>1. o.block \in Clusters
    BY <1>4, ObjectIsOpen
  <2>2. Chain(o.block)[q + 1] = Fat[Chain(o.block)[q]]
    BY <2>1, ChainIs
  <2>3. QED
    BY <1>2, <1>7, <1>9, <2>2 DEF Cluster
<1>13. first = FirstSector(Cluster(o, n)) /\ first \in Nat
  <2>1. PICK g : g = FirstSector(Cluster(o, n))
    OBVIOUS
  <2>2. 0 \in 0 .. SectorsPerCluster - 1 /\ 0 \in 0 .. SectorSize - 1
    OBVIOUS
  <2>3. p = (n * SectorsPerCluster + 0) * SectorSize + 0
    <3>1. PICK a \in Nat : a = n * SectorsPerCluster + 0
      OBVIOUS
    <3>2. a * SectorSize \in Nat
      OBVIOUS
    <3>3. QED
      BY <1>10, <3>1, <3>2
  <2>4. IsObject(o) /\ o.kind = "file" /\ p < o.size
    BY <1>4, <1>7
  <2>5. g \in Nat /\ g = FATClusterToSector(Cluster(o, n))
    BY <2>1, <2>2, <2>3, <2>4, ByteFrom
  <2>6. QED
    BY <1>2, <1>12, <2>1, <2>5
<1>14. next \in Nat
  <2>1. o.block \in Clusters
    BY <1>4, ObjectIsOpen
  <2>2. QED
    BY <1>12, <2>1, ChainIs, FileSystemAssumption DEF Cluster
<1>15. PICK y : y = [x EXCEPT !.currBlock = next, !.firstSec = first, !.nextSec = first]
  OBVIOUS
<1>16. /\ y \in PathContext /\ y.currBlock = next /\ y.firstSec = first /\ y.nextSec = first
       /\ y.offset = 0 /\ y.dir = x.dir /\ y.bytesRem = x.bytesRem
  <2>1. y \in PathContext
    BY <1>4, <1>13, <1>14, <1>15 DEF PathContext
  <2>2. QED
    BY <1>4, <1>7, <1>15, <2>1 DEF PathContext
<1>17. Becomes(y)
  BY <1>1, <1>3, <1>15, <1>16, EmptyIs DEF Becomes
<1>18. ContextsTyped' /\ context'[c] = y /\ OthersOpen'
  BY <1>3, <1>4, <1>17, BecomesTyped, OthersKept
<1>19. TypeOK'
  BY <1>3, <1>4, <1>11, <1>18 DEF TypeOK, ContextsTyped, PathContext, Offsets
<1>20. Filled'
  BY <1>3, <1>11 DEF Filled
<1>21. ReadInv'
  <2>1. SectorsRead(y, o, p, n, 0)
    <3>1. y.nextSec = y.firstSec + 0
      BY <1>13, <1>16
    <3>2. QED
      BY <1>10, <1>12, <1>13, <1>16, <3>1 DEF SectorsRead
  <2>2. InFile(y, o, p)
    <3>1. 0 \in 0 .. SectorsPerCluster
      OBVIOUS
    <3>2. ~y.dir /\ p \in 0 .. o.size
      BY <1>4, <1>5, <1>16 DEF InFile
    <3>3. QED
      BY <2>1, <3>1, <3>2 DEF InFile
  <2>3. y.nextSec < y.firstSec + SectorsPerCluster
    BY <1>13, <1>16
  <2>4. ASSUME NEW i \in 1 .. Len(out)
        PROVE  Right(i)'
    BY <1>3, <1>4, <2>4, RightStays
  <2>5. QED
    BY <1>1, <1>3, <1>4, <1>5, <1>16, <1>18, <2>2, <2>3, <2>4 DEF ReadInv
<1>22. call' = "FMReadFile" /\ currentDir' \in Directories
  BY <1>3, ReadCalls DEF Inv
<1>23. QED
  BY <1>18, <1>19, <1>20, <1>21, <1>22 DEF Inv

LEMMA ReadSectorInv ==
  ASSUME Inv, ReadSector
  PROVE  Inv'
<1> USE Sizes
<1>1. PICK o, x : o = object[c] /\ x = context[c]
  OBVIOUS
<1>2. PICK s, count : s = x.nextSec /\ count = Lesser(SectorSize, left)
  OBVIOUS
<1>3. /\ at = "sector" /\ at' = "aligned"
      /\ dosBuffer' = (IF count < SectorSize THEN s ELSE dosBuffer)
      /\ context' = [context EXCEPT ![c] = [x EXCEPT !.nextSec = s + 1, !.offset =
           IF count < SectorSize THEN x.offset + count ELSE x.offset]]
      /\ out' = out \o Bytes(s, 0, count) /\ left' = left - count
      /\ UNCHANGED <<currentDir, call, c, path, base, index, result, asked, trusted, object, pos>>
  BY <1>1, <1>2 DEF ReadSector, history
<1>4. /\ TypeOK /\ Filled /\ OthersOpen /\ IsObject(o) /\ o.kind = "file" /\ o.size \in Nat
      /\ x \in PathContext /\ left \in Nat /\ left > 0
      /\ out \in Seq(Locations) /\ Len(out) \in Nat
      /\ pos[c] \in 0 .. o.size /\ InFile(x, o, pos[c] + Len(out))
      /\ \A i \in 1 .. Len(out) : Right(i)
      /\ Len(out) + left = Lesser(asked.amount, o.size - pos[c])
      /\ x.bytesRem = o.size - pos[c]
      /\ x.nextSec < x.firstSec + SectorsPerCluster
  BY <1>1, <1>3, ReadIs
<1>5. PICK p : p = pos[c] + Len(out)
  OBVIOUS
<1>6. PICK q \in Nat, r \in 0 .. SectorsPerCluster : SectorsRead(x, o, p, q, r)
  BY <1>4, <1>5 DEF InFile
<1>7. /\ p \in Nat /\ p < o.size /\ p + left <= o.size
      /\ p = (q * SectorsPerCluster + r) * SectorSize
      /\ x.nextSec = x.firstSec + r /\ x.firstSec = FirstSector(Cluster(o, q))
      /\ x.currBlock = Cluster(o, q) /\ x.offset = 0
  <2>1. at \in {"cluster", "sector"}
    BY <1>3
  <2>2. QED
    BY <1>1, <1>5, <1>6, <2>1, NextByte
<1>8. r \in 0 .. SectorsPerCluster - 1
  <2>1. PICK f \in Nat : f = x.firstSec
    BY <1>4 DEF PathContext
  <2>2. f + r < f + SectorsPerCluster
    BY <1>4, <1>7, <2>1
  <2>3. QED
    BY <2>2
<1>9. /\ count \in Nat /\ count >= 1 /\ count <= SectorSize /\ count <= left
      /\ count < SectorSize => count = left
  BY <1>2, <1>4 DEF Lesser
<1>10. PICK n \in Nat : n = q * SectorsPerCluster + r
  OBVIOUS
<1>11. PICK m \in Nat : m = n * SectorSize
  OBVIOUS
<1>12. p = m
  BY <1>7, <1>10, <1>11
\* The bytes of the sector are those that follow in the file.
<1>13. ASSUME NEW j \in 0 .. count - 1
       PROVE  ByteAt(o, p + j) = <<s, j>> /\ s \in Sectors
  <2>1. j \in 0 .. SectorSize - 1 /\ p + j < o.size
    BY <1>4, <1>7, <1>9
  <2>2. p + j = (q * SectorsPerCluster + r) * SectorSize + j
    BY <1>7
  <2>3. PICK f : f = FirstSector(Cluster(o, q))
    OBVIOUS
  <2>4. ByteAt(o, p + j) = <<f + r, j>> /\ f + r \in Sectors
    BY <1>4, <1>8, <2>1, <2>2, <2>3, ByteFrom
  <2>5. QED
    BY <1>2, <1>7, <2>3, <2>4
<1>14. s \in Sectors /\ s \in Nat
  <2>1. 0 \in 0 .. count - 1
    BY <1>9
  <2>2. QED
    BY <1>13, <2>1, FileSystemAssumption
<1>15. /\ Bytes(s, 0, count) \in Seq(Locations) /\ Len(Bytes(s, 0, count)) = count
       /\ \A i \in 1 .. count : Bytes(s, 0, count)[i] = <<s, 0 + i - 1>>
  <2>1. 0 + count <= SectorSize
    BY <1>9
  <2>2. QED
    BY <1>9, <1>14, <2>1, BytesAre
<1>16. /\ out' \in Seq(Locations) /\ Len(out') = Len(out) + count
       /\ \A i \in 1 .. Len(out) : out'[i] = out[i]
       /\ \A i \in 1 .. count : out'[Len(out) + i] = <<s, i - 1>>
  <2>1. PICK more \in Seq(Locations) : more = Bytes(s, 0, count)
    BY <1>15
  <2>2. out' = out \o more /\ Len(more) = count
    BY <1>3, <1>15, <2>1
  <2>3. out' \in Seq(Locations) /\ Len(out') = Len(out) + count
    <3>1. PICK old \in Seq(Locations) : old = out
      BY <1>4
    <3>2. old \o more \in Seq(Locations) /\ Len(old \o more) = Len(old) + Len(more)
      OBVIOUS
    <3>3. QED
      BY <2>2, <3>1, <3>2
  <2>4. \A i \in 1 .. Len(out) : out'[i] = out[i]
    BY <1>4, <2>2
  <2>5. ASSUME NEW i \in 1 .. count
        PROVE  out'[Len(out) + i] = <<s, i - 1>>
    <3>1. out'[Len(out) + i] = more[i]
      BY <1>4, <1>9, <2>2
    <3>2. more[i] = <<s, 0 + i - 1>>
      BY <1>15, <2>1
    <3>3. 0 + i - 1 = i - 1
      BY <1>9
    <3>4. QED
      BY <3>1, <3>2, <3>3
  <2>6. QED
    BY <2>3, <2>4, <2>5
<1>17. PICK offset : offset = (IF count < SectorSize THEN count ELSE 0)
  OBVIOUS
<1>18. offset \in Nat /\ offset \in Offsets
  BY <1>9, <1>17 DEF Offsets
<1>19. PICK y : y = [x EXCEPT !.nextSec = s + 1, !.offset = offset]
  OBVIOUS
<1>20. /\ y \in PathContext /\ y.nextSec = s + 1 /\ y.offset = offset /\ y.firstSec = x.firstSec
       /\ y.currBlock = x.currBlock /\ y.dir = x.dir /\ y.bytesRem = x.bytesRem
  <2>1. s + 1 \in Nat
    BY <1>14
  <2>2. y \in PathContext
    BY <1>4, <1>18, <1>19, <2>1 DEF PathContext
  <2>3. QED
    BY <1>4, <1>19, <2>2 DEF PathContext
<1>21. Becomes(y)
  <2>1. (IF count < SectorSize THEN x.offset + count ELSE x.offset) = offset
    BY <1>7, <1>9, <1>17
  <2>2. context' = [context EXCEPT ![c] = y]
    BY <1>3, <1>19, <2>1
  <2>3. QED
    BY <1>18, <1>20, <2>2 DEF Becomes
<1>22. ContextsTyped' /\ context'[c] = y /\ OthersOpen'
  BY <1>3, <1>4, <1>21, BecomesTyped, OthersKept
<1>23. left' \in Nat /\ left' = left - count
  <2>1. PICK l \in Nat : l = left
    BY <1>4
  <2>2. l - count \in Nat
    BY <1>9, <2>1
  <2>3. QED
    BY <1>3, <2>1, <2>2
<1>24. call = "FMReadFile" /\ call' = "FMReadFile" /\ currentDir' \in Directories
  BY <1>3, ReadCalls DEF Inv
<1>25. TypeOK'
  <2>1. dosBuffer' \in {0} \cup Sectors
    BY <1>3, <1>4, <1>14 DEF TypeOK
  <2>2. out' \in IF call' = "FMReadDir" THEN Seq(EntryType) ELSE Seq(Locations)
    BY <1>16, <1>24
  <2>3. QED
    BY <1>3, <1>4, <1>22, <1>23, <1>24, <2>1, <2>2 DEF TypeOK, ContextsTyped, PathContext, Offsets
<1>26. Filled'
  <2>1. CASE count < SectorSize
    BY <1>3, <1>14, <2>1 DEF Filled
  <2>2. CASE ~(count < SectorSize)
    <3>1. dosBuffer' = dosBuffer /\ offset = 0
      BY <1>3, <1>17, <2>2
    <3>2. dosBuffer \in Sectors \/ (index = 0 /\ \A d \in Contexts : context[d].offset = 0)
      BY <1>4 DEF Filled
    <3>3. QED
      BY <1>3, <1>4, <1>20, <1>21, <3>1, <3>2, FilledAfter
  <2>3. QED
    BY <2>1, <2>2
<1>27. InFile(y, o, p + count)
  <2>1. PICK t \in 0 .. SectorsPerCluster : t = r + 1
    BY <1>8
  <2>2. PICK f \in Nat : f = x.firstSec
    BY <1>4 DEF PathContext
  <2>3. y.nextSec = y.firstSec + t
    <3>1. s = f + r
      BY <1>2, <1>7, <2>2
    <3>2. s + 1 = f + t
      BY <2>1, <2>2, <3>1
    <3>3. QED
      BY <1>20, <2>2, <3>2
  <2>4. q * SectorsPerCluster + (t - 1) = n /\ q * SectorsPerCluster + t = n + 1 /\ t >= 1
    <3>1. q * SectorsPerCluster \in Nat
      OBVIOUS
    <3>2. QED
      BY <1>8, <1>10, <2>1, <3>1
  <2>5. IF offset = 0 THEN p + count = (q * SectorsPerCluster + t) * SectorSize
        ELSE offset < SectorSize /\ p + count = (q * SectorsPerCluster + (t - 1)) * SectorSize + offset
    <3>1. CASE count < SectorSize
      BY <1>9, <1>11, <1>12, <1>17, <2>4, <3>1
    <3>2. CASE ~(count < SectorSize)
      <4>1. count = SectorSize /\ offset = 0
        BY <1>9, <1>17, <3>2
      <4>2. (n + 1) * SectorSize = m + SectorSize
        BY <1>11
      <4>3. QED
        BY <1>12, <2>4, <4>1, <4>2
    <3>3. QED
      BY <3>1, <3>2
  <2>6. SectorsRead(y, o, p + count, q, t)
    BY <1>7, <1>20, <2>3, <2>4, <2>5 DEF SectorsRead
  <2>7. p + count \in 0 .. o.size
    <3>1. PICK b \in Nat, l \in Nat, size \in Nat : b = p /\ l = left /\ size = o.size
      BY <1>4, <1>7
    <3>2. b + l <= size /\ count <= l
      BY <1>7, <1>9, <3>1
    <3>3. b + count \in 0 .. size
      BY <1>9, <3>2
    <3>4. QED
      BY <3>1, <3>3
  <2>8. ~y.dir
    BY <1>4, <1>20 DEF InFile
  <2>9. QED
    BY <2>6, <2>7, <2>8 DEF InFile
<1>28. ASSUME NEW i \in 1 .. Len(out')
       PROVE  Right(i)'
  <2>1. CASE i \in 1 .. Len(out)
    <3>1. Right(i) /\ out'[i] = out[i]
      BY <1>4, <1>16, <2>1
    <3>2. QED
      BY <1>3, <3>1 DEF Right
  <2>2. CASE i \notin 1 .. Len(out)
    <3>1. PICK j \in 1 .. count : i = Len(out) + j
      <4>1. PICK l \in Nat : l = Len(out)
        BY <1>4
      <4>2. i \in 1 .. l + count /\ i \notin 1 .. l
        BY <1>16, <1>28, <2>2, <4>1
      <4>3. i - l \in 1 .. count /\ i = l + (i - l)
        BY <1>9, <4>2
      <4>4. QED
        BY <4>1, <4>3
    <3>2. out'[i] = <<s, j - 1>>
      BY <1>16, <3>1
    <3>3. j - 1 \in 0 .. count - 1
      BY <1>9
    <3>4. ByteAt(o, p + (j - 1)) = <<s, j - 1>>
      BY <1>13, <3>3
    <3>5. p + (j - 1) = pos[c] + i - 1
      <4>1. PICK l \in Nat, b \in Nat : l = Len(out) /\ b = pos[c]
        BY <1>4
      <4>2. p = b + l /\ i = l + j
        BY <1>5, <3>1, <4>1
      <4>3. p + (j - 1) = b + i - 1
        BY <1>9, <4>2
      <4>4. QED
        BY <4>1, <4>3
    <3>6. out'[i] = ByteAt(object[c], pos[c] + i - 1)
      BY <1>1, <3>2, <3>4, <3>5
    <3>7. QED
      BY <1>3, <3>6 DEF Right
  <2>3. QED
    BY <2>1, <2>2
<1>29. ReadInv'
  <2>1. Len(out') + left' = Lesser(asked.amount, o.size - pos[c])
    <3>1. PICK l \in Nat : l = Len(out)
      BY <1>4
    <3>2. (l + count) + (left - count) = l + left
      BY <1>4, <1>9
    <3>3. QED
      BY <1>4, <1>16, <1>23, <3>1, <3>2
  <2>2. InFile(y, o, pos[c] + Len(out'))
    <3>1. PICK l \in Nat, b \in Nat : l = Len(out) /\ b = pos[c]
      BY <1>4
    <3>2. b + (l + count) = (b + l) + count
      BY <1>9
    <3>3. pos[c] + Len(out') = p + count
      BY <1>5, <1>16, <3>1, <3>2
    <3>4. QED
      BY <1>27, <3>3
  <2>3. left' > 0 => y.offset = 0
    BY <1>4, <1>9, <1>17, <1>20, <1>23
  <2>4. QED
    BY <1>1, <1>3, <1>4, <1>20, <1>22, <1>28, <2>1, <2>2, <2>3 DEF ReadInv
<1>30. QED
  BY <1>22, <1>24, <1>25, <1>26, <1>29 DEF Inv

\* The context after n bytes of its cached sector were taken.
AfterBytes(x, n) == [x EXCEPT !.offset = IF x.offset + n = SectorSize THEN 0 ELSE x.offset + n]

\* What ReadsInOrder says of bytes that a reading from byte p on starts with.
RightBytes(d, o, p, bytes) ==
  \A i \in 1 .. Len(bytes) :
     \/ ~Trusted(d) /\ p % SectorSize # 0 /\ (p + i - 1) \div SectorSize = p \div SectorSize
     \/ bytes[i] = ByteAt(o, p + i - 1)

\* What the first bytes of a reading, from the cached sector, are.
LEMMA StartReads ==
  ASSUME TypeOK, Filled, NEW d \in Contexts, NEW x \in PathContext, x = context[d],
         NEW o, IsObject(o), o.kind = "file", NEW p \in 0 .. o.size, InFile(x, o, p),
         NEW wanted \in Nat, p + wanted <= o.size, x.offset # 0,
         NEW n \in Nat, n <= SectorSize - x.offset, n <= wanted, n # 0
  PROVE  /\ Bytes(dosBuffer, x.offset, n) \in Seq(Locations) /\ Len(Bytes(dosBuffer, x.offset, n)) = n
         /\ RightBytes(d, o, p, Bytes(dosBuffer, x.offset, n))
         /\ InFile(AfterBytes(x, n), o, p + n)
         /\ AfterBytes(x, n) \in PathContext /\ AfterBytes(x, n).offset \in Offsets
<1>1. PICK q \in Nat, r \in 0 .. SectorsPerCluster : SectorsRead(x, o, p, q, r)
  BY DEF InFile
<1>2. PICK f \in Nat, k \in Nat, s \in Nat, size \in Nat, a \in Nat :
        f = x.firstSec /\ k = x.offset /\ s = x.nextSec /\ size = o.size /\ a = p
  BY ObjectIsOpen DEF PathContext
<1>3. PICK t \in 0 .. SectorsPerCluster - 1 : t = r - 1 /\ r = t + 1
  <2>1. r >= 1
    BY <1>1 DEF SectorsRead
  <2>2. QED
    BY Sizes, <2>1
<1>4. PICK m \in Nat, b \in Nat : m = q * SectorsPerCluster + t /\ b = m * SectorSize
  BY Sizes
<1>5. /\ k # 0 /\ k < SectorSize /\ s = f + r /\ a = (q * SectorsPerCluster + t) * SectorSize + k
      /\ f = FirstSector(Cluster(o, q)) /\ x.currBlock = Cluster(o, q)
  BY <1>1, <1>2, <1>3 DEF SectorsRead
<1>6. a = b + k /\ k + n <= SectorSize /\ a + n <= size
  <2>1. a = b + k
    BY <1>4, <1>5
  <2>2. k + n <= SectorSize
    BY Sizes, <1>2
  <2>3. a + n <= size
    BY <1>2
  <2>4. QED
    BY <2>1, <2>2, <2>3
<1>7. dosBuffer \in Sectors
  BY <1>2, <1>5 DEF Filled
<1>8. PICK more : more = Bytes(dosBuffer, k, n)
  OBVIOUS
<1>9. /\ more \in Seq(Locations) /\ Len(more) = n
      /\ \A i \in 1 .. n : more[i] = <<dosBuffer, k + i - 1>>
  <2>1. PICK sector \in Sectors : sector = dosBuffer
    BY <1>7
  <2>2. more = Bytes(sector, k, n) /\ k + n <= SectorSize
    BY <1>6, <1>8, <2>1
  <2>3. /\ Bytes(sector, k, n) \in Seq(Locations) /\ Len(Bytes(sector, k, n)) = n
        /\ \A i \in 1 .. n : Bytes(sector, k, n)[i] = <<sector, k + i - 1>>
    BY <2>2, BytesAre
  <2>4. QED
    BY <2>1, <2>2, <2>3
<1>10. ASSUME NEW i \in 1 .. n
       PROVE  \/ /\ ~Trusted(d) /\ a % SectorSize # 0
                 /\ (a + i - 1) \div SectorSize = a \div SectorSize
              \/ more[i] = ByteAt(o, a + i - 1)
  <2>1. PICK j \in 0 .. SectorSize - 1, e \in Nat : j = k + i - 1 /\ e = a + i - 1
    <3>1. i \in Nat /\ 1 <= i /\ i <= n /\ k + n <= SectorSize /\ SectorSize \in Nat
      BY Sizes, <1>6
    <3>2. k + i - 1 \in 0 .. SectorSize - 1 /\ a + i - 1 \in Nat
      BY <3>1
    <3>3. QED
      BY <3>2
  <2>2. e = (q * SectorsPerCluster + t) * SectorSize + j /\ e < o.size
    <3>1. e = b + j /\ e < size
      BY <1>6, <2>1
    <3>2. QED
      BY <1>2, <1>4, <3>1
  <2>3. ByteAt(o, e) = <<f + t, j>> /\ e \div SectorSize = q * SectorsPerCluster + t
    <3>1. f = FirstSector(Cluster(o, q))
      BY <1>5
    <3>2. e = (q * SectorsPerCluster + t) * SectorSize + j
      BY <2>2
    <3>3. e < o.size
      BY <2>2
    <3>4. ByteAt(o, e) = <<f + t, j>>
      BY <3>1, <3>2, <3>3, ByteFrom
    <3>5. e \div SectorSize = q * SectorsPerCluster + t
      BY <3>2, ByteIs
    <3>6. QED
      BY <3>4, <3>5
  <2>4. CASE Trusted(d)
    <3>1. ~x.dir
      BY DEF InFile
    <3>2. dosBuffer = x.nextSec - 1
      BY <1>2, <1>5, <2>4, <3>1 DEF Trusted
    <3>3. dosBuffer = f + t
      <4>1. s = f + r /\ dosBuffer = s - 1
        BY <1>2, <1>5, <3>2
      <4>2. QED
        BY <1>3, <4>1
    <3>4. QED
      BY <1>9, <2>1, <2>3, <3>3
  <2>5. CASE ~Trusted(d)
    <3>1. k \in 0 .. SectorSize - 1
      BY Sizes, <1>5
    <3>2. a \div SectorSize = m /\ a % SectorSize = k
      <4>1. a = m * SectorSize + k
        BY <1>4, <1>6
      <4>2. QED
        BY Sizes, <3>1, <4>1, DivIs
    <3>3. e \div SectorSize = a \div SectorSize
      BY <1>4, <2>3, <3>2
    <3>4. QED
      BY <1>5, <2>1, <2>5, <3>2, <3>3
  <2>6. QED
    BY <2>4, <2>5
<1>11. ASSUME NEW y, NEW z \in Nat, y = [x EXCEPT !.offset = z],
              z = (IF k + n = SectorSize THEN 0 ELSE k + n)
       PROVE  InFile(y, o, p + n) /\ y \in PathContext /\ y.offset \in Offsets
  <2> USE Sizes
  <2>1. z \in Offsets
    <3>1. z \in 0 .. SectorSize - 1
      BY <1>6, <1>11
    <3>2. QED
      BY <3>1 DEF Offsets
  <2>2. /\ y \in PathContext /\ y.offset = z /\ y.dir = x.dir /\ y.currBlock = x.currBlock
        /\ y.firstSec = x.firstSec /\ y.nextSec = x.nextSec
    BY <1>11 DEF PathContext
  <2>3. IF z = 0 THEN a + n = (q * SectorsPerCluster + r) * SectorSize
        ELSE z < SectorSize /\ a + n = (q * SectorsPerCluster + (r - 1)) * SectorSize + z
    <3>1. CASE k + n = SectorSize
      <4>1. (m + 1) * SectorSize = b + SectorSize
        BY <1>4
      <4>2. q * SectorsPerCluster + r = m + 1
        <5>1. q * SectorsPerCluster \in Nat
          OBVIOUS
        <5>2. QED
          BY <1>3, <1>4, <5>1
      <4>3. a + n = b + SectorSize
        BY <1>6, <3>1
      <4>4. QED
        BY <1>11, <3>1, <4>1, <4>2, <4>3
    <3>2. CASE k + n # SectorSize
      <4>1. z = k + n /\ z < SectorSize /\ z # 0 /\ a + n = b + z
        BY <1>6, <1>11, <3>2
      <4>2. (q * SectorsPerCluster + (r - 1)) * SectorSize = b
        BY <1>3, <1>4
      <4>3. QED
        BY <4>1, <4>2
    <3>3. QED
      BY <3>1, <3>2
  <2>4. r >= 1 /\ x.firstSec = FirstSector(x.currBlock) /\ x.nextSec = x.firstSec + r
    BY <1>1, <1>3 DEF SectorsRead
  <2>5. SectorsRead(y, o, p + n, q, r)
    BY <1>2, <1>5, <2>2, <2>3, <2>4 DEF SectorsRead
  <2>6. p + n \in 0 .. o.size
    BY <1>2, <1>6
  <2>7. ~y.dir
    BY <2>2 DEF InFile
  <2>8. QED
    BY <2>1, <2>2, <2>5, <2>6, <2>7 DEF InFile
<1>12. PICK y : y = AfterBytes(x, n)
  OBVIOUS
<1>13. InFile(y, o, p + n) /\ y \in PathContext /\ y.offset \in Offsets
  <2>1. PICK z \in Nat : z = (IF k + n = SectorSize THEN 0 ELSE k + n)
    OBVIOUS
  <2>2. y = [x EXCEPT !.offset = z]
    BY <1>2, <1>12, <2>1 DEF AfterBytes
  <2>3. QED
    BY <1>11, <2>1, <2>2
<1>14. RightBytes(d, o, p, more)
  BY <1>2, <1>9, <1>10 DEF RightBytes
<1>15. QED
  BY <1>2, <1>8, <1>9, <1>12, <1>13, <1>14

LEMMA ReadFileInv ==
  ASSUME Inv, FMReadFile
  PROVE  Inv'
<1>1. TypeOK /\ call = "none" /\ RestInv /\ Filled /\ OthersOpen /\ currentDir \in Directories
  BY DEF Inv, FMReadFile
<1>2. PICK d \in Contexts, amount \in Amounts :
        /\ object[d] # Closed
        /\ c' = d /\ trusted' = Trusted(d) /\ asked' = [Nothing EXCEPT !.amount = amount]
        /\ IF context[d].dir
           THEN at' = "return" /\ result' = "error" /\ UNCHANGED <<context, left, out>>
           ELSE at' = "aligned" /\ result' = result
                /\ StartReading(d, Lesser(amount, context[d].bytesRem))
  BY DEF FMReadFile, Finish
<1>3. /\ call' = "FMReadFile"
      /\ UNCHANGED <<dosBuffer, currentDir, path, base, index, object, pos>>
  BY DEF FMReadFile
<1>4. out = <<>> /\ index = 0 /\ index' = 0
  BY <1>1, <1>3 DEF RestInv
<1>5. PICK x \in PathContext : x = context[d]
  BY <1>1, Typed DEF ContextsTyped
<1>6. PICK o, p : o = object[d] /\ p = pos[d]
  OBVIOUS
<1>7. Open(x, o, p) /\ IsObject(o) /\ x.offset \in Offsets
  BY <1>1, <1>2, <1>5, <1>6, RestOpen, Typed DEF Open, ContextsTyped
<1>8. trusted' \in BOOLEAN
  BY <1>2 DEF Trusted
<1>9. amount \in Nat /\ asked' \in [found : EntryType, amount : Nat] /\ asked'.amount = amount
  <2>1. amount \in Nat
    BY FileSystemAssumption
  <2>2. QED
    BY <1>2, <2>1, NothingIs
<1>10. CASE o.kind = "dir"
  <2>1. x.dir
    BY <1>7, <1>10 DEF Open, InDirectory
  <2>2. at' = "return" /\ result' = "error" /\ UNCHANGED <<context, left, out>>
    BY <1>2, <1>5, <2>1
  <2>3. TypeOK'
    BY <1>1, <1>2, <1>3, <1>4, <1>8, <1>9, <2>2 DEF TypeOK
  <2>4. Filled'
    BY <1>1, <1>3, <1>4, <2>2 DEF Filled
  <2>5. OthersOpen'
    <3>1. ASSUME NEW e \in Contexts, object[e] # Closed
          PROVE  Open(context[e], object[e], pos[e])
      BY <1>1, <3>1, RestOpen
    <3>2. QED
      BY <1>3, <2>2, <3>1 DEF OthersOpen
  <2>6. ReadInv'
    BY <1>2, <1>3, <1>4, <1>5, <1>6, <1>7, <1>10, <2>2 DEF ReadInv
  <2>7. QED
    BY <1>1, <1>3, <2>3, <2>4, <2>5, <2>6 DEF Inv
<1>11. CASE o.kind = "file"
  <2>1. InFile(x, o, p) /\ x.bytesRem = o.size - p /\ p \in 0 .. o.size /\ o.size \in Nat /\ ~x.dir
    BY <1>7, <1>11, ObjectIsOpen DEF Open, InFile
  <2>2. PICK wanted \in Nat :
          wanted = Lesser(amount, x.bytesRem) /\ wanted = Lesser(amount, o.size - p) /\ p + wanted <= o.size
    <3>1. PICK size \in Nat, m \in Nat, a \in Nat : size = o.size /\ m = amount /\ a = p /\ a <= size
      BY <1>9, <2>1
    <3>2. PICK w \in Nat : w = IF m < size - a THEN m ELSE size - a
      BY <3>1
    <3>3. a + w <= size
      BY <3>2
    <3>4. QED
      BY <2>1, <3>1, <3>2, <3>3 DEF Lesser
  <2>3. /\ at' = "aligned" /\ result' = result /\ StartReading(d, wanted)
    BY <1>2, <1>5, <2>1, <2>2
  <2>4. PICK buffered \in Nat :
          /\ buffered = (IF x.offset = 0 THEN 0 ELSE Lesser(SectorSize - x.offset, wanted))
          /\ buffered <= wanted
          /\ x.offset # 0 => buffered <= SectorSize - x.offset
                             /\ (buffered # wanted => buffered = SectorSize - x.offset)
    <3>1. CASE x.offset = 0
      BY <2>2, <3>1
    <3>2. CASE x.offset # 0
      <4>1. PICK q \in Nat, r \in 0 .. SectorsPerCluster : SectorsRead(x, o, p, q, r)
        BY <2>1 DEF InFile
      <4>2. PICK k \in Nat : k = x.offset /\ k < SectorSize
        BY <3>2, <4>1 DEF SectorsRead, PathContext
      <4>3. PICK room \in Nat : room = SectorSize - k
        BY <4>2, Sizes
      <4>4. QED
        BY <2>2, <3>2, <4>2, <4>3 DEF Lesser
    <3>3. QED
      BY <3>1, <3>2
  <2>5. PICK taken, y : /\ taken = (IF buffered < wanted THEN 0 ELSE OffsetAfter(x.offset + buffered))
                        /\ y = [x EXCEPT !.offset = taken]
    OBVIOUS
  <2>6. /\ left' = wanted - buffered /\ out' = Bytes(dosBuffer, x.offset, buffered)
        /\ context' = [context EXCEPT ![d] = y]
    <3>1. /\ left' = wanted - buffered /\ out' = Bytes(dosBuffer, x.offset, buffered)
          /\ context' = [context EXCEPT ![d].offset =
               IF buffered < wanted THEN 0 ELSE OffsetAfter(@ + buffered)]
      BY <1>5, <2>3, <2>4 DEF StartReading
    <3>2. QED
      BY <1>5, <2>5, <3>1
\* What was taken, and where it leaves the context.
  <2>7. /\ out' \in Seq(Locations) /\ Len(out') = buffered /\ RightBytes(d, o, p, out')
        /\ InFile(y, o, p + buffered) /\ y \in PathContext /\ y.offset \in Offsets
        /\ buffered # wanted => y.offset = 0
    <3>1. CASE buffered = 0
      <4>1. y = x
        <5>1. PICK k \in Nat : k = x.offset /\ k < SectorSize /\ (k # 0 => buffered = wanted)
          <6>1. PICK q \in Nat, r \in 0 .. SectorsPerCluster : SectorsRead(x, o, p, q, r)
            BY <2>1 DEF InFile
          <6>2. PICK k \in Nat : k = x.offset /\ k < SectorSize
            BY <6>1, Sizes DEF SectorsRead, PathContext
          <6>3. k # 0 => buffered = wanted
            BY <2>4, <3>1, <6>2, Sizes
          <6>4. QED
            BY <6>2, <6>3
        <5>2. taken = k
          <6>1. CASE k = 0
            <7>1. taken = 0
              BY <2>5, <3>1, <5>1, <6>1, Sizes DEF OffsetAfter
            <7>2. QED
              BY <6>1, <7>1
          <6>2. CASE k # 0
            <7>1. ~(buffered < wanted) /\ k + buffered = k /\ k # SectorSize
              BY <3>1, <5>1, <6>2
            <7>2. QED
              BY <2>5, <5>1, <7>1 DEF OffsetAfter
          <6>3. QED
            BY <6>1, <6>2
        <5>3. QED
          BY <2>5, <5>1, <5>2 DEF PathContext
      <4>2. out' = <<>> /\ p + buffered = p
        BY <2>1, <2>6, <3>1, NoBytes
      <4>3. buffered # wanted => x.offset = 0
        <5>1. ASSUME x.offset # 0, buffered # wanted
              PROVE  FALSE
          <6>1. PICK q \in Nat, r \in 0 .. SectorsPerCluster : SectorsRead(x, o, p, q, r)
            BY <2>1 DEF InFile
          <6>2. PICK k \in Nat : k = x.offset /\ k < SectorSize
            BY <5>1, <6>1 DEF SectorsRead, PathContext
          <6>3. QED
            BY <2>4, <3>1, <5>1, <6>2, Sizes
        <5>2. QED
          BY <5>1
      <4>4. out' \in Seq(Locations) /\ Len(out') = 0 /\ RightBytes(d, o, p, out')
        BY <4>2 DEF RightBytes
      <4>5. QED
        BY <1>7, <2>1, <3>1, <4>1, <4>2, <4>3, <4>4
    <3>2. CASE buffered # 0
      <4>1. x.offset # 0 /\ buffered <= SectorSize - x.offset
        BY <2>4, <3>2
      <4>2. y = AfterBytes(x, buffered)
        <5>1. CASE buffered = wanted
          <6>1. taken = OffsetAfter(x.offset + buffered)
            BY <2>5, <5>1
          <6>2. QED
            BY <2>5, <6>1 DEF OffsetAfter, AfterBytes
        <5>2. CASE buffered # wanted
          <6>1. PICK k \in Nat : k = x.offset
            BY DEF PathContext
          <6>2. k + buffered = SectorSize
            BY <2>4, <4>1, <5>2, <6>1, Sizes
          <6>3. taken = 0
            BY <2>4, <2>5, <5>2
          <6>4. QED
            BY <2>5, <6>1, <6>2, <6>3 DEF AfterBytes
        <5>3. QED
          BY <5>1, <5>2
      <4>3. /\ out' \in Seq(Locations) /\ Len(out') = buffered /\ RightBytes(d, o, p, out')
            /\ InFile(y, o, p + buffered) /\ y \in PathContext /\ y.offset \in Offsets
        <5>1. PICK more : more = Bytes(dosBuffer, x.offset, buffered)
          OBVIOUS
        <5>2. buffered <= wanted
          BY <2>4
        <5>3. more \in Seq(Locations) /\ Len(more) = buffered /\ RightBytes(d, o, p, more)
          <6>1. /\ Bytes(dosBuffer, x.offset, buffered) \in Seq(Locations)
                /\ Len(Bytes(dosBuffer, x.offset, buffered)) = buffered
            BY <1>1, <1>5, <1>7, <1>11, <2>1, <2>2, <3>2, <4>1, <5>2, StartReads
          <6>2. RightBytes(d, o, p, Bytes(dosBuffer, x.offset, buffered))
            BY <1>1, <1>5, <1>7, <1>11, <2>1, <2>2, <3>2, <4>1, <5>2, StartReads
          <6>3. QED
            BY <5>1, <6>1, <6>2
        <5>4. InFile(y, o, p + buffered) /\ y \in PathContext /\ y.offset \in Offsets
          BY <1>1, <1>5, <1>7, <1>11, <2>1, <2>2, <3>2, <4>1, <4>2, <5>2, StartReads
        <5>5. QED
          BY <2>6, <5>1, <5>3, <5>4
      <4>4. buffered # wanted => y.offset = 0
        <5>1. ASSUME buffered # wanted
              PROVE  y.offset = 0
          <6>1. taken = 0
            BY <2>4, <2>5, <5>1
          <6>2. QED
            BY <2>5, <6>1 DEF PathContext
        <5>2. QED
          BY <5>1
      <4>5. QED
        BY <4>3, <4>4
    <3>3. QED
      BY <3>1, <3>2
  <2>8. /\ context \in [Contexts -> PathContext] /\ \A e \in Contexts : context[e].offset \in Offsets
        /\ context'[d] = y /\ \A e \in Contexts : e # d => context'[e] = context[e]
    BY <1>1, <2>6, Typed DEF ContextsTyped
  <2>9. left' \in Nat
    BY <2>2, <2>4, <2>6
  <2>10. TypeOK'
    <3>1. context' \in [Contexts -> PathContext]
      BY <2>6, <2>7, <2>8
    <3>2. \A e \in Contexts : context'[e].offset \in Offsets
      BY <2>7, <2>8
    <3>3. out' \in IF call' = "FMReadDir" THEN Seq(EntryType) ELSE Seq(Locations)
      BY <1>3, <2>7
    <3>4. QED
      BY <1>1, <1>2, <1>3, <1>4, <1>8, <1>9, <2>3, <2>9, <3>1, <3>2, <3>3 DEF TypeOK, PathContext, Offsets
  <2>11. Filled'
    <3>1. CASE dosBuffer \in Sectors
      BY <1>3, <2>3, <3>1 DEF Filled
    <3>2. CASE dosBuffer \notin Sectors
      <4>1. \A e \in Contexts : context[e].offset = 0
        BY <1>1, <3>2 DEF Filled
      <4>2. x.offset = 0
        BY <1>5, <4>1
      <4>3. buffered = 0
        BY <2>4, <4>2
      <4>4. y.offset = 0
        <5>1. taken = 0
          BY <2>5, <4>2, <4>3, Sizes DEF OffsetAfter
        <5>2. QED
          BY <2>5, <5>1 DEF PathContext
      <4>5. \A e \in Contexts : context'[e].offset = 0
        BY <2>8, <4>1, <4>4
      <4>6. QED
        BY <1>4, <2>3, <4>5 DEF Filled
    <3>3. QED
      BY <3>1, <3>2
  <2>12. OthersOpen'
    <3>1. ASSUME NEW e \in Contexts, e # d, object[e] # Closed
          PROVE  Open(context'[e], object[e], pos[e])
      BY <1>1, <2>8, <3>1, RestOpen
    <3>2. QED
      BY <1>2, <1>3, <3>1 DEF OthersOpen
  <2>13. ReadInv'
    <3>1. ASSUME NEW i \in 1 .. Len(out')
          PROVE  Right(i)'
      <4>1. i \in 1 .. Len(out') /\ RightBytes(d, o, p, out')
        BY <2>7, <3>1
      <4>2. /\ trusted' = Trusted(d) /\ c' = d /\ object'[d] = o /\ pos'[d] = p
        BY <1>2, <1>3, <1>6
      <4>3. \/ ~Trusted(d) /\ p % SectorSize # 0 /\ (p + i - 1) \div SectorSize = p \div SectorSize
            \/ out'[i] = ByteAt(o, p + i - 1)
        BY <4>1 DEF RightBytes
      <4>4. QED
        BY <4>2, <4>3 DEF Right
    <3>2. Len(out') + left' = Lesser(amount, o.size - p)
      BY <2>2, <2>4, <2>6, <2>7
    <3>3. left' > 0 => y.offset = 0
      BY <2>2, <2>4, <2>6, <2>7
    <3>4. y.bytesRem = o.size - p
      BY <2>1, <2>5 DEF PathContext
    <3>5. QED
      BY <1>2, <1>3, <1>6, <1>7, <1>9, <1>11, <2>1, <2>3, <2>7, <2>8, <3>1, <3>2, <3>3, <3>4 DEF ReadInv
  <2>14. QED
    BY <1>1, <1>3, <2>10, <2>11, <2>12, <2>13 DEF Inv
<1>12. QED
  BY <1>7, <1>10, <1>11, ObjectIsOpen

-----------------------------------------------------------------------------
(***************************************************************************)
(* The call returns, and all steps together.                               *)
(***************************************************************************)
LEMMA ReturnCalls ==
  ASSUME Inv, at = "return"
  PROVE  /\ call \in {"FMCreateContext", "FMReadDir", "FMReadFile"} /\ TypeOK /\ Filled /\ OthersOpen
         /\ Len(out) \in Nat
<1>1. TypeOK /\ call # "lost" /\ call # "none"
  BY DEF Inv, RestInv
<1>2. call \in {"FMCreateContext", "FMReadDir", "FMReadFile"}
  BY <1>1 DEF TypeOK
<1>3. Len(out) \in Nat
  <2>1. out \in Seq(EntryType) \/ out \in Seq(Locations)
    BY <1>1 DEF TypeOK
  <2>2. QED
    BY <2>1
<1>4. QED
  BY <1>1, <1>2, <1>3 DEF Inv

\* A context that was just created is at the start of its object.
LEMMA FreshIsOpen ==
  ASSUME NEW x \in PathContext, NEW w, IsObject(w), Fresh(x, w.block), Describes(x, w)
  PROVE  Open(x, w, 0)
<1> USE Sizes
<1>1. w.block \in Clusters /\ w.block \in Nat /\ w.size \in Nat
      /\ (w.kind = "dir" => w.block \in Directories)
  BY ObjectIsOpen
<1>2. PICK f \in Nat : f = x.firstSec /\ f = FirstSector(w.block) /\ x.nextSec = f + 0 /\ x.offset = 0
  BY DEF Fresh, PathContext
<1>3. CASE w.kind = "file"
  <2>1. Cluster(w, 0) = w.block
    BY <1>1, ChainIs DEF Cluster
  <2>2. SectorsRead(x, w, 0, 0, 0)
    BY <1>2, <2>1 DEF SectorsRead, Fresh
  <2>3. InFile(x, w, 0)
    <3>1. 0 \in 0 .. w.size /\ 0 \in 0 .. SectorsPerCluster /\ 0 \in Nat
      BY <1>1
    <3>2. ~x.dir
      BY <1>3 DEF Describes
    <3>3. QED
      BY <2>2, <3>1, <3>2 DEF InFile
  <2>4. x.bytesRem = w.size - 0
    BY <1>1, <1>3 DEF Describes
  <2>5. QED
    BY <1>3, <2>3, <2>4 DEF Open
<1>4. CASE w.kind = "dir"
  <2>1. PICK block \in Directories : block = w.block
    BY <1>1, <1>4
  <2>2. PlaceIs(block, x.nextSec, x.offset, 0, 0) /\ NoEndBefore(block, 0)
    BY <1>2, <2>1 DEF PlaceIs, NoEndBefore
  <2>3. 0 \in Places(block) /\ Rank(block, 0) = 0
    BY PlacesAre, RankOfFirst
  <2>4. x.dir /\ x.currBlock = block /\ x.offset <= EntriesPerSector
    <3>1. x.dir
      BY <1>4 DEF Describes
    <3>2. x.currBlock = block
      BY <2>1 DEF Fresh
    <3>3. x.offset <= EntriesPerSector
      BY <1>2
    <3>4. QED
      BY <3>1, <3>2, <3>3
  <2>5. InDirectory(x, block, 0)
    BY <2>2, <2>3, <2>4 DEF InDirectory
  <2>6. QED
    BY <1>4, <2>1, <2>5 DEF Open
<1>5. QED
  BY <1>3, <1>4, ObjectIsOpen

\* What the context of a call that returns is open for.
LEMMA ReturnOpen ==
  ASSUME Inv, at = "return", NEW o,
         o = CASE call = "FMCreateContext" -> IF result = "ok" THEN asked.found ELSE Closed
               [] call = "FMReadDir"       -> IF result = "end" \/ ~trusted THEN Closed ELSE object[c]
               [] call = "FMReadFile"      -> object[c]
  PROVE  o \in EntryType /\ (o # Closed => Open(context[c], o, pos[c] + Len(out)))
<1>1. /\ call \in {"FMCreateContext", "FMReadDir", "FMReadFile"} /\ TypeOK /\ Len(out) \in Nat
      /\ c \in Contexts /\ context[c] \in PathContext
  BY ReturnCalls, Typed
<1>2. PICK x \in PathContext, p \in Nat, mine \in EntryType : x = context[c] /\ p = pos[c] /\ mine = object[c]
  BY <1>1 DEF TypeOK
<1>3. CASE call = "FMCreateContext"
  <2>1. o = IF result = "ok" THEN asked.found ELSE Closed
    BY <1>3
  <2>2. out = <<>> /\ p = 0
    BY <1>2, <1>3 DEF Inv, LookupInv
  <2>3. p + Len(out) = 0
    BY <2>2
  <2>4. CASE result = "ok"
    <3>1. PICK from \in Directories, names \in Seq(Names \cup {Invalid}) :
            \E k \in 0 .. Len(names) : Looks(from, names, k)
      BY <1>3, LookupIs
    <3>2. PICK k \in 0 .. Len(names) : Looks(from, names, k)
      BY <3>1
    <3>3. PICK w : w = Way(from, names)[k]
      OBVIOUS
    <3>4. LookupAt(w)
      BY <3>2, <3>3 DEF Looks
    <3>5. IsObject(w) /\ asked.found = w /\ Fresh(x, w.block) /\ Describes(x, w)
      BY <1>2, <2>4, <3>4 DEF LookupAt
    <3>6. Open(x, w, 0)
      BY <3>5, FreshIsOpen
    <3>7. o = w /\ w \in EntryType
      BY <2>1, <2>4, <3>5 DEF IsObject
    <3>8. QED
      BY <1>2, <2>3, <3>6, <3>7
  <2>5. CASE result # "ok"
    BY <2>1, <2>5, ClosedEntry
  <2>6. QED
    BY <2>4, <2>5
<1>4. CASE call = "FMReadDir"
  <2>1. o = IF result = "end" \/ ~trusted THEN Closed ELSE mine
    BY <1>2, <1>4
  <2>2. ListInv
    BY <1>4 DEF Inv
  <2>3. CASE result # "end" /\ trusted
    <3>1. o = mine /\ IsObject(mine)
      BY <1>2, <2>1, <2>2, <2>3 DEF ListInv
    <3>2. CASE mine.kind = "file"
      <4>1. out = <<>> /\ Open(x, mine, p)
        BY <1>2, <2>2, <3>2 DEF ListInv
      <4>2. p + Len(out) = p
        BY <4>1
      <4>3. QED
        BY <1>2, <3>1, <4>1, <4>2
    <3>3. CASE mine.kind = "dir"
      <4>1. result = "ok"
        BY <1>2, <2>2, <2>3, <3>3 DEF ListInv
      <4>2. Open(x, mine, p + 1) /\ \E i \in Listed(mine.block) : out = <<EntryAt(mine.block, i)>>
        BY <1>2, <2>2, <2>3, <3>3, <4>1 DEF ListInv
      <4>3. Len(out) = 1
        BY <4>2
      <4>4. QED
        BY <1>2, <3>1, <4>2, <4>3
    <3>4. QED
      BY <3>1, <3>2, <3>3, ObjectIsOpen
  <2>4. CASE ~(result # "end" /\ trusted)
    BY <2>1, <2>4, ClosedEntry
  <2>5. QED
    BY <2>3, <2>4
<1>5. CASE call = "FMReadFile"
  <2>1. o = mine
    BY <1>2, <1>5
  <2>2. ReadInv
    BY <1>5 DEF Inv
  <2>3. IsObject(mine)
    BY <1>2, <2>2 DEF ReadInv
  <2>4. CASE mine.kind = "dir"
    <3>1. out = <<>> /\ Open(x, mine, p)
      BY <1>2, <2>2, <2>4 DEF ReadInv
    <3>2. p + Len(out) = p
      BY <3>1
    <3>3. QED
      BY <1>2, <2>1, <3>1, <3>2
  <2>5. CASE mine.kind = "file"
    <3>1. InFile(x, mine, p + Len(out)) /\ x.bytesRem = mine.size - (p + Len(out))
      BY <1>2, <2>2, <2>5 DEF ReadInv
    <3>2. Open(x, mine, p + Len(out))
      BY <2>3, <2>5, <3>1 DEF Open
    <3>3. QED
      BY <1>2, <2>1, <3>2
  <2>6. QED
    BY <2>3, <2>4, <2>5, ObjectIsOpen
<1>6. QED
  BY <1>1, <1>3, <1>4, <1>5

LEMMA ReturnInv ==
  ASSUME Inv, Return
  PROVE  Inv'
<1>1. PICK o : o = CASE call = "FMCreateContext" -> IF result = "ok" THEN asked.found ELSE Closed
                     [] call = "FMReadDir" -> IF result = "end" \/ ~trusted THEN Closed ELSE object[c]
                     [] call = "FMReadFile" -> object[c]
  OBVIOUS
<1>2. /\ at = "return" /\ call' = "none" /\ at' = "none" /\ result' = "none" /\ out' = <<>>
      /\ path' = <<>> /\ base' = 0 /\ index' = 0 /\ left' = 0
      /\ asked' = Nothing /\ trusted' = FALSE
      /\ pos' = [pos EXCEPT ![c] = @ + Len(out)] /\ object' = [object EXCEPT ![c] = o]
      /\ UNCHANGED <<context, dosBuffer, currentDir, c>>
  BY <1>1 DEF Return, disk
<1>3. TypeOK /\ Filled /\ OthersOpen /\ Len(out) \in Nat
  BY <1>2, ReturnCalls
<1>4. o \in EntryType /\ (o # Closed => Open(context[c], o, pos[c] + Len(out)))
  BY <1>1, <1>2, ReturnOpen
<1>5. /\ c \in Contexts /\ object \in [Contexts -> EntryType] /\ pos \in [Contexts -> Nat]
  BY <1>3 DEF TypeOK
<1>6. /\ object'[c] = o /\ pos'[c] = pos[c] + Len(out)
      /\ \A d \in Contexts : d # c => object'[d] = object[d] /\ pos'[d] = pos[d]
  BY <1>2, <1>5
<1>7. TypeOK'
  <2>1. object' \in [Contexts -> EntryType] /\ pos' \in [Contexts -> Nat]
    <3>1. pos[c] + Len(out) \in Nat
      BY <1>3, <1>5
    <3>2. pos' = [pos EXCEPT ![c] = pos[c] + Len(out)]
      BY <1>2
    <3>3. QED
      BY <1>2, <1>4, <1>5, <3>1, <3>2
  <2>2. path' \in Seq(Names \cup {Invalid}) /\ index' \in 0 .. EntriesPerSector
        /\ out' \in IF call' = "FMReadDir" THEN Seq(EntryType) ELSE Seq(Locations)
    BY <1>2, Sizes
  <2>3. QED
    BY <1>2, <1>3, <2>1, <2>2, NothingIs DEF TypeOK
<1>8. Filled'
  BY <1>2, <1>3 DEF Filled
<1>9. OthersOpen'
  BY <1>2, <1>3, <1>6 DEF OthersOpen
<1>10. RestInv'
  BY <1>2, <1>4, <1>6 DEF RestInv
<1>11. currentDir' \in Directories
  BY <1>2 DEF Inv
<1>12. QED
  BY <1>2, <1>7, <1>8, <1>9, <1>10, <1>11 DEF Inv

LEMMA NextInv ==
  ASSUME Inv, [Next]_vars
  PROVE  Inv'
<1>1. CASE FMCreateContext
  BY <1>1, CreateContextInv
<1>2. CASE FMReadDir
  BY <1>2, ReadDirInv
<1>3. CASE FMReadFile
  BY <1>3, ReadFileInv
<1>4. CASE FMChangeDirectory
  BY <1>4, ChangeDirectoryInv
<1>5. CASE FATCreatePathContext
  BY <1>5, PathContextInv
<1>6. CASE ExtractNextPathElement
  BY <1>6, ElementInv
<1>7. CASE ReadDirSector
  BY <1>7, ReadDirSectorInv
<1>8. CASE SameDirSector
  BY <1>8, SameDirSectorInv
<1>9. CASE EndOfListing
  BY <1>9, EndOfListingInv
<1>10. CASE SkipEntry
  BY <1>10, SkipEntryInv
<1>11. CASE EntryOk
  BY <1>11, EntryOkInv
<1>12. CASE EndReading
  BY <1>12, EndReadingInv
<1>13. CASE FATReadFileSector
  BY <1>13, ReadFileSectorInv
<1>14. CASE FATGetNextCluster
  BY <1>14, GetNextClusterInv
<1>15. CASE ReadSector
  BY <1>15, ReadSectorInv
<1>16. CASE Return
  BY <1>16, ReturnInv
<1>17. CASE DeviceError
  BY <1>17, DeviceErrorInv
<1>18. CASE Reset
  BY <1>18, ResetInv
<1>19. CASE UNCHANGED vars
  BY <1>19, StutterInv
<1>20. QED
  BY <1>1, <1>2, <1>3, <1>4, <1>5, <1>6, <1>7, <1>8, <1>9, <1>10, <1>11, <1>12, <1>13, <1>14, <1>15,
     <1>16, <1>17, <1>18, <1>19 DEF Next, Step

-----------------------------------------------------------------------------
\* At every moment each context is placed in its object, and the call that
\* runs is where its registers and buffers say.
THEOREM ContextsArePlaced == Spec => []Inv
<1>1. Init => Inv
  BY InitInv
<1>2. Inv /\ [Next]_vars => Inv'
  BY NextInv
<1>3. QED
  BY <1>1, <1>2, PTL DEF Spec

\* All variables keep their types: in particular only sectors of the disk are
\* read, also by a listing that has lost its place.
THEOREM FileTypes == Spec => []TypeOK
<1>1. Inv => TypeOK
  BY DEF Inv
<1>2. QED
  BY <1>1, ContextsArePlaced, PTL

\* FMCreateContext opens exactly what the elements it reads name: those of the
\* path, and behind a path that ends in dots those behind its NUL.
THEOREM PathsAreResolved == Spec => []OpenFindsThePath
<1>1. Inv => OpenFindsThePath
  <2>1. SUFFICES ASSUME Inv, call = "FMCreateContext", at = "return"
                 PROVE  OpenFindsThePath
    BY DEF OpenFindsThePath, Running
  <2>2. PICK from \in Directories, names \in Seq(Names \cup {Invalid}) :
          \E k \in 0 .. Len(names) : Looks(from, names, k)
    BY <2>1, LookupIs
  <2>3. PICK k \in 0 .. Len(names) : Looks(from, names, k)
    BY <2>2
  <2>4. PICK w : w = Way(from, names)[k]
    OBVIOUS
  <2>5. LookupAt(w)
    BY <2>3, <2>4 DEF Looks
  <2>6. CASE result = "ok"
    <3>1. /\ IsObject(w) /\ asked.found = w /\ Fresh(context[c], w.block) /\ Describes(context[c], w)
      BY <2>1, <2>5, <2>6 DEF LookupAt
    <3>2. w # Closed
      BY <3>1, ObjectIsOpen
    <3>3. QED
      BY <2>6, <3>1, <3>2 DEF OpenFindsThePath, Fresh, Describes
  <2>7. CASE result # "ok"
    <3>1. result = "error" /\ asked.found = Closed
      BY <2>1, <2>5, <2>7 DEF LookupAt
    <3>2. QED
      BY <3>1 DEF OpenFindsThePath
  <2>8. QED
    BY <2>6, <2>7
<1>2. QED
  BY <1>1, ContextsArePlaced, PTL

\* FMReadFile returns the bytes that follow those of the calls before it, as
\* many as asked for or as the file has left, but for those that it takes from
\* DosBuffer when another context has replaced the sector in it.
THEOREM BytesComeInOrder == Spec => []ReadsInOrder
<1>1. Inv => ReadsInOrder
  <2>1. SUFFICES ASSUME Inv, call = "FMReadFile", at = "return"
                 PROVE  ReadsInOrder
    BY DEF ReadsInOrder, Running
  <2>2. PICK o : o = object[c]
    OBVIOUS
  <2>3. ReadInv
    BY <2>1 DEF Inv
  <2>4. IsObject(o)
    BY <2>2, <2>3 DEF ReadInv
  <2>5. CASE o.kind = "dir"
    <3>1. result = "error" /\ out = <<>>
      BY <2>2, <2>3, <2>5 DEF ReadInv
    <3>2. QED
      BY <2>2, <2>5, <3>1 DEF ReadsInOrder
  <2>6. CASE o.kind = "file"
    <3>1. /\ Len(out) = Lesser(asked.amount, o.size - pos[c])
          /\ \A i \in 1 .. Len(out) : Right(i)
          /\ result = IF out = <<>> THEN "end" ELSE "ok"
      BY <2>1, <2>2, <2>3, <2>6 DEF ReadInv
    <3>2. o.kind # "dir"
      BY <2>6
    <3>3. QED
      BY <2>2, <3>1, <3>2 DEF ReadsInOrder, Right
  <2>7. QED
    BY <2>4, <2>5, <2>6, ObjectIsOpen
<1>2. QED
  BY <1>1, ContextsArePlaced, PTL

\* Successive calls of FMReadDir deliver every usable entry of the directory,
\* once and in order, and then its end, as long as DosBuffer holds the sector
\* that the listing is in.
THEOREM EntriesComeInOrder == Spec => []ListsInOrder
<1>1. Inv => ListsInOrder
  <2>1. SUFFICES ASSUME Inv, call = "FMReadDir", at = "return", trusted
                 PROVE  ListsInOrder
    BY DEF ListsInOrder, Running
  <2>2. PICK o, block : o = object[c] /\ block = object[c].block
    OBVIOUS
  <2>3. ListInv
    BY <2>1 DEF Inv
  <2>4. IsObject(o)
    BY <2>2, <2>3 DEF ListInv
  <2>5. PICK following : following = {i \in Listed(block) : Rank(block, i) = pos[c]}
    OBVIOUS
  <2>6. CASE o.kind = "file"
    <3>1. result = "error" /\ out = <<>>
      BY <2>2, <2>3, <2>6 DEF ListInv
    <3>2. QED
      BY <2>2, <2>6, <3>1 DEF ListsInOrder
  <2>7. CASE o.kind = "dir"
    <3>1. result \in {"ok", "end"}
      BY <2>1, <2>2, <2>3, <2>7 DEF ListInv
    <3>2. CASE result = "end"
      <4>1. out = <<>> /\ following = {}
        BY <2>1, <2>2, <2>3, <2>5, <2>7, <3>2 DEF ListInv
      <4>2. QED
        BY <2>2, <2>5, <2>7, <3>2, <4>1 DEF ListsInOrder
    <3>3. CASE result = "ok"
      <4>1. \E i \in following : out = <<EntryAt(block, i)>>
        BY <2>1, <2>2, <2>3, <2>5, <2>7, <3>3 DEF ListInv
      <4>2. QED
        BY <2>2, <2>5, <2>7, <3>3, <4>1 DEF ListsInOrder
    <3>4. QED
      BY <3>1, <3>2, <3>3
  <2>8. QED
    BY <2>4, <2>6, <2>7, ObjectIsOpen
<1>2. QED
  BY <1>1, ContextsArePlaced, PTL

=============================================================================
