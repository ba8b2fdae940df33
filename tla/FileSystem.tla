----------------------------- MODULE FileSystem -----------------------------
(***************************************************************************)
(* Paths, directories and files (fileman.asm over fat16.asm over           *)
(* partman.asm).  A program opens contexts with FMCreateContext and reads  *)
(* them with FMReadDir and FMReadFile.  All contexts share DosBuffer, the  *)
(* one sector that is cached between two calls.                            *)
(*                                                                         *)
(* A step is an iteration of a loop or the reading of one sector.  The     *)
(* contents of a sector are its number: DosBuffer is the number of the     *)
(* sector last read into it, and a byte of a file is where it lies on the  *)
(* disk, <<sector, offset>>.  Names are model values.  The disk is a       *)
(* constant: nothing writes to it.  A sector may fail to be read.          *)
(***************************************************************************)
EXTENDS Integers, FiniteSets, Sequences

CONSTANTS
  Contexts,           \* path contexts of the program
  SectorSize,         \* 512
  EntriesPerSector,   \* 16
  FatPerSector,       \* 256
  SectorsPerCluster, FatStart, RootStart, RootSectors, DataStart,
  Fat,                \* cluster -> next cluster, for all that the FAT can hold
  Entries,            \* sector -> what its directory entries are
  Directories,        \* first clusters of the directories, 0 for the root
  Names,              \* names of directory entries
  Paths,              \* paths that programs open: [absolute, names, behind], the
                      \* last what would be read behind the NUL
  Amounts             \* numbers of bytes that programs read at once

Dot == "."
DotDot == ".."
Invalid == "invalid"  \* a path element that is no 8.3 name
Kinds == {"end", "deleted", "skipped", "file", "dir"}
Clusters == DOMAIN Fat
Sectors == DOMAIN Entries
EntryType == [kind : Kinds, name : Names, block : Clusters, size : Nat]

ASSUME FileSystemAssumption ==
  /\ {SectorSize, EntriesPerSector, FatPerSector, SectorsPerCluster}
       \subseteq Nat \ {0}
  /\ {FatStart, RootStart, RootSectors, DataStart} \subseteq Nat \ {0}
  /\ Clusters \subseteq Nat /\ \A k \in Clusters : Fat[k] \in Clusters
  /\ Sectors \subseteq Nat
  /\ \A s \in Sectors : Entries[s] \in [0 .. EntriesPerSector - 1 -> EntryType]
  /\ Directories \subseteq Clusters /\ 0 \in Directories
  /\ \A p \in Paths : p.absolute \in BOOLEAN /\ {p.names, p.behind} \subseteq Seq(Names \cup {Invalid})
  /\ Amounts \subseteq Nat /\ Dot \in Names /\ Invalid \notin Names /\ Contexts # {}

VARIABLES
  context,     \* the path contexts
  dosBuffer,   \* the sector in DosBuffer, 0 before the first
  currentDir,  \* DosCurrentDir
  call, at,    \* the call that runs and where it is
  c,           \* its context
  path,        \* A5 of FMCreateContext: names still to be resolved
  base,        \* D2 of FMCreateContext: the directory to scan
  index,       \* D1 of FATReadDir: the entry it looks at
  left,        \* D7 of FMReadFile: bytes still to be read
  out,         \* what the call has delivered: bytes, or a directory entry
  result,
  \* history: what the program asked for, whether c's cached sector was in
  \* DosBuffer when it did, and for every context what it was opened for and
  \* how many bytes or entries of it were read
  asked, trusted, object, pos

disk == <<context, dosBuffer>>
registers == <<path, base, index, left>>
history == <<asked, trusted, object, pos>>
vars == <<disk, currentDir, call, at, c, registers, out, result, history>>

Closed == [kind |-> "end", name |-> Dot, block |-> 0, size |-> 0]
Root   == [kind |-> "dir", name |-> Dot, block |-> 0, size |-> 0]
Nothing == [found |-> Closed, amount |-> 0]
EmptyContext ==
  [firstSec |-> 0, currBlock |-> 0, nextSec |-> 0, offset |-> 0, bytesRem |-> 0, dir |-> TRUE]

Locations == Sectors \X (0 .. SectorSize - 1)

TypeOK ==
  /\ context \in [Contexts -> [firstSec : Nat, currBlock : Nat, nextSec : Nat,
                               offset : Nat, bytesRem : Nat, dir : BOOLEAN]]
  /\ \A d \in Contexts :
       context[d].offset \in (0 .. EntriesPerSector) \cup (0 .. SectorSize - 1)
  /\ dosBuffer \in {0} \cup Sectors /\ currentDir \in Nat
  /\ call \in {"none", "FMCreateContext", "FMReadDir", "FMReadFile", "lost"}
  /\ at \in {"none", "context", "element", "scan", "entry", "aligned", "cluster", "sector",
            "return"}
  /\ c \in Contexts /\ path \in Seq(Names \cup {Invalid})
  /\ base \in Nat /\ index \in 0 .. EntriesPerSector /\ left \in Nat
  /\ out \in IF call = "FMReadDir" THEN Seq(EntryType) ELSE Seq(Locations)
  /\ result \in {"none", "ok", "end", "error"}
  /\ asked \in [found : EntryType, amount : Nat]
  /\ trusted \in BOOLEAN /\ object \in [Contexts -> EntryType] /\ pos \in [Contexts -> Nat]

Init ==
  /\ context = [d \in Contexts |-> EmptyContext] /\ dosBuffer = 0 /\ currentDir = 0
  /\ call = "none" /\ at = "none" /\ c = CHOOSE d \in Contexts : TRUE
  /\ path = <<>> /\ base = 0 /\ index = 0 /\ left = 0 /\ out = <<>> /\ result = "none"
  /\ asked = Nothing /\ trusted = FALSE
  /\ object = [d \in Contexts |-> Closed] /\ pos = [d \in Contexts |-> 0]
-----------------------------------------------------------------------------
(***************************************************************************)
(* The layout of the disk.                                                 *)
(***************************************************************************)
FATClusterToSector(cluster) == DataStart + (cluster - 2) * SectorsPerCluster
FirstSector(block) == IF block = 0 THEN RootStart ELSE FATClusterToSector(block)
FatSector(cluster) == FatStart + cluster \div FatPerSector

\* A context's cached sector is in DosBuffer, or it needs none.
Trusted(d) ==
  \/ context[d].offset = 0
  \/ context[d].dir /\ context[d].offset = EntriesPerSector
  \/ dosBuffer = context[d].nextSec - 1

Bytes(sector, from, count) == [i \in 1 .. count |-> <<sector, from + i - 1>>]
Lesser(a, b) == IF a < b THEN a ELSE b

\* The elements that are read of a path.  Behind "." and ".." the code skips
\* one character without looking at it.  When that is the NUL the path goes on
\* with what lies behind it, up to the next NUL.
Elements(p) ==
  IF p.names # <<>> /\ p.names[Len(p.names)] \in {Dot, DotDot}
  THEN p.names \o p.behind ELSE p.names

Finish(r) == at' = "return" /\ result' = r
Running(name, place) == call = name /\ at = place
-----------------------------------------------------------------------------
(***************************************************************************)
(* What the disk holds, independent of the code: directory `block' lists   *)
(* its usable entries up to its end, a path names the entry that is found  *)
(* by following it, and byte i of a file lies in the cluster that is       *)
(* reached by following the FAT.                                           *)
(***************************************************************************)
SectorCount(block) == IF block = 0 THEN RootSectors ELSE SectorsPerCluster
Places(block) == 0 .. SectorCount(block) * EntriesPerSector - 1
EntryAt(block, i) ==
  Entries[FirstSector(block) + i \div EntriesPerSector][i % EntriesPerSector]

\* Where the usable entries are: those before the first end.
Listed(block) ==
  {i \in Places(block) : /\ EntryAt(block, i).kind \in {"file", "dir"}
                         /\ \A j \in 0 .. i : EntryAt(block, j).kind # "end"}

\* The number of usable entries before place i.
Rank(block, i) == Cardinality({j \in Listed(block) : j < i})

Least(S) == CHOOSE i \in S : \A j \in S : i <= j

Child(o, name) ==
  LET found == {i \in Listed(o.block) : EntryAt(o.block, i).name = name}
  IN  IF o.kind # "dir" THEN Closed
      ELSE IF name = Dot /\ o.block = 0 THEN o
      ELSE IF found = {} THEN Closed
      ELSE EntryAt(o.block, Least(found))

\* What a path names from directory `from', name by name.
Way(from, names) ==
  LET way[k \in 0 .. Len(names)] ==
        IF k = 0 THEN [Root EXCEPT !.block = from] ELSE Child(way[k - 1], names[k])
  IN  way

Named(from, names) == Way(from, names)[Len(names)]

\* The clusters of a file, one after the other.
Chain(block) ==
  LET chain[k \in Nat] == IF k = 0 THEN block ELSE Fat[chain[k - 1]] IN chain

Cluster(o, n) == Chain(o.block)[n]

SectorAt(o, n) ==
  FATClusterToSector(Cluster(o, n \div SectorsPerCluster)) + (n % SectorsPerCluster)

ByteAt(o, i) == <<SectorAt(o, i \div SectorSize), i % SectorSize>>

(***************************************************************************)
(* The disks and paths that the code can read: it looks neither at the     *)
(* cluster chain of a directory nor at the size of the root directory, and *)
(* a path that goes on behind a file takes its contents for entries.       *)
(***************************************************************************)
\* A cluster of data, its sectors and its place in the FAT lie on the disk.
ClusterSound(k) ==
  /\ k >= 2 /\ FatSector(k) \in Sectors
  /\ \A j \in 0 .. SectorsPerCluster - 1 : FATClusterToSector(k) + j \in Sectors

FileSound(e) ==
  /\ e.block # 1
  /\ \A i \in 0 .. e.size - 1 : ClusterSound(Cluster(e, (i \div SectorSize) \div SectorsPerCluster))

EntrySound(e) ==
  /\ e.kind = "dir" => e.block \in Directories
  /\ e.kind = "file" => FileSound(e)

\* A directory has an end in its root sectors or its first cluster.
DirectorySound(block) ==
  /\ block # 1
  /\ \A k \in 0 .. SectorCount(block) - 1 : FirstSector(block) + k \in Sectors
  /\ \E i \in Places(block) : EntryAt(block, i).kind = "end"
  /\ \A i \in Listed(block) : EntrySound(EntryAt(block, i))

\* A listing that has lost its place is stopped behind all directories.
StopsAt(last) ==
  /\ 0 .. last \subseteq Sectors /\ Entries[last][0].kind = "end"
  /\ \A block \in Directories : FirstSector(block) + SectorCount(block) <= last

NoFileOnTheWay(p, from) ==
  \A k \in 0 .. Len(Elements(p)) - 1 : Way(from, Elements(p))[k].kind # "file"

ASSUME DiskAssumption ==
  /\ \A block \in Directories : DirectorySound(block)
  /\ \E last \in Sectors : StopsAt(last)
  /\ \A p \in Paths, from \in Directories :
       (p.absolute => from = 0) => NoFileOnTheWay(p, from)
-----------------------------------------------------------------------------
(***************************************************************************)
(* FMCreateContext                                                         *)
(***************************************************************************)
FMCreateContext ==
  /\ call = "none"
  /\ call' = "FMCreateContext" /\ at' = "context"
  /\ \E d \in Contexts, p \in Paths :
       /\ c' = d /\ path' = Elements(p)
       /\ base' = IF p.absolute THEN 0 ELSE currentDir
       /\ asked' = [Nothing EXCEPT !.found = Named(base', Elements(p))]
       /\ context' = [context EXCEPT ![d] = EmptyContext]
       /\ object' = [object EXCEPT ![d] = Closed] /\ pos' = [pos EXCEPT ![d] = 0]
  /\ trusted' = TRUE
  /\ UNCHANGED <<dosBuffer, currentDir, index, left, out, result>>

\* The end of the path: the context of the last element is the result.
NextElement(names) == IF names = <<>> THEN Finish("ok") ELSE at' = "element" /\ UNCHANGED result

FATCreatePathContext ==
  /\ Running("FMCreateContext", "context")
  /\ LET first == FirstSector(base)
     IN  IF base = 1
         THEN Finish("error") /\ UNCHANGED context
         ELSE /\ context' = [context EXCEPT
                   ![c] = [@ EXCEPT !.currBlock = base, !.firstSec = first, !.nextSec = first,
                                    !.offset = 0]]
              /\ NextElement(path)
  /\ UNCHANGED <<dosBuffer, currentDir, call, c, registers, out, history>>

\* "." in the root directory, which has no such entry, is the directory
\* itself.  The faulty variant looks for the entry.
NeverItself(name) == FALSE
ItselfInRoot(name) == name = Dot /\ base = 0

\* The next element, and what follows the character that ends it: Elements.
ExtractNextPathElement ==
  /\ Running("FMCreateContext", "element")
  /\ \/ Head(path) = Invalid
        /\ Finish("error") /\ UNCHANGED <<path, index, out>>
     \/ ItselfInRoot(Head(path))
        /\ path' = Tail(path) /\ NextElement(Tail(path)) /\ UNCHANGED <<index, out>>
     \/ Head(path) # Invalid /\ ~ItselfInRoot(Head(path))
        /\ at' = "scan" /\ index' = context[c].offset /\ out' = <<>>
        /\ UNCHANGED <<path, result>>
  /\ UNCHANGED <<disk, currentDir, call, c, base, left, history>>

Entry == Entries[dosBuffer][index]

\* The next call goes on behind the entry; the faulty variant at it.
AtEntry(i) == i
BehindEntry(i) == i + 1

\* An entry was found: every entry leaves its size and kind in the context;
\* the one with the name is the next to open.
Compare(entry) ==
  /\ context' = [context EXCEPT
       ![c] = [@ EXCEPT !.offset = BehindEntry(index), !.bytesRem = entry.size,
                        !.dir = (entry.kind = "dir")]]
  /\ IF entry.name = Head(path)
     THEN at' = "context" /\ base' = entry.block /\ path' = Tail(path) /\ UNCHANGED index
     ELSE at' = "scan" /\ index' = index + 1 /\ UNCHANGED <<base, path>>
  /\ UNCHANGED <<out, result>>
-----------------------------------------------------------------------------
(***************************************************************************)
(* FMReadDir and FATReadDir                                                *)
(***************************************************************************)
FMReadDir ==
  /\ call = "none"
  /\ call' = "FMReadDir"
  /\ \E d \in Contexts :
       /\ object[d] # Closed
       /\ c' = d /\ trusted' = Trusted(d)
       /\ IF context[d].dir
          THEN at' = "scan" /\ index' = context[d].offset /\ UNCHANGED result
          ELSE Finish("error") /\ UNCHANGED index
  /\ UNCHANGED <<disk, currentDir, path, base, left, out, asked, object, pos>>

\* At the end of a sector, the faulty variant forgets to count it.
SameSector(x) == [x EXCEPT !.offset = 0]
AfterSector(x) == [x EXCEPT !.nextSec = @ + 1, !.offset = 0]

\* The next sector of the directory: the one that follows.
ReadDirSector ==
  /\ at = "scan" /\ index % EntriesPerSector = 0
  /\ dosBuffer' = context[c].nextSec
  /\ context' = [context EXCEPT ![c] = AfterSector(@)]
  /\ index' = 0 /\ at' = "entry"
  /\ UNCHANGED <<currentDir, call, c, path, base, left, out, result, history>>

SameDirSector ==
  /\ at = "scan" /\ index % EntriesPerSector # 0
  /\ at' = "entry"
  /\ UNCHANGED <<disk, currentDir, call, c, registers, out, result, history>>

EndOfListing ==
  /\ at = "entry" /\ Entry.kind = "end"
  /\ Finish(IF call = "FMReadDir" THEN "end" ELSE "error")
  /\ UNCHANGED <<disk, currentDir, call, c, registers, out, history>>

SkipEntry ==
  /\ at = "entry" /\ Entry.kind \in {"deleted", "skipped"}
  /\ index' = index + 1 /\ at' = "scan"
  /\ UNCHANGED <<disk, currentDir, call, c, path, base, left, out, result, history>>

EntryOk ==
  /\ at = "entry" /\ Entry.kind \in {"file", "dir"}
  /\ \/ call = "FMCreateContext" /\ Compare(Entry)
     \/ /\ call = "FMReadDir"
        /\ context' = [context EXCEPT ![c].offset = BehindEntry(index)]
        /\ out' = <<Entry>> /\ Finish("ok")
        /\ UNCHANGED <<path, base, index>>
  /\ UNCHANGED <<dosBuffer, currentDir, call, c, left, history>>
-----------------------------------------------------------------------------
(***************************************************************************)
(* FMReadFile, FATReadFileSector and FATGetNextCluster                     *)
(***************************************************************************)
\* The offset after bytes were taken from the cached sector.  The faulty
\* variant does not see that the sector is used up.
OffsetAfterOld(offset) == offset
OffsetAfter(offset) == IF offset = SectorSize THEN 0 ELSE offset

\* The first bytes come from DosBuffer, when the last call left some there.
\* When they are not enough, reading goes on at the start of a sector.
StartReading(d, wanted) ==
  LET x == context[d]
      buffered == IF x.offset = 0 THEN 0 ELSE Lesser(SectorSize - x.offset, wanted)
  IN  /\ left' = wanted - buffered
      /\ out' = Bytes(dosBuffer, x.offset, buffered)
      /\ context' = [context EXCEPT ![d].offset =
           IF buffered < wanted THEN 0 ELSE OffsetAfter(@ + buffered)]

FMReadFile ==
  /\ call = "none"
  /\ call' = "FMReadFile"
  /\ \E d \in Contexts, n \in Amounts :
       /\ object[d] # Closed
       /\ c' = d /\ trusted' = Trusted(d) /\ asked' = [Nothing EXCEPT !.amount = n]
       /\ IF context[d].dir
          THEN Finish("error") /\ UNCHANGED <<context, left, out>>
          ELSE at' = "aligned" /\ UNCHANGED result
               /\ StartReading(d, Lesser(n, context[d].bytesRem))
  /\ UNCHANGED <<dosBuffer, currentDir, path, base, index, object, pos>>

\* Everything was read, or the file has ended.
EndReading ==
  /\ at = "aligned" /\ left = 0
  /\ context' = [context EXCEPT ![c].bytesRem = @ - Len(out)]
  /\ Finish(IF out = <<>> THEN "end" ELSE "ok")
  /\ UNCHANGED <<dosBuffer, currentDir, call, c, registers, out, history>>

\* All sectors of the cluster were read; the faulty variant reads one more.
ClusterReadLate(x) == x.nextSec > x.firstSec + SectorsPerCluster
ClusterRead(x) == x.nextSec >= x.firstSec + SectorsPerCluster

FATReadFileSector ==
  /\ at = "aligned" /\ left > 0
  /\ at' = IF ClusterRead(context[c]) THEN "cluster" ELSE "sector"
  /\ UNCHANGED <<disk, currentDir, call, c, registers, out, result, history>>

FATGetNextCluster ==
  /\ at = "cluster"
  /\ dosBuffer' = FatSector(context[c].currBlock)
  /\ LET next == Fat[context[c].currBlock]
         first == FATClusterToSector(next)
     IN  context' = [context EXCEPT
           ![c] = [@ EXCEPT !.currBlock = next, !.firstSec = first, !.nextSec = first]]
  /\ at' = "sector"
  /\ UNCHANGED <<currentDir, call, c, registers, out, result, history>>

\* A whole sector goes to the program's buffer, the last one by DosBuffer.
ReadSector ==
  /\ at = "sector"
  /\ LET x == context[c]
         s == x.nextSec
         count == Lesser(SectorSize, left)
         taken == IF count < SectorSize THEN x.offset + count ELSE x.offset
     IN  /\ dosBuffer' = IF count < SectorSize THEN s ELSE dosBuffer
         /\ context' = [context EXCEPT ![c] = [x EXCEPT !.nextSec = s + 1, !.offset = taken]]
         /\ out' = out \o Bytes(s, 0, count)
         /\ left' = left - count
  /\ at' = "aligned"
  /\ UNCHANGED <<currentDir, call, c, path, base, index, result, history>>
-----------------------------------------------------------------------------
\* PMReadSector fails: PMStoreDeviceError pushes A6 and does not pull it, its
\* rts jumps to what A6 was.  No call of the file system returns.
DeviceError ==
  /\ at \in {"cluster", "sector"} \/ (at = "scan" /\ index % EntriesPerSector = 0)
  /\ call' = "lost" /\ at' = "none" /\ result' = "error" /\ dosBuffer' = 0
  /\ UNCHANGED <<context, currentDir, c, registers, out, history>>

FMChangeDirectory ==
  /\ call = "none"
  /\ \E d \in Contexts :
       /\ object[d] # Closed /\ context[d].dir
       /\ currentDir' = context[d].currBlock
  /\ UNCHANGED <<disk, call, at, c, registers, out, result, history>>

\* The call returns to the program.  A listing that has ended, or that went on
\* from another sector, is not continued.
Return ==
  /\ at = "return"
  /\ call' = "none" /\ at' = "none" /\ result' = "none" /\ out' = <<>>
  /\ path' = <<>> /\ base' = 0 /\ index' = 0 /\ left' = 0
  /\ asked' = Nothing /\ trusted' = FALSE
  /\ pos' = [pos EXCEPT ![c] = @ + Len(out)]
  /\ object' = [object EXCEPT ![c] =
       CASE call = "FMCreateContext" -> IF result = "ok" THEN asked.found ELSE Closed
         [] call = "FMReadDir"       -> IF result = "end" \/ ~trusted THEN Closed ELSE @
         [] call = "FMReadFile"      -> @]
  /\ UNCHANGED <<disk, currentDir, c>>

\* The machine is reset and the BIOS starts again.
Reset ==
  /\ call = "lost"
  /\ context' = [d \in Contexts |-> EmptyContext] /\ currentDir' = 0
  /\ call' = "none" /\ result' = "none" /\ out' = <<>>
  /\ path' = <<>> /\ base' = 0 /\ index' = 0 /\ left' = 0
  /\ asked' = Nothing /\ trusted' = FALSE
  /\ object' = [d \in Contexts |-> Closed] /\ pos' = [d \in Contexts |-> 0]
  /\ UNCHANGED <<dosBuffer, at, c>>
-----------------------------------------------------------------------------
Step ==
  \/ FATCreatePathContext \/ ExtractNextPathElement
  \/ ReadDirSector \/ SameDirSector \/ EndOfListing \/ SkipEntry \/ EntryOk
  \/ EndReading \/ FATReadFileSector \/ FATGetNextCluster \/ ReadSector
  \/ Return

Next ==
  \/ FMCreateContext \/ FMReadDir \/ FMReadFile \/ FMChangeDirectory
  \/ Step \/ DeviceError \/ Reset

\* The processor goes on with the call it is in.
Spec == Init /\ [][Next]_vars /\ WF_vars(Step)
-----------------------------------------------------------------------------
\* FMCreateContext opens exactly what the elements it reads name, one after the
\* other, in the directory it starts from, and reports an error when they name
\* nothing.  These are the names of the path, but for one that ends in "." or
\* "..": against "zero-terminated" (fileman.asm:253) it goes on behind its NUL.
OpenFindsThePath ==
  Running("FMCreateContext", "return") =>
    LET found == asked.found
        x == context[c]
    IN  IF found = Closed
        THEN result = "error"
        ELSE /\ result = "ok" /\ x.currBlock = found.block /\ x.dir = (found.kind = "dir")
             /\ found.kind = "file" => x.bytesRem = found.size

\* FMReadFile returns the bytes that follow those of the calls before it, in
\* order, as many as asked for or as the file has left, whatever other
\* contexts were used in between, but for those it takes from DosBuffer when
\* another context has replaced the sector in it.
ReadsInOrder ==
  Running("FMReadFile", "return") =>
    LET o == object[c]
        Cached(i) == ~trusted /\ pos[c] % SectorSize # 0
                     /\ (pos[c] + i - 1) \div SectorSize = pos[c] \div SectorSize
    IN  IF o.kind = "dir"
        THEN result = "error" /\ out = <<>>
        ELSE /\ Len(out) = Lesser(asked.amount, o.size - pos[c])
             /\ \A i \in 1 .. Len(out) : Cached(i) \/ out[i] = ByteAt(o, pos[c] + i - 1)
             /\ result = IF out = <<>> THEN "end" ELSE "ok"

\* Successive calls of FMReadDir deliver every entry of the directory that is
\* neither deleted nor a label, once and in order, and then its end, as long
\* as DosBuffer holds the sector that the listing is in.
ListsInOrder ==
  Running("FMReadDir", "return") /\ trusted =>
    LET block == object[c].block
        following == {i \in Listed(block) : Rank(block, i) = pos[c]}
    IN  IF object[c].kind = "file"
        THEN result = "error" /\ out = <<>>
        ELSE IF following = {}
             THEN result = "end" /\ out = <<>>
             ELSE result = "ok" /\ \E i \in following : out = <<EntryAt(block, i)>>


\* Every call comes back to the program, unless a sector cannot be read:
\* a directory is scanned to its end and a file is read sector by sector.
CallsReturn == call # "none" ~> call \in {"none", "lost"}

\* "Return: D0 = 0: OK, D0 != 0: Error" (partman.asm:185): an error in reading
\* a sector comes back to the caller.
ErrorsAreReported == call # "lost"
=============================================================================
