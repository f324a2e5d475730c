--------------------------- MODULE DiskFileSystem ----------------------------
(***************************************************************************)
(* The file system on the simulated disk (filesys/filesys.cc without       *)
(* FILESYS_STUB, filesys/directory.cc, filehdr.cc, openfile.cc,            *)
(* pbitmap.cc and lib/bitmap.cc), with the commands of threads/main.cc     *)
(* that copy a host file in and print files: bitmap and directory are      *)
(* files that Create and Remove read, change in memory and write back.     *)
(*                                                                         *)
(* There is one user at a time, as the source says, so an operation is     *)
(* interrupted by nothing but a crash: the kernel may die between any two  *)
(* writes of a sector, and the disk, a host file, survives.  The bitmap is *)
(* one sector; the directory takes several, and an entry may lie across    *)
(* two of them, its flag and sector number in one and its name in the      *)
(* next.  A file header is one sector, so that it has room for NumDirect   *)
(* sector numbers, which nobody checks.  From a state in which the code    *)
(* acts on garbage (fault) nothing is claimed.                             *)
(***************************************************************************)
EXTENDS Integers, Sequences, FiniteSets, FiniteSetsExt, Functions

CONSTANTS NumSectors, SectorSize, TransferSize,
          NumDirect,     \* sector numbers a header has room for
          NumDirEntries,
          DirSectors,    \* sectors of the directory
          FlagSector,    \* the one of them with inUse and sector of an entry
          NameSector,    \* the one with its name
          Names,
          NoName,        \* what an entry that was never used has
          Bytes,
          Sizes,         \* bound: sizes files are created with
          Handles,       \* bound: OpenFiles at a time
          None

ASSUME SectorsAssumption ==
  NumSectors \in Nat /\ DirSectors \in Nat \ {0} /\ NumSectors >= 3 + DirSectors
ASSUME SizeAssumption == {SectorSize, TransferSize, NumDirect} \cup Sizes \subseteq Nat \ {0}
ASSUME DirAssumption ==
  /\ NumDirEntries \in Nat /\ NoName \notin Names
  /\ {FlagSector, NameSector} \subseteq [1 .. NumDirEntries -> 0 .. DirSectors - 1]
  /\ \A e \in 1 .. NumDirEntries : FlagSector[e] <= NameSector[e]

Junk == "junk"           \* what memory that was not written to holds
Sectors == 0 .. NumSectors - 1
FreeMapSector == 0
DirectorySector == 1
SystemSectors == 0 .. 2 + DirSectors  \* the two headers, the bitmap, the directory
Offsets == 0 .. SectorSize - 1
Entries == 1 .. NumDirEntries

\* DirectoryEntry, FileHeader as its sector holds it, OpenFile.
DirectoryEntries == [inUse : BOOLEAN, name : Names \cup {NoName}, sector : Sectors]
Directories == [Entries -> DirectoryEntries]
FileHeaders == [kind : {"header"}, numBytes : Sizes, dataSectors : Seq(Sectors)]
OpenFiles == [hdr : FileHeaders, name : Names, orphan : BOOLEAN]

\* Create or Remove in progress with what it has in memory, and OpenFile::WriteAt
\* in progress; at is the sector of the directory or of the file it writes next.
Updates ==
  [do : {"create", "remove"}, step : {"header", "table", "map"}, at : Nat, name : Names,
   entry : Entries, sector : Sectors, hdr : FileHeaders, table : Directories,
   map : SUBSET Sectors, data : Seq(Bytes)]
Transfers ==
  [do : {"copy", "write"}, at : Nat, name : Names, hdr : FileHeaders, orphan : BOOLEAN,
   data : Seq(Bytes), pos : Nat]

ASSUME NoneAssumption == None \notin OpenFiles \cup Updates \cup Transfers

VARIABLES
  freeMap,   \* on disk: sectors marked in the bitmap
  table,     \* on disk: the directory
  disk,      \* the other sectors: a file header or bytes
  open,      \* OpenFile: header, name, and history: its file is removed or lost
  op,        \* the operation in progress
  contents,  \* history: what was written to each file
  lost,      \* history: entries in use that do not own their file's sectors: the
             \* kernel died while it made or removed the file, or an OpenFile of
             \* a file that is gone has written to it
  astray,    \* history: a lost file was opened or removed
  overrun,   \* history: a header was given more sectors than it has room for
  fault

vars == <<freeMap, table, disk, open, op, contents, lost, astray, overrun, fault>>
history == <<contents, lost, astray, overrun>>

\* Directory::Directory.
Directory == [e \in Entries |-> [inUse |-> FALSE, name |-> NoName, sector |-> 0]]

\* A disk that FileSystem::FileSystem has formatted.
Init ==
  /\ freeMap = SystemSectors
  /\ table = Directory
  /\ disk = [s \in Sectors |-> [kind |-> "data", bytes |-> [o \in Offsets |-> Junk]]]
  /\ open = [h \in Handles |-> None]
  /\ op = None
  /\ contents = [n \in Names |-> <<>>]
  /\ lost = {} /\ astray = FALSE /\ overrun = FALSE /\ fault = FALSE

IsHeader(s) == disk[s].kind = "header"
ByteOf(s, o) == IF IsHeader(s) THEN Junk ELSE disk[s].bytes[o]

divRoundUp(n, s) == (n + s - 1) \div s

\* Directory::FindIndex, over the entries in use with the name, and Find.
Used == {e \in Entries : table[e].inUse}
Named(n) == {e \in Used : table[e].name = n}
FindIndex(n) == IF Named(n) = {} THEN -1 ELSE Min(Named(n))
Find(n) == IF FindIndex(n) = -1 THEN -1 ELSE table[FindIndex(n)].sector

\* Directory::Add in the first unused entry, and Remove, which leaves the name.
FirstUnused == Min(Entries \ Used)
Add(n, s) == [table EXCEPT ![FirstUnused] = [inUse |-> TRUE, name |-> n, sector |-> s]]
DirectoryRemove(n) == [table EXCEPT ![FindIndex(n)].inUse = FALSE]

\* Bitmap::NumClear.
NumClear(m) == Cardinality(Sectors \ m)

\* FindAndSet k times on map m: the k lowest clear bits, in order.
Lowest(m, k) ==
  {q \in [1 .. k -> Sectors \ m] :
     /\ \A i, j \in 1 .. k : i < j => q[i] < q[j]
     /\ \A s \in Sectors \ m : (\E i \in 1 .. k : s < q[i]) => \E j \in 1 .. k : q[j] = s}

\* FileHeader::Allocate on map m, and the header as WriteBack then puts it into
\* its sector: of dataSectors the part there is room for.
NumSectorsOf(size) == divRoundUp(size, SectorSize)
Allocate(m, size) ==
  {[map |-> m \cup Range(q),
    hdr |-> [kind |-> "header", numBytes |-> size,
             dataSectors |-> SubSeq(q, 1, Min({NumSectorsOf(size), NumDirect}))]] :
     q \in Lowest(m, NumSectorsOf(size))}

\* FileHeader::FetchFrom.
FetchFrom(s) == disk[s]

FileLength(hdr) == hdr.numBytes
SectorsOf(hdr) == Range(hdr.dataSectors)

\* dataSectors had room for all its sectors.
Fits(hdr) == NumSectorsOf(hdr.numBytes) <= NumDirect

\* The sectors of the file of an entry, its header included.
FileSectors(e) == {table[e].sector} \cup SectorsOf(disk[table[e].sector])

-----------------------------------------------------------------------------
(* Create *)

Idle == op = None

\* What Create tests, in its order; a failure discards what it has changed.
CreateFails(n, size) ==
  /\ Idle
  /\ \/ Find(n) # -1
     \/ freeMap = Sectors
     \/ Used = Entries
     \/ NumClear(freeMap) - 1 < NumSectorsOf(size)
  /\ UNCHANGED vars

CanCreate(n, size) ==
  /\ Idle
  /\ Find(n) = -1 /\ Used # Entries
  /\ NumClear(freeMap) >= NumSectorsOf(size) + 1

\* FileSystem::Create up to its first write; data is what Copy then fills the
\* file with.  Of a header that does not fit Allocate writes the rest behind it.
CreateFor(n, size, data) ==
  LET sector == Min(Sectors \ freeMap)
  IN  /\ CanCreate(n, size)
      /\ \E a \in Allocate(freeMap \cup {sector}, size) :
           op' = [do |-> "create", step |-> "header", at |-> 0, name |-> n,
                  entry |-> FirstUnused, sector |-> sector, hdr |-> a.hdr,
                  table |-> Add(n, sector), map |-> a.map, data |-> data]
      /\ overrun' = (overrun \/ NumSectorsOf(size) > NumDirect)
      /\ UNCHANGED <<freeMap, table, disk, open, contents, lost, astray, fault>>

Create(n, size) == CreateFor(n, size, <<>>)

\* What lies behind the header was in use: the bitmap, the directory, the heap.
CreateOverruns(n, size) ==
  /\ CanCreate(n, size) /\ NumSectorsOf(size) > NumDirect
  /\ overrun' = TRUE /\ fault' = TRUE
  /\ UNCHANGED <<freeMap, table, disk, open, op, contents, lost, astray>>

\* Copy of a host file with some content: it first creates a file as long.
Copy(n) == \E size \in Sizes : \E data \in [1 .. size -> Bytes] : CreateFor(n, size, data)

Updating(do, step) == op # None /\ op.do = do /\ op.step = step

\* hdr->WriteBack(sector).
WriteHeader ==
  /\ Updating("create", "header")
  /\ disk' = [disk EXCEPT ![op.sector] = op.hdr]
  /\ op' = [op EXCEPT !.step = "table"]
  /\ UNCHANGED <<freeMap, table, open, history, fault>>

-----------------------------------------------------------------------------
(* Remove *)

RemoveFails(n) ==
  /\ Idle /\ Find(n) = -1
  /\ UNCHANGED vars

\* fileHdr->Deallocate finds every sector marked.
Deallocatable(s) ==
  IsHeader(s) /\ Fits(disk[s]) /\ SectorsOf(disk[s]) \subseteq freeMap

Removal(n, map) ==
  [do |-> "remove", step |-> "map", at |-> 0, name |-> n, entry |-> FindIndex(n),
   sector |-> Find(n), hdr |-> FetchFrom(Find(n)), table |-> DirectoryRemove(n),
   map |-> map, data |-> <<>>]

\* A file that is opened or removed although it is lost.
Stray(n) == astray' = (astray \/ FindIndex(n) \in lost)

\* Mutant of Remove: the header's own sector is not cleared.
RemoveLeak(n) ==
  /\ Idle /\ Find(n) # -1 /\ Deallocatable(Find(n))
  /\ op' = Removal(n, freeMap \ SectorsOf(disk[Find(n)]))
  /\ Stray(n)
  /\ UNCHANGED <<freeMap, table, disk, open, contents, lost, overrun, fault>>

\* FileSystem::Remove up to its first write; FileHeader::Deallocate.
Remove(n) ==
  /\ Idle /\ Find(n) # -1 /\ Deallocatable(Find(n))
  /\ op' = Removal(n, freeMap \ (SectorsOf(disk[Find(n)]) \cup {Find(n)}))
  /\ Stray(n)
  /\ UNCHANGED <<freeMap, table, disk, open, contents, lost, overrun, fault>>

\* "ought to be marked!", or sector numbers that are not in the header; also Open
\* and Remove of a header that is none.
HeaderFaults(n) ==
  /\ Idle /\ Find(n) # -1 /\ ~Deallocatable(Find(n))
  /\ Stray(n)
  /\ fault' = TRUE
  /\ UNCHANGED <<freeMap, table, disk, open, op, contents, lost, overrun>>

-----------------------------------------------------------------------------
(* The writes both end in, in opposite orders, and what ends both *)

\* OpenFile::ReadAt; a request past the end of the file is cut short.
ReadAt(hdr, n, pos) ==
  [k \in 1 .. Min({n, FileLength(hdr) - pos}) |->
     ByteOf(hdr.dataSectors[((pos + k - 1) \div SectorSize) + 1], (pos + k - 1) % SectorSize)]
ReadAll(hdr) == ReadAt(hdr, FileLength(hdr), 0)

\* The OpenFiles when the files with these names are gone.
Orphaned(gone) ==
  [h \in Handles |-> IF open[h] # None /\ open[h].name \in gone
                     THEN [open[h] EXCEPT !.orphan = TRUE] ELSE open[h]]

\* OpenFile::OpenFile.
OpenFile(n) == [hdr |-> FetchFrom(Find(n)), name |-> n, orphan |-> FALSE]

\* OpenFile::WriteAt of data at pos of the open file f.
Transfer(do, f, data, pos) ==
  [do |-> do, at |-> pos \div SectorSize, name |-> f.name, hdr |-> f.hdr,
   orphan |-> f.orphan, data |-> data, pos |-> pos]

\* Directory sector d of directory t written over table.
TableSector(t, d) ==
  [e \in Entries |->
     [inUse |-> IF FlagSector[e] = d THEN t[e].inUse ELSE table[e].inUse,
      sector |-> IF FlagSector[e] = d THEN t[e].sector ELSE table[e].sector,
      name |-> IF NameSector[e] = d THEN t[e].name ELSE table[e].name]]

\* One sector of directory->WriteBack: second of Create's writes, last of
\* Remove's.
WriteTable ==
  /\ Updating("create", "table") \/ Updating("remove", "table")
  /\ table' = TableSector(op.table, op.at)
  /\ op' = IF op.at + 1 < DirSectors THEN [op EXCEPT !.at = @ + 1]
           ELSE IF op.do = "create" THEN [op EXCEPT !.step = "map"] ELSE None
  /\ UNCHANGED <<freeMap, disk, open, history, fault>>

\* freeMap->WriteBack: last of Create's writes, first of Remove's.  From here the
\* sectors belong to the file, or no longer do.  Copy opens the file and goes on
\* with the data.
WriteMap ==
  /\ Updating("create", "map") \/ Updating("remove", "map")
  /\ op' = IF op.do = "remove" THEN [op EXCEPT !.step = "table"]
           ELSE IF op.data # <<>> THEN Transfer("copy", OpenFile(op.name), op.data, 0) ELSE None
  /\ freeMap' = op.map
  /\ open' = IF op.do = "remove" THEN Orphaned({op.name}) ELSE open
  /\ contents' = [contents EXCEPT ![op.name] =
                    IF op.do = "create" /\ Fits(op.hdr) THEN ReadAll(op.hdr) ELSE <<>>]
  /\ UNCHANGED <<table, disk, lost, astray, overrun, fault>>

\* The kernel dies and is started again without formatting.  The directory has
\* the file of a Create whose bitmap is not written, or of a Remove whose bitmap
\* is.
CutOff ==
  /\ op # None /\ op.do \in {"create", "remove"}
  /\ table[op.entry].inUse /\ ~Updating("remove", "map")

Crash ==
  /\ op' = None
  /\ open' = [h \in Handles |-> None]
  /\ lost' = IF CutOff THEN lost \cup {op.entry} ELSE lost
  /\ UNCHANGED <<freeMap, table, disk, contents, astray, overrun, fault>>

-----------------------------------------------------------------------------
(* Open files *)

Open(h, n) ==
  /\ Idle /\ open[h] = None /\ Find(n) # -1
  /\ IsHeader(Find(n))
  /\ open' = [open EXCEPT ![h] = OpenFile(n)]
  /\ Stray(n)
  /\ UNCHANGED <<freeMap, table, disk, op, contents, lost, overrun, fault>>

Close(h) ==
  /\ Idle /\ open[h] # None
  /\ open' = [open EXCEPT ![h] = None]
  /\ UNCHANGED <<freeMap, table, disk, op, history, fault>>

\* Mutant of BufAt: of a request in one sector only the start is looked at.
BufAtFirst(hdr, from, pos, n, k) ==
  LET first == pos \div SectorSize
      last == (pos + n - 1) \div SectorSize
      firstAligned == pos % SectorSize = 0
      lastAligned == (pos + n) % SectorSize = 0
      readIn == \/ ~firstAligned /\ k \div SectorSize = first
                \/ ~lastAligned /\ first # last /\ k \div SectorSize = last
  IN  IF k \in pos .. pos + n - 1 THEN from[k - pos + 1]
      ELSE IF readIn /\ k < hdr.numBytes THEN ReadAll(hdr)[k + 1] ELSE Junk

\* Byte k of the buffer of OpenFile::WriteAt: the data, and around it what was
\* read of the first and the last sector when they are written in part; ReadAt
\* stops at the end of the file.
BufAt(hdr, from, pos, n, k) ==
  LET first == pos \div SectorSize
      last == (pos + n - 1) \div SectorSize
      firstAligned == pos % SectorSize = 0
      lastAligned == (pos + n) % SectorSize = 0
      readIn == \/ ~firstAligned /\ k \div SectorSize = first
                \/ ~lastAligned /\ (first # last \/ firstAligned) /\ k \div SectorSize = last
  IN  IF k \in pos .. pos + n - 1 THEN from[k - pos + 1]
      ELSE IF readIn /\ k < hdr.numBytes THEN ReadAll(hdr)[k + 1] ELSE Junk

\* OpenFile::Seek and Write.
Write(h) ==
  /\ Idle /\ open[h] # None
  /\ \E pos \in 0 .. FileLength(open[h].hdr) - 1, len \in 1 .. Max(Sizes) :
       \E from \in [1 .. len -> Bytes] : op' = Transfer("write", open[h], from, pos)
  /\ UNCHANGED <<freeMap, table, disk, open, history, fault>>

Transferring == op # None /\ op.do \in {"copy", "write"}

\* The bytes of the request: of Copy the next TransferSize.  A request past the
\* end of the file is cut short.
Request ==
  IF op.do = "write" THEN op.data
  ELSE SubSeq(op.data, op.pos + 1, Min({op.pos + TransferSize, Len(op.data)}))
Length == Min({Len(Request), FileLength(op.hdr) - op.pos})
LastSector == (op.pos + Length - 1) \div SectorSize

\* What a file with content c has to hold after sector i of the write.
Updated(c, from, pos, i) ==
  [k \in DOMAIN c |-> IF k \in pos + 1 .. pos + Len(from) /\ (k - 1) \div SectorSize = i
                      THEN from[k - pos] ELSE c[k]]

\* Entries whose file another file's write to sector s destroys.
Victims(s) == {e \in Used \ lost : s \in FileSectors(e)}

\* One sector of WriteAt.  When it was the last, Copy goes on with the next
\* request.
WriteAt ==
  /\ Transferring /\ op.at + 1 \in DOMAIN op.hdr.dataSectors
  /\ LET s == op.hdr.dataSectors[op.at + 1]
         hit == IF op.orphan THEN Victims(s) ELSE {}
         next == op.pos + Len(Request)
     IN  /\ disk' = [disk EXCEPT ![s] =
                       [kind |-> "data",
                        bytes |-> [o \in Offsets |-> BufAt(op.hdr, Request, op.pos, Length,
                                                          op.at * SectorSize + o)]]]
         /\ contents' = IF op.orphan THEN contents
                        ELSE [contents EXCEPT ![op.name] = Updated(@, Request, op.pos, op.at)]
         /\ lost' = lost \cup hit
         /\ open' = Orphaned({table[e].name : e \in hit})
         /\ op' = IF op.at < LastSector THEN [op EXCEPT !.at = @ + 1]
                  ELSE IF op.do = "copy" /\ next < Len(op.data)
                  THEN [op EXCEPT !.pos = next, !.at = next \div SectorSize]
                  ELSE None
  /\ UNCHANGED <<freeMap, table, astray, overrun, fault>>

\* ByteToSector takes what lies behind dataSectors for a sector number.
WriteBeyond ==
  /\ Transferring /\ LastSector + 1 \notin DOMAIN op.hdr.dataSectors
  /\ fault' = TRUE
  /\ UNCHANGED <<freeMap, table, disk, open, op, history>>

-----------------------------------------------------------------------------
(* What the printing commands show *)

\* Print of threads/main.cc: the file in reads of TransferSize bytes.
Print_(hdr) ==
  LET reads == divRoundUp(FileLength(hdr), TransferSize)
      shown[i \in 0 .. reads] ==
        IF i = 0 THEN <<>>
        ELSE shown[i - 1] \o ReadAt(hdr, TransferSize, (i - 1) * TransferSize)
  IN  shown[reads]

\* FileHeader::Print: sector by sector, up to the length.
HeaderPrint(hdr) ==
  LET sectors == Len(hdr.dataSectors)
      shown[i \in 0 .. sectors] ==
        IF i = 0 THEN <<>>
        ELSE shown[i - 1] \o
               [j \in 1 .. Min({SectorSize, FileLength(hdr) - Len(shown[i - 1])}) |->
                  ByteOf(hdr.dataSectors[i], j - 1)]
  IN  shown[sectors]

\* Directory::List: the names in use; Directory::Print: with what is in the files.
List == {table[e].name : e \in Used}
DirectoryPrint == {<<table[e].name, HeaderPrint(FetchFrom(table[e].sector))>> :
                     e \in Used}

\* FileSystem::Print.
FileSystemPrint == [bitmap |-> freeMap, directory |-> DirectoryPrint]

-----------------------------------------------------------------------------

Next ==
  /\ ~fault
  /\ \/ \E n \in Names : \/ \E size \in Sizes : \/ Create(n, size) \/ CreateFails(n, size)
                                              \/ CreateOverruns(n, size)
                         \/ Copy(n)
                         \/ Remove(n) \/ RemoveFails(n) \/ HeaderFaults(n)
                         \/ \E h \in Handles : Open(h, n)
     \/ WriteHeader \/ WriteTable \/ WriteMap \/ WriteAt \/ WriteBeyond
     \/ \E h \in Handles : Write(h) \/ Close(h)
     \/ Crash

Spec == Init /\ [][Next]_vars

-----------------------------------------------------------------------------
(* Properties. *)

TypeOK ==
  /\ freeMap \in SUBSET Sectors
  /\ table \in Directories
  /\ disk = [s \in Sectors |-> disk[s]] /\ \A s \in Sectors : IsHeader(s) => disk[s] \in FileHeaders
  /\ open \in [Handles -> OpenFiles \cup {None}]
  /\ op \in Updates \cup Transfers \cup {None}
  /\ lost \in SUBSET Entries
  /\ {astray, overrun, fault} \subseteq BOOLEAN

\* The entries whose files are their own.
Sound == Used \ lost

\* Between operations, also after crashes at any write and after writes through
\* OpenFiles of removed files: every file but those an accident of that kind has
\* hit has a header, no two of these files, their headers or system sectors
\* share a sector, and all their sectors are marked, so that no Create takes
\* them; as long as there was no accident the bitmap has exactly the sectors in
\* use.  It goes on as long as nobody opens or removes a file that was hit, and
\* the kernel meets garbage only after a header was given too many sectors.
DiskConsistent ==
  ~astray =>
    /\ fault => overrun
    /\ op = None =>
         /\ \A e \in Sound : /\ IsHeader(table[e].sector)
                            /\ table[e].sector \notin SectorsOf(disk[table[e].sector])
                            /\ FileSectors(e) \subseteq freeMap \ SystemSectors
         /\ \A e, f \in Sound : e # f => /\ table[e].name # table[f].name
                                        /\ FileSectors(e) \cap FileSectors(f) = {}
         /\ SystemSectors \subseteq freeMap
         /\ lost = {} /\ ~overrun => freeMap = SystemSectors \cup UNION {FileSectors(e) : e \in Used}

\* What is read of a file under its name is what was written to it, through any
\* OpenFile and any alignment, or copied into it, up to the sector at which the
\* kernel died, whatever happens to other files in between: for every file of at
\* most NumDirect sectors that no accident has hit.  As long as there was none,
\* the commands that list and print show exactly the files there are, with that
\* content.
ContentsKept ==
  op = None /\ ~astray =>
    /\ \A e \in Sound : Fits(disk[table[e].sector]) =>
         Print_(FetchFrom(Find(table[e].name))) = contents[table[e].name]
    /\ lost = {} /\ ~overrun =>
         FileSystemPrint.directory = {<<n, contents[n]>> : n \in {m \in Names : contents[m] # <<>>}}
=============================================================================
