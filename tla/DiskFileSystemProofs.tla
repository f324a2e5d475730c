------------------------- MODULE DiskFileSystemProofs -------------------------
(***************************************************************************)
(* Proofs about DiskFileSystem, for any size of the disk, of its sectors,  *)
(* of a header and of the directory.                                       *)
(*                                                                         *)
(* The inductive invariant IInv has two parts.  Progress says how far the  *)
(* operation in memory has got, whatever has happened to the disk before:  *)
(* which sectors of its directory are written, and that a write is within  *)
(* the file.  Good says, as long as no lost file was opened or removed,    *)
(* which entries of the directory have their file to themselves at each    *)
(* step of an operation (SoundNow), and that an OpenFile of one of them    *)
(* has the header that is on disk, so that a write through it goes to the  *)
(* file's own sectors.  On top of it the second part shows that at every   *)
(* step these files hold what was written to them.                         *)
(***************************************************************************)
EXTENDS DiskFileSystem, FiniteSetTheorems, SequenceTheorems, WellFoundedInduction, TLAPS

\* The sectors of the file of entry e of directory T on disk D.
Owned(D, T, e) == {T[e].sector} \cup SectorsOf(D[T[e].sector])

\* A header as Create makes it; it is well formed when all its sectors fit in.
Distinct(hdr) ==
  \A i, j \in 1 .. Len(hdr.dataSectors) : i # j => hdr.dataSectors[i] # hdr.dataSectors[j]
Shaped(hdr) ==
  /\ hdr \in FileHeaders
  /\ Len(hdr.dataSectors) = Min({NumSectorsOf(hdr.numBytes), NumDirect})
  /\ Distinct(hdr)
WellFormed(hdr) ==
  hdr \in FileHeaders /\ Len(hdr.dataSectors) = NumSectorsOf(hdr.numBytes)

\* On disk D the entries S of directory T have their files to themselves, their
\* sectors are marked in bitmap M, and FindIndex finds them by name.
Proper(D, T, e, M) ==
  /\ T[e].inUse /\ T[e].name \in Names
  /\ Shaped(D[T[e].sector])
  /\ T[e].sector \notin SectorsOf(D[T[e].sector])
  /\ Owned(D, T, e) \subseteq M \ SystemSectors
Agree(D, T, S, M) ==
  /\ S \subseteq Entries /\ SystemSectors \subseteq M
  /\ \A e \in S : Proper(D, T, e, M)
  /\ \A e, f \in S : e # f => Owned(D, T, e) \cap Owned(D, T, f) = {}
  /\ \A e \in S, f \in Entries : e # f /\ T[f].name = T[e].name => e < f

\* No sector is marked for nothing; all headers have room.  l are the entries
\* that were lost, ov is whether a header was overrun.
Exact(D, T, S, M) == M \subseteq SystemSectors \cup UNION {Owned(D, T, e) : e \in S}
Roomy(D, T, S) == \A e \in S : Fits(D[T[e].sector])
Files(D, T, S, M, l, ov) ==
  /\ Agree(D, T, S, M)
  /\ l = {} /\ ~ ov => Exact(D, T, S, M)
  /\ ~ ov => Roomy(D, T, S)

\* An OpenFile, or a write through one: of a file that exists it has the header.
Holds(o, D, T, S, ov) ==
  /\ Shaped(o.hdr) /\ (~ ov => Fits(o.hdr))
  /\ ~ o.orphan => \E e \in S : T[e].name = o.name /\ D[T[e].sector] = o.hdr
Opened(O, D, T, S, ov) == \A h \in Handles : O[h] # None => Holds(O[h], D, T, S, ov)

Creating == op # None /\ op.do = "create"
Removing == op # None /\ op.do = "remove"

\* The entries whose files are their own at this step.
SoundNow ==
  (Used \ lost) \ (IF Creating \/ Updating("remove", "table") THEN {op.entry} ELSE {})

\* The directory of Create in memory, and how much of it is written.
NewEntry(o) == [inUse |-> TRUE, name |-> o.name, sector |-> o.sector]
CreateProgress(o) ==
  /\ o.table = [table EXCEPT ![o.entry] = NewEntry(o)]
  /\ \A f \in Entries : f # o.entry /\ table[f].name = o.name => o.entry < f /\ ~ table[f].inUse
  /\ o.step = "header" => o.at = 0 /\ ~ table[o.entry].inUse
  /\ o.step # "header" => disk[o.sector] = o.hdr
  /\ o.step = "table" =>
       /\ o.at < DirSectors
       /\ FlagSector[o.entry] < o.at => table[o.entry].inUse /\ table[o.entry].sector = o.sector
       /\ NameSector[o.entry] < o.at => table[o.entry].name = o.name
  /\ o.step = "map" => table = o.table
  /\ o.data # <<>> => Len(o.data) = o.hdr.numBytes

\* The same of Remove, and where a write is in its file.
OldEntry(o) == [inUse |-> FALSE, name |-> o.name, sector |-> table[o.entry].sector]
RemoveProgress(o) ==
  /\ o.step \in {"map", "table"}
  /\ o.table = [table EXCEPT ![o.entry] = OldEntry(o)]
  /\ table[o.entry].name = o.name
  /\ o.step = "map" => o.at = 0 /\ table[o.entry].inUse
  /\ o.step = "table" => o.at < DirSectors /\ (FlagSector[o.entry] < o.at => ~ table[o.entry].inUse)
TransferProgress(o) ==
  /\ o.pos < o.hdr.numBytes /\ o.data # <<>>
  /\ o.do = "copy" => ~ o.orphan /\ Len(o.data) = o.hdr.numBytes
  /\ o.at \in o.pos \div SectorSize .. LastSector
Progress ==
  /\ Creating => CreateProgress(op)
  /\ Removing => RemoveProgress(op)
  /\ Transferring => TransferProgress(op)

\* What Create and Remove write goes where no other file is.
NewFile(o) == {o.sector} \cup SectorsOf(o.hdr)
CreateGood(o) ==
  /\ o.entry \notin lost
  /\ NewFile(o) \cap freeMap = {} /\ o.sector \notin SectorsOf(o.hdr)
  /\ Shaped(o.hdr) /\ (~ overrun => Fits(o.hdr))
  /\ freeMap \cup NewFile(o) \subseteq o.map
  /\ ~ overrun => o.map = freeMap \cup NewFile(o)
RemoveGood(o) ==
  /\ o.entry \notin lost
  /\ o.step = "map" => o.map = freeMap \ Owned(disk, table, o.entry)

Good ==
  /\ fault => overrun
  /\ lost \subseteq Used
  /\ Files(disk, table, SoundNow, freeMap, lost, overrun)
  /\ Opened(open, disk, table, SoundNow, overrun)
  /\ Creating => CreateGood(op)
  /\ Removing => RemoveGood(op)
  /\ Transferring => Holds(op, disk, table, SoundNow, overrun)
IInv == TypeOK /\ Progress /\ (~ astray => Good)

-----------------------------------------------------------------------------
(* Arithmetic of sectors *)

\* Division rounds down.
LEMMA DivBounds ==
  ASSUME NEW s \in Nat \ {0}, NEW a \in Int
  PROVE  /\ a \div s \in Int /\ (a \div s) * s <= a /\ a < (a \div s) * s + s
         /\ a >= 0 => a \div s >= 0
  OBVIOUS

\* A larger quotient is larger by a sector.
LEMMA NextMultiple ==
  ASSUME NEW s \in Nat \ {0}, NEW p \in Int, NEW q \in Int, p < q
  PROVE  p * s + s <= q * s
  OBVIOUS

\* Division is monotone.
LEMMA DivMonotone ==
  ASSUME NEW s \in Nat \ {0}, NEW a \in Int, NEW b \in Int, a <= b
  PROVE  a \div s <= b \div s
<1>1. /\ a \div s \in Int /\ (a \div s) * s <= a /\ a < (a \div s) * s + s
      /\ b \div s \in Int /\ (b \div s) * s <= b /\ b < (b \div s) * s + s
  BY DivBounds
<1>2. ASSUME b \div s < a \div s PROVE FALSE
  <2>1. (b \div s) * s + s <= (a \div s) * s
    BY <1>1, <1>2, NextMultiple
  <2>2. (b \div s) * s \in Int /\ (a \div s) * s \in Int
    BY <1>1
  <2>3. QED
    BY <1>1, <2>1, <2>2
<1>3. QED
  BY <1>1, <1>2

\* One sector more.
LEMMA DivShift ==
  ASSUME NEW s \in Nat \ {0}, NEW a \in Int
  PROVE  (a + s) \div s = (a \div s) + 1
<1> DEFINE p == a \div s
           q == (a + s) \div s
<1>1. /\ p \in Int /\ p * s <= a /\ a < p * s + s
      /\ q \in Int /\ q * s <= a + s /\ a + s < q * s + s
  BY DivBounds
<1> HIDE DEF p, q
<1>2. p * s \in Int /\ q * s \in Int /\ (p + 1) * s = p * s + s
  BY <1>1
<1>3. ~ (q < p + 1)
  <2>1. SUFFICES ASSUME q < p + 1 PROVE FALSE
    OBVIOUS
  <2>2. q * s + s <= (p + 1) * s
    BY <1>1, <2>1, NextMultiple
  <2>3. QED
    BY <1>1, <1>2, <2>2
<1>4. ~ (p + 1 < q)
  <2>1. SUFFICES ASSUME p + 1 < q PROVE FALSE
    OBVIOUS
  <2>2. (p + 1) * s + s <= q * s
    BY <1>1, <2>1, NextMultiple
  <2>3. QED
    BY <1>1, <1>2, <2>2
<1>5. q = p + 1
  BY <1>1, <1>3, <1>4
<1>6. QED
  BY <1>5 DEF p, q

\* A write that ends in the file touches only sectors of its header: WriteAt
\* never takes what lies behind dataSectors for a sector number.
LEMMA TouchedInFile ==
  ASSUME NEW hdr, WellFormed(hdr), NEW pos \in Nat, NEW n \in Int, pos + n <= hdr.numBytes,
         NEW i \in (pos \div SectorSize) .. ((pos + n - 1) \div SectorSize)
  PROVE  /\ i \in Nat /\ i + 1 \in 1 .. Len(hdr.dataSectors)
         /\ hdr.dataSectors[i + 1] \in SectorsOf(hdr)
<1> DEFINE S == SectorSize
           N == hdr.numBytes
<1>1. S \in Nat \ {0} /\ N \in Nat \ {0} /\ hdr.dataSectors \in Seq(Sectors)
  BY SizeAssumption DEF WellFormed, FileHeaders
<1>2. Len(hdr.dataSectors) = ((N - 1) \div S) + 1
  <2>1. Len(hdr.dataSectors) = (N + S - 1) \div S
    BY DEF WellFormed, NumSectorsOf, divRoundUp
  <2>2. ((N - 1) + S) \div S = ((N - 1) \div S) + 1
    <3> HIDE DEF N, S
    <3>1. N - 1 \in Int /\ S \in Nat \ {0}
      BY <1>1
    <3>2. QED
      BY <3>1, DivShift
  <2>3. (N - 1) + S = N + S - 1
    BY <1>1
  <2>4. QED
    BY <2>1, <2>2, <2>3
<1>3. (pos + n - 1) \div S <= (N - 1) \div S
  BY <1>1, DivMonotone
<1>4. /\ pos \div S \in Int /\ pos \div S >= 0 /\ (N - 1) \div S \in Int
      /\ (pos + n - 1) \div S \in Int
  BY <1>1, DivBounds
<1> HIDE DEF S, N
<1>5. i \in Int /\ i >= 0 /\ i <= (N - 1) \div S
  BY <1>3, <1>4 DEF S
<1>6. i + 1 \in 1 .. Len(hdr.dataSectors)
  BY <1>2, <1>4, <1>5
<1>7. DOMAIN hdr.dataSectors = 1 .. Len(hdr.dataSectors)
  BY <1>1
<1>8. QED
  BY <1>5, <1>6, <1>7 DEF SectorsOf, Range

\* A set of natural numbers with a member has a least one, which is its Min.
LEMMA MinOf ==
  ASSUME NEW S, S \subseteq Nat, S # {}
  PROVE  Min(S) \in S /\ \A y \in S : Min(S) <= y
<1>1. PICK x \in S : \A y \in S : ~ (<<y, x>> \in OpToRel(<, Nat))
  BY NatLessThanWellFounded, WFMin, Zenon
<1>2. ASSUME NEW y \in S PROVE x =< y
  <2>1. <<y, x>> \in Nat \X Nat /\ ~ (<<y, x>> \in OpToRel(<, Nat))
    BY <1>1
  <2>2. ~ (y < x)
    BY <2>1 DEF OpToRel
  <2>3. QED
    BY <2>2
<1>3. QED
  BY <1>2 DEF Min

\* Two numbers have a least one.
LEMMA MinPair ==
  ASSUME NEW a \in Int, NEW b \in Int
  PROVE  /\ Min({a, b}) \in {a, b} /\ Min({a, b}) <= a /\ Min({a, b}) <= b
<1>1. \E x \in {a, b} : \A y \in {a, b} : x =< y
  OBVIOUS
<1>2. Min({a, b}) \in {a, b} /\ \A y \in {a, b} : Min({a, b}) =< y
  BY <1>1 DEF Min
<1>3. QED
  BY <1>2

\* The sizes of headers.
LEMMA SizesNat ==
  ASSUME NEW n \in Sizes
  PROVE  /\ n \in Nat /\ n > 0 /\ SectorSize \in Nat \ {0} /\ NumDirect \in Nat \ {0}
         /\ TransferSize \in Nat \ {0} /\ NumSectorsOf(n) \in Nat
<1>1. n \in Nat \ {0} /\ SectorSize \in Nat \ {0} /\ NumDirect \in Nat \ {0}
      /\ TransferSize \in Nat \ {0}
  BY SizeAssumption
<1>2. n + SectorSize - 1 \in Int /\ n + SectorSize - 1 >= 0
  BY <1>1
<1>3. NumSectorsOf(n) \in Nat
  BY <1>1, <1>2, DivBounds DEF NumSectorsOf, divRoundUp
<1>4. QED
  BY <1>1, <1>3

\* A header with room is well formed.
LEMMA RoomyWellFormed ==
  ASSUME NEW hdr, Shaped(hdr), Fits(hdr)
  PROVE  WellFormed(hdr)
<1> DEFINE a == NumSectorsOf(hdr.numBytes)
           b == NumDirect
<1>1. a \in Nat /\ b \in Nat
  <2>1. hdr.numBytes \in Sizes
    BY DEF Shaped, FileHeaders
  <2>2. QED
    BY <2>1, SizesNat
<1>2. a <= b
  BY DEF Fits
<1> HIDE DEF a, b
<1>3. Min({a, b}) = a
  <2> DEFINE m == Min({a, b})
  <2>1. m \in {a, b} /\ m <= a /\ m <= b
    BY <1>1, MinPair
  <2> HIDE DEF m
  <2>2. m = a
    BY <1>1, <1>2, <2>1
  <2>3. QED
    BY <2>2 DEF m
<1>4. QED
  BY <1>3 DEF Shaped, WellFormed, a, b

-----------------------------------------------------------------------------
(* The directory *)

\* What the directory of a disk holds.
LEMMA EntryType ==
  ASSUME NEW T \in Directories, NEW e \in Entries
  PROVE  /\ T[e] = [inUse |-> T[e].inUse, name |-> T[e].name, sector |-> T[e].sector]
         /\ T[e].inUse \in BOOLEAN /\ T[e].name \in Names \cup {NoName} /\ T[e].sector \in Sectors
<1>1. T[e] \in DirectoryEntries
  BY DEF Directories
<1>2. QED
  BY <1>1 DEF DirectoryEntries

LEMMA EntriesNat == Entries \subseteq Nat
  BY DirAssumption DEF Entries

\* Directory::FindIndex and Find.
LEMMA FindSector ==
  ASSUME table \in Directories, NEW n
  PROVE  /\ Named(n) = {} <=> Find(n) = -1
         /\ Find(n) # -1 =>
              /\ FindIndex(n) \in Entries /\ FindIndex(n) \in Used /\ table[FindIndex(n)].name = n
              /\ Find(n) = table[FindIndex(n)].sector /\ Find(n) \in Sectors
              /\ \A f \in Named(n) : FindIndex(n) <= f
<1>1. Named(n) \subseteq Nat /\ Named(n) \subseteq Entries
  BY EntriesNat DEF Named, Used
<1>2. CASE Named(n) = {}
  BY <1>2 DEF Find, FindIndex
<1>3. CASE Named(n) # {}
  <2>1. FindIndex(n) \in Named(n) /\ \A f \in Named(n) : FindIndex(n) <= f
    BY <1>1, <1>3, MinOf DEF FindIndex
  <2>2. FindIndex(n) \in Entries /\ FindIndex(n) \in Used /\ table[FindIndex(n)].name = n
    BY <1>1, <2>1 DEF Named
  <2>3. FindIndex(n) # -1
    BY <2>2, EntriesNat
  <2>4. Find(n) = table[FindIndex(n)].sector
    BY <2>3 DEF Find
  <2>5. table[FindIndex(n)].sector \in Sectors
    BY <2>2, EntryType
  <2>6. Find(n) # -1
    BY <2>4, <2>5, SectorsAssumption DEF Sectors
  <2>7. QED
    BY <1>3, <2>1, <2>2, <2>4, <2>5, <2>6
<1>4. QED
  BY <1>2, <1>3

\* The file of a sound entry is found by its name.
LEMMA FindSound ==
  ASSUME table \in Directories, NEW S, NEW D, NEW M, Agree(D, table, S, M), NEW e \in S
  PROVE  Find(table[e].name) = table[e].sector /\ FindIndex(table[e].name) = e
<1> DEFINE n == table[e].name
           x == FindIndex(n)
<1>1. e \in Entries /\ e \in Used /\ e \in Named(n)
  BY DEF Agree, Proper, Used, Named
<1>2. Find(n) # -1
  BY <1>1, FindSector
<1>3. /\ x \in Entries /\ table[x].name = n /\ x <= e /\ Find(n) = table[x].sector
  BY <1>1, <1>2, FindSector
<1> HIDE DEF x
<1>4. x # e => e < x
  BY <1>3 DEF Agree
<1>5. x = e
  BY <1>1, <1>3, <1>4, EntriesNat
<1>6. QED
  BY <1>3, <1>5 DEF x

-----------------------------------------------------------------------------
(* Directory and bitmap *)

\* Sectors of a file whose header stays.
LEMMA OwnedSame ==
  ASSUME NEW C, NEW D, NEW T, NEW U, NEW e, U[e] = T[e], D[T[e].sector] = C[T[e].sector]
  PROVE  Owned(D, U, e) = Owned(C, T, e)
  BY DEF Owned

\* Some of the files, when their headers and entries stay and no other entry takes
\* one of their names.
LEMMA FilesShrink ==
  ASSUME NEW C, NEW T, NEW S, NEW M, NEW l, NEW ov, Files(C, T, S, M, l, ov),
         NEW D, NEW U, NEW R, NEW N, NEW k, NEW ow, R \subseteq S,
         \A e \in R : U[e] = T[e] /\ D[T[e].sector] = C[T[e].sector],
         \A f \in Entries : U[f].name = T[f].name \/ \A e \in R : T[e].name # U[f].name,
         SystemSectors \subseteq N,
         \A e \in R : Owned(C, T, e) \subseteq N,
         k = {} /\ ~ ow => Exact(C, T, R, N), ~ ow => ~ ov
  PROVE  Files(D, U, R, N, k, ow)
<1>1. \A e \in R : Owned(D, U, e) = Owned(C, T, e)
  BY OwnedSame
<1>2. Agree(C, T, S, M)
  BY DEF Files
<1>3. \A e \in R : Proper(D, U, e, N)
  BY <1>1, <1>2 DEF Agree, Proper
<1>4. \A e, f \in R : e # f => Owned(D, U, e) \cap Owned(D, U, f) = {}
  BY <1>1, <1>2 DEF Agree
<1>5. ASSUME NEW e \in R, NEW f \in Entries, e # f, U[f].name = U[e].name PROVE e < f
  <2>1. U[f].name = T[f].name /\ U[e].name = T[e].name
    BY <1>5
  <2>2. QED
    BY <1>2, <1>5, <2>1 DEF Agree
<1>6. Agree(D, U, R, N)
  BY <1>2, <1>3, <1>4, <1>5 DEF Agree
<1>7. Exact(C, T, R, N) => Exact(D, U, R, N)
  BY <1>1 DEF Exact
<1>8. ~ ow => Roomy(D, U, R)
  BY DEF Files, Roomy
<1>9. QED
  BY <1>6, <1>7, <1>8 DEF Files

\* The same files on the same bitmap.
LEMMA FilesSame ==
  ASSUME NEW C, NEW T, NEW S, NEW M, NEW l, NEW ov, Files(C, T, S, M, l, ov),
         NEW D, NEW U, NEW k, NEW ow,
         \A e \in S : U[e] = T[e] /\ D[T[e].sector] = C[T[e].sector],
         \A f \in Entries : U[f].name = T[f].name \/ \A e \in S : T[e].name # U[f].name,
         k = {} => l = {}, ~ ow => ~ ov
  PROVE  Files(D, U, S, M, k, ow)
<1>1. SystemSectors \subseteq M /\ \A e \in S : Owned(C, T, e) \subseteq M
  BY DEF Files, Agree, Proper
<1>2. k = {} /\ ~ ow => Exact(C, T, S, M)
  BY DEF Files
<1>3. QED
  BY <1>1, <1>2, FilesShrink

\* A new file in the lowest entry with its name, on free sectors.
LEMMA FilesAdd ==
  ASSUME NEW D, NEW T, NEW S, NEW M, NEW l, NEW ov, Files(D, T, S, M, l, ov),
         NEW x \in Entries, NEW N, x \notin S,
         T[x].inUse, T[x].name \in Names, Shaped(D[T[x].sector]), ~ ov => Fits(D[T[x].sector]),
         T[x].sector \notin SectorsOf(D[T[x].sector]),
         Owned(D, T, x) \cap M = {}, M \cup Owned(D, T, x) \subseteq N,
         ~ ov => N = M \cup Owned(D, T, x),
         \A f \in Entries : f # x /\ T[f].name = T[x].name => x < f /\ f \notin S
  PROVE  Files(D, T, S \cup {x}, N, l, ov)
<1> DEFINE R == S \cup {x}
<1>1. Agree(D, T, S, M)
  BY DEF Files
<1>2. \A e \in S : Proper(D, T, e, N) /\ Owned(D, T, e) \subseteq M
  BY <1>1 DEF Agree, Proper
<1>3. Proper(D, T, x, N)
  BY <1>1 DEF Agree, Proper
<1>4. \A e, f \in R : e # f => Owned(D, T, e) \cap Owned(D, T, f) = {}
  BY <1>1, <1>2 DEF Agree
<1>5. ASSUME NEW e \in R, NEW f \in Entries, e # f, T[f].name = T[e].name PROVE e < f
  BY <1>1, <1>5 DEF Agree
<1>6. R \subseteq Entries /\ SystemSectors \subseteq N
  BY <1>1 DEF Agree
<1>7. Agree(D, T, R, N)
  BY <1>2, <1>3, <1>4, <1>5, <1>6 DEF Agree
<1>8. ASSUME l = {}, ~ ov PROVE Exact(D, T, R, N)
  <2>1. M \subseteq SystemSectors \cup UNION {Owned(D, T, e) : e \in S}
    BY <1>8 DEF Files, Exact
  <2>2. N = M \cup Owned(D, T, x)
    BY <1>8
  <2>3. QED
    BY <2>1, <2>2 DEF Exact
<1>9. ~ ov => Roomy(D, T, R)
  BY DEF Files, Roomy
<1>10. QED
  BY <1>7, <1>8, <1>9 DEF Files

\* A file less.
LEMMA FilesRemove ==
  ASSUME NEW D, NEW T, NEW S, NEW M, NEW l, NEW ov, Files(D, T, S, M, l, ov), NEW x \in S
  PROVE  Files(D, T, S \ {x}, M \ Owned(D, T, x), l, ov)
<1> DEFINE R == S \ {x}
           N == M \ Owned(D, T, x)
<1>1. Agree(D, T, S, M)
  BY DEF Files
<1>2. \A e \in R : Owned(D, T, e) \subseteq N
  BY <1>1 DEF Agree, Proper
<1>3. SystemSectors \subseteq N
  BY <1>1 DEF Agree, Proper
<1>4. ASSUME l = {}, ~ ov PROVE Exact(D, T, R, N)
  <2>1. M \subseteq SystemSectors \cup UNION {Owned(D, T, e) : e \in S}
    BY <1>4 DEF Files, Exact
  <2>2. QED
    BY <2>1 DEF Exact
<1>5. QED
  BY <1>2, <1>3, <1>4, FilesShrink

\* An OpenFile when its file stays.
LEMMA HoldsSame ==
  ASSUME NEW o, NEW C, NEW T, NEW S, NEW ov, Holds(o, C, T, S, ov), NEW D, NEW U, NEW R, NEW ow,
         ~ ow => ~ ov,
         ~ o.orphan =>
           \A e \in S : T[e].name = o.name => e \in R /\ U[e] = T[e] /\ D[T[e].sector] = C[T[e].sector]
  PROVE  Holds(o, D, U, R, ow)
<1>1. Shaped(o.hdr) /\ (~ ow => Fits(o.hdr))
  BY DEF Holds
<1>2. ASSUME ~ o.orphan PROVE \E e \in R : U[e].name = o.name /\ D[U[e].sector] = o.hdr
  <2>1. PICK e \in S : T[e].name = o.name /\ C[T[e].sector] = o.hdr
    BY <1>2 DEF Holds
  <2>2. e \in R /\ U[e] = T[e] /\ D[T[e].sector] = C[T[e].sector]
    BY <1>2, <2>1
  <2>3. QED
    BY <2>1, <2>2
<1>3. QED
  BY <1>1, <1>2 DEF Holds

\* All of them.
LEMMA OpenedSame ==
  ASSUME NEW O, NEW C, NEW T, NEW S, NEW ov, Opened(O, C, T, S, ov), NEW D, NEW U, NEW R, NEW ow,
         ~ ow => ~ ov,
         \A e \in S : e \in R /\ U[e] = T[e] /\ D[T[e].sector] = C[T[e].sector]
  PROVE  Opened(O, D, U, R, ow)
<1>1. ASSUME NEW h \in Handles, O[h] # None PROVE Holds(O[h], D, U, R, ow)
  <2> DEFINE o == O[h]
  <2>1. Holds(o, C, T, S, ov)
    BY <1>1 DEF Opened
  <2> HIDE DEF o
  <2>2. QED
    BY <2>1, HoldsSame DEF o
<1>2. QED
  BY <1>1 DEF Opened

-----------------------------------------------------------------------------
(* The first state, and operations that begin nothing *)

\* There is one operation at a time.
LEMMA OpKinds ==
  ASSUME TypeOK
  PROVE  /\ op = None => ~ Creating /\ ~ Removing /\ ~ Transferring
         /\ Creating => op \in Updates /\ ~ Removing /\ ~ Transferring
         /\ Removing => op \in Updates /\ ~ Creating /\ ~ Transferring
         /\ Transferring => op \in Transfers /\ ~ Creating /\ ~ Removing
         /\ op # None => Creating \/ Removing \/ Transferring
<1>1. op \in Updates \/ op \in Transfers \/ op = None
  BY DEF TypeOK
<1>2. CASE op \in Updates
  <2>1. op.do \in {"create", "remove"}
    BY <1>2 DEF Updates
  <2>2. QED
    BY <1>2, <2>1 DEF Creating, Removing, Transferring
<1>3. CASE op \in Transfers
  <2>1. op.do \in {"copy", "write"}
    BY <1>3 DEF Transfers
  <2>2. QED
    BY <1>3, <2>1 DEF Creating, Removing, Transferring
<1>4. CASE op = None
  BY <1>4 DEF Creating, Removing, Transferring
<1>5. QED
  BY <1>1, <1>2, <1>3, <1>4

\* Which entries are sound, by the operation in progress.
LEMMA SoundIs ==
  ASSUME TypeOK
  PROVE  /\ op = None \/ Transferring \/ Updating("remove", "map") => SoundNow = Used \ lost
         /\ Creating \/ Updating("remove", "table") => SoundNow = (Used \ lost) \ {op.entry}
         /\ Updating("remove", "map") \/ Updating("remove", "table") => Removing
         /\ Updating("create", "header") \/ Updating("create", "table") \/ Updating("create", "map")
              => Creating
<1>1. /\ op = None => ~ Creating /\ ~ Updating("remove", "table")
      /\ Transferring => ~ Creating /\ ~ Updating("remove", "table")
      /\ Updating("remove", "map") => ~ Creating /\ ~ Updating("remove", "table")
  BY DEF Creating, Updating, Transferring
<1>2. /\ ~ Creating /\ ~ Updating("remove", "table") => SoundNow = Used \ lost
      /\ Creating \/ Updating("remove", "table") => SoundNow = (Used \ lost) \ {op.entry}
  BY DEF SoundNow
<1>3. /\ Updating("remove", "map") \/ Updating("remove", "table") => Removing
      /\ Updating("create", "header") \/ Updating("create", "table") \/ Updating("create", "map")
           => Creating
  BY DEF Updating, Removing, Creating
<1>4. QED
  BY <1>1, <1>2, <1>3

\* When no operation is in progress the invariant says nothing of one.
LEMMA IdleIInv ==
  ASSUME TypeOK, op = None,
         ~ astray => /\ fault => overrun
                     /\ lost \subseteq Used
                     /\ Files(disk, table, Used \ lost, freeMap, lost, overrun)
                     /\ Opened(open, disk, table, Used \ lost, overrun)
  PROVE  IInv
<1>1. ~ Creating /\ ~ Removing /\ ~ Transferring /\ SoundNow = Used \ lost
  BY OpKinds, SoundIs
<1>2. QED
  BY <1>1 DEF IInv, Progress, Good

LEMMA InitIInv == Init => IInv
<1> SUFFICES ASSUME Init PROVE IInv
  OBVIOUS
<1>1. SystemSectors \subseteq Sectors /\ 0 \in Sectors
  BY SectorsAssumption DEF SystemSectors, Sectors
<1>2. table \in Directories /\ Used = {}
  <2>1. \A e \in Entries : [inUse |-> FALSE, name |-> NoName, sector |-> 0] \in DirectoryEntries
    BY <1>1 DEF DirectoryEntries
  <2>2. QED
    BY <2>1 DEF Init, Directory, Directories, Used
<1>3. TypeOK
  <2>1. disk = [s \in Sectors |-> disk[s]] /\ \A s \in Sectors : ~ IsHeader(s)
    BY DEF Init, IsHeader
  <2>2. open \in [Handles -> OpenFiles \cup {None}]
    BY DEF Init
  <2>3. QED
    BY <1>1, <1>2, <2>1, <2>2 DEF Init, TypeOK
<1>4. Files(disk, table, Used \ lost, freeMap, lost, overrun)
  BY <1>2 DEF Init, Files, Agree, Exact, Roomy
<1>5. Opened(open, disk, table, Used \ lost, overrun)
  BY DEF Init, Opened
<1>6. QED
  BY <1>2, <1>3, <1>4, <1>5, IdleIInv DEF Init

-----------------------------------------------------------------------------
(* Create *)

\* The first unused entry of the directory.
LEMMA FirstUnusedIs ==
  ASSUME Used # Entries
  PROVE  FirstUnused \in Entries \ Used /\ \A y \in Entries \ Used : FirstUnused <= y
<1>1. Entries \ Used \subseteq Nat /\ Entries \ Used # {}
  BY EntriesNat DEF Used
<1>2. QED
  BY <1>1, MinOf DEF FirstUnused

\* What Allocate takes from bitmap m, and the header it makes.
AllocateOf(m, size, a) ==
  /\ a.hdr \in FileHeaders /\ a.hdr.numBytes = size /\ Shaped(a.hdr)
  /\ SectorsOf(a.hdr) \subseteq Sectors \ m
  /\ a.map \in SUBSET Sectors /\ m \cup SectorsOf(a.hdr) \subseteq a.map
  /\ Fits(a.hdr) <=> NumSectorsOf(size) <= NumDirect
  /\ Fits(a.hdr) => a.map = m \cup SectorsOf(a.hdr)
LEMMA AllocateIs ==
  ASSUME NEW m \in SUBSET Sectors, NEW size \in Sizes, NEW a \in Allocate(m, size)
  PROVE  AllocateOf(m, size, a)
<1> DEFINE k == NumSectorsOf(size)
           c == Min({k, NumDirect})
<1>1. k \in Nat /\ NumDirect \in Nat /\ c \in Nat /\ c <= k /\ (k <= NumDirect => c = k)
  <2>1. k \in Nat /\ NumDirect \in Nat
    BY SizesNat
  <2> HIDE DEF k, c
  <2>2. c \in {k, NumDirect} /\ c <= k /\ c <= NumDirect
    BY <2>1, MinPair DEF c
  <2>3. QED
    BY <2>1, <2>2
<1>2. PICK q \in Lowest(m, k) :
        a = [map |-> m \cup Range(q),
             hdr |-> [kind |-> "header", numBytes |-> size, dataSectors |-> SubSeq(q, 1, c)]]
  BY DEF Allocate
<1> HIDE DEF k, c
<1>3. q \in [1 .. k -> Sectors \ m] /\ \A i, j \in 1 .. k : i < j => q[i] < q[j]
  BY <1>2 DEF Lowest
<1>4. q \in Seq(Sectors \ m) /\ Len(q) = k /\ DOMAIN q = 1 .. k
  BY <1>1, <1>3
<1> DEFINE s == SubSeq(q, 1, c)
<1>5. /\ s \in Seq(Sectors \ m) /\ Len(s) = c
      /\ \A i \in 1 .. c : s[i] = q[i] /\ i \in 1 .. k
  <2>1. 1 .. c \subseteq 1 .. k
    BY <1>1
  <2>2. \A i \in 1 .. c : q[i] \in Sectors \ m
    BY <1>3, <2>1
  <2>3. s \in Seq(Sectors \ m)
    BY <1>1, <1>4, <2>2, SubSeqProperties
  <2>4. Len(s) = IF 1 <= c THEN c - 1 + 1 ELSE 0
    BY <1>1, <1>4, <2>2, SubSeqProperties
  <2>5. Len(s) = c
    BY <1>1, <2>4
  <2>6. ASSUME NEW i \in 1 .. c PROVE s[i] = q[i]
    <3>1. i \in 1 .. c - 1 + 1 /\ 1 + i - 1 = i
      BY <1>1
    <3>2. s[i] = q[1 + i - 1]
      BY <1>1, <1>4, <2>2, <3>1, SubSeqProperties
    <3>3. QED
      BY <3>1, <3>2
  <2>7. QED
    BY <2>1, <2>3, <2>5, <2>6
<1> HIDE DEF s
<1>6. s \in Seq(Sectors)
  <2>1. Seq(Sectors \ m) \subseteq Seq(Sectors)
    OBVIOUS
  <2>2. QED
    BY <1>5, <2>1
<1>7. /\ a.map = m \cup Range(q) /\ a.hdr = [kind |-> "header", numBytes |-> size, dataSectors |-> s]
      /\ a.hdr.numBytes = size /\ a.hdr.dataSectors = s
  BY <1>2 DEF s
<1>8. a.hdr \in FileHeaders
  BY <1>6, <1>7 DEF FileHeaders
<1>9. DOMAIN s = 1 .. c
  BY <1>1, <1>5
<1>10. Distinct(a.hdr)
  <2>1. SUFFICES ASSUME NEW i \in 1 .. c, NEW j \in 1 .. c, i # j PROVE s[i] # s[j]
    BY <1>5, <1>7 DEF Distinct
  <2>2. i \in 1 .. k /\ j \in 1 .. k /\ s[i] = q[i] /\ s[j] = q[j]
    BY <1>5
  <2>3. i < j \/ j < i
    BY <1>1, <2>1
  <2>4. q[i] \in Int /\ q[j] \in Int
    BY <1>3, <2>2 DEF Sectors
  <2>5. QED
    BY <1>3, <2>2, <2>3, <2>4
<1>11. Shaped(a.hdr)
  BY <1>5, <1>7, <1>8, <1>10 DEF Shaped, k, c
<1>12. SectorsOf(a.hdr) \subseteq Range(q) /\ SectorsOf(a.hdr) \subseteq Sectors \ m
  BY <1>3, <1>4, <1>5, <1>7, <1>9 DEF SectorsOf, Range
<1>13. a.map \in SUBSET Sectors
  BY <1>3, <1>4, <1>7 DEF Range
<1>14. Fits(a.hdr) <=> k <= NumDirect
  BY <1>7 DEF Fits, k
<1>15. k <= NumDirect => Range(q) = SectorsOf(a.hdr)
  BY <1>1, <1>4, <1>5, <1>7, <1>9 DEF SectorsOf, Range
<1>16. a.hdr.numBytes = size /\ (m \cup SectorsOf(a.hdr) \subseteq a.map)
       /\ (Fits(a.hdr) => a.map = m \cup SectorsOf(a.hdr))
  BY <1>7, <1>12, <1>14, <1>15
<1>17. QED
  BY <1>8, <1>11, <1>12, <1>13, <1>14, <1>16 DEF AllocateOf, k

\* The sector of the header.
LEMMA FreeSector ==
  ASSUME TypeOK, NEW n, NEW size \in Sizes, CanCreate(n, size)
  PROVE  Min(Sectors \ freeMap) \in Sectors \ freeMap
<1>1. Sectors \ freeMap # {}
  <2>1. ASSUME Sectors \ freeMap = {} PROVE FALSE
    <3>1. NumClear(freeMap) = 0
      BY <2>1, FS_EmptySet DEF NumClear
    <3>2. NumSectorsOf(size) \in Nat
      BY SizesNat
    <3>3. QED
      BY <3>1, <3>2 DEF CanCreate
  <2>2. QED
    BY <2>1
<1>2. Sectors \ freeMap \subseteq Nat
  BY DEF Sectors
<1>3. QED
  BY <1>1, <1>2, MinOf

\* Create, up to its first write.
LEMMA CreateStep ==
  ASSUME IInv, NEW n \in Names, NEW size \in Sizes, NEW data \in Seq(Bytes),
         data # <<>> => Len(data) = size, CreateFor(n, size, data)
  PROVE  IInv'
<1> DEFINE sector == Min(Sectors \ freeMap)
           x == FirstUnused
<1>1. TypeOK /\ CanCreate(n, size) /\ op = None
  BY DEF IInv, CreateFor, CanCreate, Idle
<1>2. sector \in Sectors \ freeMap
  BY <1>1, FreeSector
<1>3. x \in Entries \ Used /\ \A y \in Entries \ Used : x <= y
  BY <1>1, FirstUnusedIs DEF CanCreate
<1>4. PICK a \in Allocate(freeMap \cup {sector}, size) :
        op' = [do |-> "create", step |-> "header", at |-> 0, name |-> n, entry |-> x,
               sector |-> sector, hdr |-> a.hdr, table |-> Add(n, sector), map |-> a.map,
               data |-> data]
  BY DEF CreateFor
<1>5. /\ overrun' = (overrun \/ NumSectorsOf(size) > NumDirect)
      /\ UNCHANGED <<freeMap, table, disk, open, contents, lost, astray, fault>>
  BY DEF CreateFor
<1>6. Add(n, sector) = [table EXCEPT ![x] = [inUse |-> TRUE, name |-> n, sector |-> sector]]
  BY DEF Add
<1> HIDE DEF sector, x
<1>7. AllocateOf(freeMap \cup {sector}, size, a)
  <2>1. freeMap \cup {sector} \in SUBSET Sectors
    BY <1>1, <1>2 DEF TypeOK
  <2>2. QED
    BY <2>1, AllocateIs
<1>8. /\ op'.do = "create" /\ op'.step = "header" /\ op'.at = 0 /\ op'.name = n /\ op'.entry = x
      /\ op'.sector = sector /\ op'.hdr = a.hdr /\ op'.table = Add(n, sector) /\ op'.map = a.map
      /\ op'.data = data
  BY <1>4
<1>9. Add(n, sector) \in Directories
  <2>1. [inUse |-> TRUE, name |-> n, sector |-> sector] \in DirectoryEntries
    BY <1>2 DEF DirectoryEntries
  <2>2. QED
    BY <1>1, <1>6, <2>1 DEF Directories, TypeOK
<1>10. op' \in Updates
  <2>1. a.hdr \in FileHeaders /\ a.map \in SUBSET Sectors
    BY <1>7 DEF AllocateOf
  <2>2. QED
    BY <1>2, <1>3, <1>4, <1>9, <2>1 DEF Updates
<1>11. op' # None
  BY <1>10, NoneAssumption, Zenon
<1>12. TypeOK'
  BY <1>1, <1>5, <1>10 DEF TypeOK, IsHeader
<1>13. Creating' /\ ~ Removing' /\ ~ Transferring'
  BY <1>8, <1>11 DEF Creating, Removing, Transferring
<1>14. Named(n) = {} /\ table \in Directories
  BY <1>1, FindSector DEF CanCreate, TypeOK
<1>15. CreateProgress(op)'
  <2>1. op'.table = [table EXCEPT ![x] = NewEntry(op)']
    BY <1>6, <1>8 DEF NewEntry
  <2>2. ASSUME NEW f \in Entries, f # x, table[f].name = n PROVE x < f /\ ~ table[f].inUse
    <3>1. f \notin Used
      BY <1>14, <2>2 DEF Named
    <3>2. x <= f /\ x \in Nat /\ f \in Nat
      BY <1>3, <3>1, EntriesNat
    <3>3. QED
      BY <2>2, <3>1, <3>2 DEF Used
  <2>3. ~ table[x].inUse
    BY <1>3 DEF Used
  <2>4. data # <<>> => Len(data) = a.hdr.numBytes
    BY <1>7 DEF AllocateOf
  <2>5. QED
    BY <1>5, <1>8, <2>1, <2>2, <2>3, <2>4 DEF CreateProgress
<1>16. ASSUME ~ astray PROVE Good'
  <2>1. Good
    BY <1>16 DEF IInv
  <2>2. SoundNow = Used \ lost
    BY <1>1, SoundIs
  <2>3. SoundNow' = Used \ lost
    <3>1. SoundNow' = (Used \ lost)' \ {op'.entry}
      BY <1>13 DEF SoundNow
    <3>2. QED
      BY <1>3, <1>5, <1>8, <3>1 DEF Used
  <2>4. ~ overrun' => ~ overrun /\ Fits(a.hdr)
    <3> DEFINE k == NumSectorsOf(size)
    <3>1. k \in Nat /\ NumDirect \in Nat
      BY SizesNat
    <3>2. overrun' = (overrun \/ k > NumDirect)
      BY <1>5
    <3>3. Fits(a.hdr) <=> k <= NumDirect
      BY <1>7 DEF AllocateOf
    <3> HIDE DEF k
    <3>4. k > NumDirect \/ k <= NumDirect
      BY <3>1
    <3>5. QED
      BY <3>2, <3>3, <3>4
  <2>5. Files(disk, table, Used \ lost, freeMap, lost, overrun')
    <3>1. Files(disk, table, Used \ lost, freeMap, lost, overrun)
      BY <2>1, <2>2 DEF Good
    <3>2. QED
      BY <2>4, <3>1, FilesSame
  <2>6. Opened(open, disk, table, Used \ lost, overrun')
    <3>1. Opened(open, disk, table, Used \ lost, overrun)
      BY <2>1, <2>2 DEF Good
    <3>2. QED
      BY <2>4, <3>1, OpenedSame
  <2>7. CreateGood(op)'
    <3>1. NewFile(op)' = {sector} \cup SectorsOf(a.hdr)
      BY <1>8 DEF NewFile
    <3>2. x \notin lost
      BY <1>3, <2>1 DEF Good
    <3>3. SectorsOf(a.hdr) \subseteq Sectors \ (freeMap \cup {sector})
      BY <1>7 DEF AllocateOf
    <3>4. ~ overrun' => a.map = freeMap \cup NewFile(op)'
      BY <1>7, <2>4, <3>1 DEF AllocateOf
    <3>5. freeMap \cup NewFile(op)' \subseteq a.map /\ Shaped(a.hdr)
      BY <1>7, <3>1 DEF AllocateOf
    <3>6. QED
      BY <1>2, <1>5, <1>8, <2>4, <3>1, <3>2, <3>3, <3>4, <3>5 DEF CreateGood
  <2>8. (fault => overrun)' /\ (lost \subseteq Used)'
    BY <1>5, <2>1 DEF Good, Used
  <2>9. QED
    BY <1>5, <1>13, <2>3, <2>5, <2>6, <2>7, <2>8 DEF Good
<1>17. QED
  BY <1>5, <1>12, <1>13, <1>15, <1>16 DEF IInv, Progress

\* When the step ends in no operation the invariant says nothing of one.
LEMMA IdleNext ==
  ASSUME TypeOK', op' = None,
         (~ astray => /\ fault => overrun
                      /\ lost \subseteq Used
                      /\ Files(disk, table, Used \ lost, freeMap, lost, overrun)
                      /\ Opened(open, disk, table, Used \ lost, overrun))'
  PROVE  IInv'
<1>1. ~ Creating' /\ ~ Removing' /\ ~ Transferring'
  BY DEF Creating, Removing, Transferring
<1>2. SoundNow' = (Used \ lost)'
  BY <1>1 DEF SoundNow, Updating
<1>3. QED
  BY <1>1, <1>2 DEF IInv, Progress, Good

\* What is known between operations.
LEMMA IdleGood ==
  ASSUME IInv, op = None, ~ astray
  PROVE  /\ fault => overrun
         /\ lost \subseteq Used
         /\ Files(disk, table, Used \ lost, freeMap, lost, overrun)
         /\ Opened(open, disk, table, Used \ lost, overrun)
<1>1. TypeOK /\ Good
  BY DEF IInv
<1>2. SoundNow = Used \ lost
  BY <1>1, SoundIs
<1>3. QED
  BY <1>1, <1>2 DEF Good

\* A header with more sectors than it has room for.
LEMMA CreateOverrunsStep ==
  ASSUME IInv, NEW n \in Names, NEW size \in Sizes, CreateOverruns(n, size)
  PROVE  IInv'
<1>1. TypeOK /\ op = None
  BY DEF IInv, CreateOverruns, CanCreate, Idle
<1>2. /\ overrun' = TRUE /\ fault' = TRUE
      /\ UNCHANGED <<freeMap, table, disk, open, op, contents, lost, astray>>
  BY DEF CreateOverruns
<1>3. TypeOK' /\ op' = None /\ Used' = Used
  BY <1>1, <1>2 DEF TypeOK, IsHeader, Used
<1>4. ASSUME ~ astray
      PROVE  /\ lost \subseteq Used
             /\ Files(disk, table, Used \ lost, freeMap, lost, overrun')
             /\ Opened(open, disk, table, Used \ lost, overrun')
  <2>1. /\ lost \subseteq Used
        /\ Files(disk, table, Used \ lost, freeMap, lost, overrun)
        /\ Opened(open, disk, table, Used \ lost, overrun)
    BY <1>1, <1>4, IdleGood
  <2>2. Files(disk, table, Used \ lost, freeMap, lost, overrun')
    BY <1>2, <2>1, FilesSame
  <2>3. Opened(open, disk, table, Used \ lost, overrun')
    BY <1>2, <2>1, OpenedSame
  <2>4. QED
    BY <2>1, <2>2, <2>3
<1>5. QED
  BY <1>2, <1>3, <1>4, IdleNext

\* The new header goes into a sector no file has.
LEMMA WriteHeaderStep ==
  ASSUME IInv, WriteHeader
  PROVE  IInv'
<1>1. TypeOK /\ Creating /\ op.step = "header"
  BY DEF IInv, WriteHeader, Updating, Creating
<1>2. /\ op \in Updates /\ op.entry \in Entries /\ op.sector \in Sectors /\ op.hdr \in FileHeaders
      /\ op.do = "create"
  BY <1>1, OpKinds DEF Updates, Creating
<1>3. /\ disk' = [disk EXCEPT ![op.sector] = op.hdr]
      /\ op' = [op EXCEPT !.step = "table"]
      /\ UNCHANGED <<freeMap, table, open, contents, lost, astray, overrun, fault>>
  BY DEF WriteHeader, history
<1>4. op' \in Updates
  BY <1>2, <1>3 DEF Updates
<1>5. /\ op'.do = "create" /\ op'.step = "table" /\ op'.at = op.at /\ op'.name = op.name
      /\ op'.entry = op.entry /\ op'.sector = op.sector /\ op'.hdr = op.hdr
      /\ op'.table = op.table /\ op'.map = op.map /\ op'.data = op.data
  BY <1>2, <1>3 DEF Updates
<1>6. op' # None
  BY <1>4, NoneAssumption, Zenon
<1>7. disk = [s \in Sectors |-> disk[s]] /\ disk' = [s \in Sectors |-> disk'[s]]
      /\ disk'[op.sector] = op.hdr /\ \A s \in Sectors : s # op.sector => disk'[s] = disk[s]
  BY <1>1, <1>2, <1>3 DEF TypeOK
<1>8. TypeOK'
  <2>1. \A s \in Sectors : IsHeader(s)' => disk'[s] \in FileHeaders
    BY <1>1, <1>2, <1>7 DEF TypeOK, IsHeader
  <2>2. QED
    BY <1>1, <1>3, <1>4, <1>7, <2>1 DEF TypeOK
<1>9. Creating' /\ ~ Removing' /\ ~ Transferring'
  BY <1>5, <1>6 DEF Creating, Removing, Transferring
<1>10. SoundNow' = SoundNow
  <2>1. SoundNow = (Used \ lost) \ {op.entry}
    BY <1>1 DEF SoundNow
  <2>2. SoundNow' = (Used \ lost)' \ {op'.entry}
    BY <1>9 DEF SoundNow
  <2>3. QED
    BY <1>3, <1>5, <2>1, <2>2 DEF Used
<1>11. CreateProgress(op)'
  <2>1. CreateProgress(op)
    BY <1>1 DEF IInv, Progress
  <2>2. op.at = 0 /\ 0 < DirSectors /\ ~ (FlagSector[op.entry] < 0) /\ ~ (NameSector[op.entry] < 0)
    <3>1. FlagSector[op.entry] \in 0 .. DirSectors - 1 /\ NameSector[op.entry] \in 0 .. DirSectors - 1
      BY <1>2, DirAssumption DEF Entries
    <3>2. op.at = 0
      BY <1>1, <2>1 DEF CreateProgress
    <3>3. QED
      BY <3>1, <3>2, SectorsAssumption
  <2>3. QED
    BY <1>3, <1>5, <1>7, <2>1, <2>2 DEF CreateProgress, NewEntry
<1>12. ASSUME ~ astray PROVE Good'
  <2>1. Good /\ CreateGood(op)
    BY <1>1, <1>12 DEF IInv, Good
  <2>2. \A e \in SoundNow : disk'[table[e].sector] = disk[table[e].sector]
    <3>1. \A e \in SoundNow : Owned(disk, table, e) \subseteq freeMap
      BY <2>1 DEF Good, Files, Agree, Proper
    <3>2. op.sector \notin freeMap
      BY <2>1 DEF CreateGood, NewFile
    <3>3. \A e \in SoundNow : table[e].sector # op.sector
      BY <3>1, <3>2 DEF Owned
    <3>4. freeMap \subseteq Sectors
      BY <1>1 DEF TypeOK
    <3>5. QED
      BY <1>7, <3>1, <3>3, <3>4 DEF Owned
  <2>3. Files(disk', table, SoundNow, freeMap, lost, overrun)
    <3>1. Files(disk, table, SoundNow, freeMap, lost, overrun)
      BY <2>1 DEF Good
    <3>2. QED
      BY <2>2, <3>1, FilesSame
  <2>4. Opened(open, disk', table, SoundNow, overrun)
    <3>1. Opened(open, disk, table, SoundNow, overrun)
      BY <2>1 DEF Good
    <3>2. QED
      BY <2>2, <3>1, OpenedSame
  <2>5. CreateGood(op)'
    BY <1>3, <1>5, <2>1 DEF CreateGood, NewFile
  <2>6. (fault => overrun)' /\ (lost \subseteq Used)'
    BY <1>3, <2>1 DEF Good, Used
  <2>7. QED
    BY <1>3, <1>9, <1>10, <2>3, <2>4, <2>5, <2>6 DEF Good
<1>13. QED
  BY <1>3, <1>8, <1>9, <1>11, <1>12 DEF IInv, Progress

-----------------------------------------------------------------------------
(* Remove *)

\* Directory::Remove changes one field of an entry.
LEMMA ClearInUse ==
  ASSUME NEW r \in DirectoryEntries
  PROVE  [r EXCEPT !.inUse = FALSE] = [inUse |-> FALSE, name |-> r.name, sector |-> r.sector]
<1> DEFINE q == [r EXCEPT !.inUse = FALSE]
<1>1. q \in DirectoryEntries /\ q.inUse = FALSE /\ q.name = r.name /\ q.sector = r.sector
  BY DEF DirectoryEntries
<1> HIDE DEF q
<1>2. q = [inUse |-> q.inUse, name |-> q.name, sector |-> q.sector]
  BY <1>1 DEF DirectoryEntries
<1>3. q = [inUse |-> FALSE, name |-> r.name, sector |-> r.sector]
  BY <1>1, <1>2
<1>4. QED
  BY <1>3 DEF q

\* Remove, up to its first write.
LEMMA RemoveStep ==
  ASSUME IInv, NEW n \in Names, Remove(n)
  PROVE  IInv'
<1> DEFINE x == FindIndex(n)
<1>1. TypeOK /\ op = None /\ Find(n) # -1 /\ Deallocatable(Find(n)) /\ table \in Directories
  BY DEF IInv, Remove, Idle, TypeOK
<1>2. /\ x \in Entries /\ x \in Used /\ table[x].name = n /\ Find(n) = table[x].sector
      /\ Find(n) \in Sectors
  BY <1>1, FindSector
<1> DEFINE map == freeMap \ (SectorsOf(disk[Find(n)]) \cup {Find(n)})
<1>3. /\ op' = Removal(n, map)
      /\ astray' = (astray \/ x \in lost)
      /\ UNCHANGED <<freeMap, table, disk, open, contents, lost, overrun, fault>>
  BY DEF Remove, Stray
<1>4. op' = [do |-> "remove", step |-> "map", at |-> 0, name |-> n, entry |-> x,
             sector |-> Find(n), hdr |-> disk[Find(n)], table |-> [table EXCEPT ![x].inUse = FALSE],
             map |-> map, data |-> <<>>]
  BY <1>3 DEF Removal, FetchFrom, DirectoryRemove
<1>5. map = freeMap \ Owned(disk, table, x)
  BY <1>2 DEF Owned
<1>6. map \in SUBSET Sectors
  BY <1>1 DEF TypeOK
<1> HIDE DEF map, x
<1>7. disk[Find(n)] \in FileHeaders
  BY <1>1, <1>2 DEF Deallocatable, TypeOK
<1> DEFINE U == [table EXCEPT ![x].inUse = FALSE]
           old == [inUse |-> FALSE, name |-> n, sector |-> table[x].sector]
<1>8. U = [table EXCEPT ![x] = old] /\ U \in Directories
  <2>1. /\ table[x] = [inUse |-> table[x].inUse, name |-> table[x].name, sector |-> table[x].sector]
        /\ table[x].sector \in Sectors
    BY <1>1, <1>2, EntryType
  <2>2. [table[x] EXCEPT !.inUse = FALSE] = old
    <3>1. table[x] \in DirectoryEntries
      BY <1>1, <1>2 DEF Directories
    <3>2. [table[x] EXCEPT !.inUse = FALSE]
            = [inUse |-> FALSE, name |-> table[x].name, sector |-> table[x].sector]
      BY <3>1, ClearInUse
    <3>3. QED
      BY <1>2, <3>2
  <2>3. U = [table EXCEPT ![x] = [table[x] EXCEPT !.inUse = FALSE]]
    OBVIOUS
  <2>4. old \in DirectoryEntries
    BY <2>1 DEF DirectoryEntries
  <2>5. U = [table EXCEPT ![x] = old]
    BY <2>2, <2>3
  <2>6. QED
    BY <1>1, <2>4, <2>5 DEF Directories
<1> HIDE DEF U
<1>9. op' = [do |-> "remove", step |-> "map", at |-> 0, name |-> n, entry |-> x, sector |-> Find(n),
             hdr |-> disk[Find(n)], table |-> U, map |-> map, data |-> <<>>]
  BY <1>4 DEF U
<1>10. /\ op'.do = "remove" /\ op'.step = "map" /\ op'.at = 0 /\ op'.name = n /\ op'.entry = x
       /\ op'.table = U /\ op'.map = map
  BY <1>9
<1>11. op' \in Updates
  BY <1>2, <1>6, <1>7, <1>8, <1>9 DEF Updates
<1>12. op' # None
  BY <1>11, NoneAssumption, Zenon
<1>13. TypeOK'
  <2>1. astray' \in BOOLEAN
    BY <1>3
  <2>2. QED
    BY <1>1, <1>3, <1>11, <2>1 DEF TypeOK, IsHeader
<1>14. Removing' /\ ~ Creating' /\ ~ Transferring' /\ ~ Updating("remove", "table")'
  BY <1>10, <1>12 DEF Creating, Removing, Transferring, Updating
<1>15. RemoveProgress(op)'
  <2>1. table[x].inUse
    BY <1>2 DEF Used
  <2>2. U = [table EXCEPT ![x] = OldEntry(op)']
    BY <1>3, <1>8, <1>10 DEF OldEntry
  <2>3. QED
    BY <1>2, <1>3, <1>10, <2>1, <2>2 DEF RemoveProgress
<1>16. ASSUME ~ astray' PROVE Good'
  <2>1. ~ astray /\ x \notin lost
    BY <1>3, <1>16
  <2>2. /\ fault => overrun
        /\ lost \subseteq Used
        /\ Files(disk, table, Used \ lost, freeMap, lost, overrun)
        /\ Opened(open, disk, table, Used \ lost, overrun)
    BY <1>1, <2>1, IdleGood
  <2>3. SoundNow' = Used \ lost /\ Used' = Used
    BY <1>3, <1>14 DEF SoundNow, Used
  <2>4. RemoveGood(op)'
    BY <1>3, <1>5, <1>10, <2>1 DEF RemoveGood
  <2>5. QED
    BY <1>3, <1>14, <2>2, <2>3, <2>4 DEF Good
<1>17. QED
  BY <1>13, <1>14, <1>15, <1>16 DEF IInv, Progress

\* Only a lost file, or one whose header has too many sectors, cannot be removed.
LEMMA HeaderFaultsStep ==
  ASSUME IInv, NEW n \in Names, HeaderFaults(n)
  PROVE  IInv'
<1> DEFINE x == FindIndex(n)
<1>1. TypeOK /\ op = None /\ Find(n) # -1 /\ ~ Deallocatable(Find(n)) /\ table \in Directories
  BY DEF IInv, HeaderFaults, Idle, TypeOK
<1>2. /\ x \in Entries /\ x \in Used /\ table[x].name = n /\ Find(n) = table[x].sector
      /\ Find(n) \in Sectors
  BY <1>1, FindSector
<1>3. /\ astray' = (astray \/ x \in lost) /\ fault' = TRUE
      /\ UNCHANGED <<freeMap, table, disk, open, op, contents, lost, overrun>>
  BY DEF HeaderFaults, Stray
<1> HIDE DEF x
<1>4. TypeOK' /\ op' = None /\ Used' = Used
  <2>1. astray' \in BOOLEAN
    BY <1>3
  <2>2. QED
    BY <1>1, <1>3, <2>1 DEF TypeOK, IsHeader, Used
<1>5. ASSUME ~ astray'
      PROVE  /\ overrun
             /\ lost \subseteq Used
             /\ Files(disk, table, Used \ lost, freeMap, lost, overrun)
             /\ Opened(open, disk, table, Used \ lost, overrun)
  <2>1. ~ astray /\ x \notin lost
    BY <1>3, <1>5
  <2>2. /\ lost \subseteq Used
        /\ Files(disk, table, Used \ lost, freeMap, lost, overrun)
        /\ Opened(open, disk, table, Used \ lost, overrun)
    BY <1>1, <2>1, IdleGood
  <2>3. x \in Used \ lost
    BY <1>2, <2>1
  <2>4. Proper(disk, table, x, freeMap)
    BY <2>2, <2>3 DEF Files, Agree
  <2>5. IsHeader(Find(n))
    BY <1>2, <2>4 DEF Proper, Shaped, FileHeaders, IsHeader
  <2>6. SectorsOf(disk[Find(n)]) \subseteq freeMap
    BY <1>2, <2>4 DEF Proper, Owned
  <2>7. ~ overrun => Fits(disk[Find(n)])
    BY <1>2, <2>2, <2>3 DEF Files, Roomy
  <2>8. QED
    BY <1>1, <2>2, <2>5, <2>6, <2>7 DEF Deallocatable
<1>6. QED
  BY <1>3, <1>4, <1>5, IdleNext

-----------------------------------------------------------------------------
(* The writes of the directory and of the bitmap *)

\* One sector of a directory that differs in one entry.
LEMMA TableSectorIs ==
  ASSUME table \in Directories, NEW x \in Entries, NEW t \in Directories,
         \A f \in Entries : f # x => t[f] = table[f], NEW d, NEW U, U = TableSector(t, d)
  PROVE  /\ U \in Directories
         /\ \A f \in Entries : f # x => U[f] = table[f]
         /\ FlagSector[x] = d => U[x].inUse = t[x].inUse /\ U[x].sector = t[x].sector
         /\ FlagSector[x] # d => U[x].inUse = table[x].inUse /\ U[x].sector = table[x].sector
         /\ NameSector[x] = d => U[x].name = t[x].name
         /\ NameSector[x] # d => U[x].name = table[x].name
<1>1. t \in [Entries -> DirectoryEntries] /\ \A f \in Entries : f # x => t[f] = table[f]
  BY DEF Directories
<1>2. \A f \in Entries :
        U[f] = [inUse |-> IF FlagSector[f] = d THEN t[f].inUse ELSE table[f].inUse,
                sector |-> IF FlagSector[f] = d THEN t[f].sector ELSE table[f].sector,
                name |-> IF NameSector[f] = d THEN t[f].name ELSE table[f].name]
  BY DEF TableSector
<1>3. ASSUME NEW f \in Entries
      PROVE  /\ U[f].inUse = (IF FlagSector[f] = d THEN t[f].inUse ELSE table[f].inUse)
             /\ U[f].sector = (IF FlagSector[f] = d THEN t[f].sector ELSE table[f].sector)
             /\ U[f].name = (IF NameSector[f] = d THEN t[f].name ELSE table[f].name)
             /\ U[f] = [inUse |-> U[f].inUse, name |-> U[f].name, sector |-> U[f].sector]
  <2> DEFINE i == IF FlagSector[f] = d THEN t[f].inUse ELSE table[f].inUse
             s == IF FlagSector[f] = d THEN t[f].sector ELSE table[f].sector
             n == IF NameSector[f] = d THEN t[f].name ELSE table[f].name
  <2>1. U[f] = [inUse |-> i, sector |-> s, name |-> n]
    BY <1>2
  <2> HIDE DEF i, s, n
  <2>2. U[f].inUse = i /\ U[f].sector = s /\ U[f].name = n
    BY <2>1
  <2>3. U[f] = [inUse |-> U[f].inUse, name |-> U[f].name, sector |-> U[f].sector]
    BY <2>1, <2>2
  <2>4. QED
    BY <2>2, <2>3 DEF i, s, n
<1>4. ASSUME NEW f \in Entries PROVE U[f] \in DirectoryEntries
  <2>1. t[f] \in DirectoryEntries /\ table[f] \in DirectoryEntries
    BY <1>1 DEF Directories
  <2> DEFINE i == U[f].inUse
             s == U[f].sector
             n == U[f].name
  <2>2. i \in BOOLEAN /\ s \in Sectors
    <3>1. CASE FlagSector[f] = d
      BY <1>3, <2>1, <3>1 DEF DirectoryEntries
    <3>2. CASE FlagSector[f] # d
      BY <1>3, <2>1, <3>2 DEF DirectoryEntries
    <3>3. QED
      BY <3>1, <3>2
  <2>3. n \in Names \cup {NoName}
    BY <1>3, <2>1 DEF DirectoryEntries
  <2>4. U[f] = [inUse |-> i, name |-> n, sector |-> s]
    BY <1>3
  <2> HIDE DEF i, s, n
  <2>5. QED
    BY <2>2, <2>3, <2>4 DEF DirectoryEntries
<1>5. U \in Directories
  <2>1. U = [f \in Entries |-> U[f]]
    BY DEF TableSector
  <2>2. QED
    BY <1>4, <2>1 DEF Directories
<1>6. ASSUME NEW f \in Entries, f # x PROVE U[f] = table[f]
  <2>1. t[f] = table[f]
    BY <1>1, <1>6
  <2>2. U[f].inUse = table[f].inUse /\ U[f].sector = table[f].sector /\ U[f].name = table[f].name
    BY <1>3, <2>1
  <2>3. U[f] = [inUse |-> U[f].inUse, name |-> U[f].name, sector |-> U[f].sector]
        /\ table[f] = [inUse |-> table[f].inUse, name |-> table[f].name, sector |-> table[f].sector]
    BY <1>3, EntryType
  <2>4. QED
    BY <2>2, <2>3
<1>7. QED
  BY <1>1, <1>3, <1>5, <1>6

\* The two kinds of update of an entry: the new one, the old one no longer in use.
LEMMA EntryKinds ==
  ASSUME TypeOK, op \in Updates
  PROVE  /\ NewEntry(op) \in DirectoryEntries
         /\ table[op.entry].name = op.name => OldEntry(op) \in DirectoryEntries
         /\ op.entry \in Entries /\ op.sector \in Sectors /\ op.name \in Names
<1>1. op.entry \in Entries /\ op.sector \in Sectors /\ op.name \in Names
  BY DEF Updates
<1>2. table[op.entry].sector \in Sectors
  BY <1>1, EntryType DEF TypeOK
<1>3. QED
  BY <1>1, <1>2 DEF NewEntry, OldEntry, DirectoryEntries

\* WriteTable of Create.
LEMMA CreateTableStep ==
  ASSUME IInv, WriteTable, Updating("create", "table")
  PROVE  IInv'
<1> DEFINE x == op.entry
<1>1. TypeOK /\ Creating /\ op.step = "table" /\ op.do = "create"
  BY DEF IInv, Updating, Creating
<1>2. op \in Updates /\ x \in Entries /\ op.sector \in Sectors /\ op.name \in Names
      /\ NewEntry(op) \in DirectoryEntries /\ table \in Directories /\ op.at \in Nat
  BY <1>1, OpKinds, EntryKinds DEF TypeOK, Updates
<1>3. CreateProgress(op)
  BY <1>1 DEF IInv, Progress
<1>4. /\ table' = TableSector(op.table, op.at)
      /\ op' = IF op.at + 1 < DirSectors THEN [op EXCEPT !.at = @ + 1] ELSE [op EXCEPT !.step = "map"]
      /\ UNCHANGED <<freeMap, disk, open, contents, lost, astray, overrun, fault>>
  BY <1>1 DEF WriteTable, history
<1>5. /\ table' \in Directories
      /\ \A f \in Entries : f # x => table'[f] = table[f]
      /\ FlagSector[x] = op.at => table'[x].inUse /\ table'[x].sector = op.sector
      /\ FlagSector[x] # op.at => table'[x].inUse = table[x].inUse /\ table'[x].sector = table[x].sector
      /\ NameSector[x] = op.at => table'[x].name = op.name
      /\ NameSector[x] # op.at => table'[x].name = table[x].name
  <2>1. op.table = [table EXCEPT ![x] = NewEntry(op)]
    BY <1>3 DEF CreateProgress
  <2>2. NewEntry(op).inUse = TRUE /\ NewEntry(op).sector = op.sector /\ NewEntry(op).name = op.name
    BY DEF NewEntry
  <2> DEFINE t == op.table
             U == table'
             d == op.at
  <2>3. /\ t \in Directories /\ t[x] = NewEntry(op) /\ \A f \in Entries : f # x => t[f] = table[f]
        /\ U = TableSector(t, d)
    BY <1>2, <1>4, <2>1 DEF Directories
  <2> HIDE DEF x, t, U, d
  <2>4. /\ U \in Directories
        /\ \A f \in Entries : f # x => U[f] = table[f]
        /\ FlagSector[x] = d => U[x].inUse = t[x].inUse /\ U[x].sector = t[x].sector
        /\ FlagSector[x] # d => U[x].inUse = table[x].inUse /\ U[x].sector = table[x].sector
        /\ NameSector[x] = d => U[x].name = t[x].name
        /\ NameSector[x] # d => U[x].name = table[x].name
    BY <1>2, <2>3, TableSectorIs
  <2>5. QED
    BY <2>2, <2>3, <2>4 DEF U, d
<1>6. op' \in Updates
  BY <1>2, <1>4 DEF Updates
<1>7. op' # None
  BY <1>6, NoneAssumption, Zenon
<1>8. /\ op'.do = "create" /\ op'.name = op.name /\ op'.entry = x
      /\ op'.sector = op.sector /\ op'.hdr = op.hdr
      /\ op'.table = op.table /\ op'.map = op.map /\ op'.data = op.data
      /\ op.at + 1 < DirSectors => op'.step = "table" /\ op'.at = op.at + 1
      /\ ~ (op.at + 1 < DirSectors) => op'.step = "map"
  BY <1>1, <1>2, <1>4 DEF Updates
<1> HIDE DEF x
<1>9. TypeOK'
  BY <1>1, <1>4, <1>5, <1>6 DEF TypeOK, IsHeader
<1>10. Creating' /\ ~ Removing' /\ ~ Transferring'
  BY <1>7, <1>8 DEF Creating, Removing, Transferring
<1>11. SoundNow' = SoundNow
  <2>1. SoundNow = (Used \ lost) \ {x}
    BY <1>1 DEF SoundNow, x
  <2>2. SoundNow' = (Used \ lost)' \ {x}
    BY <1>8, <1>10 DEF SoundNow
  <2>3. Used' \ {x} = Used \ {x}
    BY <1>5 DEF Used
  <2>4. QED
    BY <1>4, <2>1, <2>2, <2>3
<1>12. /\ FlagSector[x] \in 0 .. DirSectors - 1 /\ NameSector[x] \in 0 .. DirSectors - 1
       /\ DirSectors \in Nat \ {0} /\ op.at < DirSectors
  BY <1>1, <1>2, <1>3, DirAssumption, SectorsAssumption DEF CreateProgress, Entries
<1>13. /\ FlagSector[x] < op.at + 1 => table'[x].inUse /\ table'[x].sector = op.sector
       /\ NameSector[x] < op.at + 1 => table'[x].name = op.name
  <2>1. /\ FlagSector[x] < op.at + 1 => FlagSector[x] < op.at \/ FlagSector[x] = op.at
        /\ NameSector[x] < op.at + 1 => NameSector[x] < op.at \/ NameSector[x] = op.at
    BY <1>2, <1>12
  <2>2. /\ FlagSector[x] < op.at => table[x].inUse /\ table[x].sector = op.sector
        /\ NameSector[x] < op.at => table[x].name = op.name
    BY <1>1, <1>3 DEF CreateProgress, x
  <2>3. QED
    BY <1>5, <2>1, <2>2
<1>14. op.table = [table' EXCEPT ![x] = NewEntry(op)]
  <2>1. op.table = [table EXCEPT ![x] = NewEntry(op)]
    BY <1>3 DEF CreateProgress, x
  <2>2. QED
    BY <1>2, <1>5, <2>1 DEF Directories
<1>15. op'.step = "map" => table' = op.table
  <2>1. SUFFICES ASSUME op'.step = "map" PROVE table' = op.table
    OBVIOUS
  <2>2. ~ (op.at + 1 < DirSectors)
    BY <1>8, <2>1
  <2>3. FlagSector[x] < op.at + 1 /\ NameSector[x] < op.at + 1
    BY <1>2, <1>12, <2>2
  <2>4. table'[x] = NewEntry(op)
    <3>1. table'[x] = [inUse |-> table'[x].inUse, name |-> table'[x].name, sector |-> table'[x].sector]
      BY <1>2, <1>5, EntryType
    <3>2. table'[x].inUse = TRUE
      BY <1>2, <1>5, <1>13, <2>3, EntryType
    <3>3. QED
      BY <1>13, <2>3, <3>1, <3>2 DEF NewEntry
  <2>5. QED
    BY <1>2, <1>5, <1>14, <2>4 DEF Directories
<1>16. CreateProgress(op)'
  <2>1. op'.table = [table' EXCEPT ![x] = NewEntry(op)']
    BY <1>8, <1>14 DEF NewEntry
  <2>2. \A f \in Entries : f # x /\ table'[f].name = op.name => x < f /\ ~ table'[f].inUse
    BY <1>3, <1>5 DEF CreateProgress, x
  <2>3. disk'[op'.sector] = op'.hdr
    BY <1>1, <1>3, <1>4, <1>8 DEF CreateProgress
  <2>4. op'.step = "table" =>
         /\ op'.at < DirSectors
         /\ FlagSector[x] < op'.at => table'[x].inUse /\ table'[x].sector = op.sector
         /\ NameSector[x] < op'.at => table'[x].name = op.name
    BY <1>8, <1>13
  <2>5. op'.step # "header"
    BY <1>8
  <2>6. op'.data # <<>> => Len(op'.data) = op'.hdr.numBytes
    BY <1>3, <1>8 DEF CreateProgress
  <2>7. QED
    BY <1>8, <1>15, <2>1, <2>2, <2>3, <2>4, <2>5, <2>6 DEF CreateProgress
<1>17. ASSUME ~ astray PROVE Good'
  <2>1. Good /\ CreateGood(op)
    BY <1>1, <1>17 DEF IInv, Good
  <2>2. \A e \in SoundNow : e \in Entries /\ e # x /\ table'[e] = table[e]
    BY <1>1, <1>5 DEF SoundNow, Used, x
  <2>3. \A f \in Entries : \/ table'[f].name = table[f].name
                           \/ \A e \in SoundNow : table[e].name # table'[f].name
    <3>1. \A e \in SoundNow : table[e].name # op.name
      <4>1. ASSUME NEW e \in SoundNow, table[e].name = op.name PROVE FALSE
        <5>1. e \in Entries /\ e # op.entry /\ table[e].inUse
          BY <1>1 DEF SoundNow, Used
        <5>2. QED
          BY <1>3, <4>1, <5>1 DEF CreateProgress
      <4>2. QED
        BY <4>1
    <3>2. QED
      BY <1>5, <3>1
  <2>4. Files(disk, table', SoundNow, freeMap, lost, overrun)
    <3>1. Files(disk, table, SoundNow, freeMap, lost, overrun)
      BY <2>1 DEF Good
    <3>2. QED
      BY <2>2, <2>3, <3>1, FilesSame
  <2>5. Opened(open, disk, table', SoundNow, overrun)
    <3>1. Opened(open, disk, table, SoundNow, overrun)
      BY <2>1 DEF Good
    <3>2. QED
      BY <2>2, <3>1, OpenedSame
  <2>6. CreateGood(op)'
    BY <1>4, <1>8, <2>1 DEF CreateGood, NewFile, x
  <2>7. (fault => overrun)' /\ (lost \subseteq Used)'
    <3>1. lost \subseteq Used \ {x}
      BY <2>1 DEF Good, CreateGood, x
    <3>2. QED
      BY <1>4, <1>5, <2>1, <3>1 DEF Good, Used
  <2>8. QED
    BY <1>4, <1>10, <1>11, <2>4, <2>5, <2>6, <2>7 DEF Good
<1>18. QED
  BY <1>4, <1>9, <1>10, <1>16, <1>17 DEF IInv, Progress

\* WriteTable of Remove.
LEMMA RemoveTableStep ==
  ASSUME IInv, WriteTable, Updating("remove", "table")
  PROVE  IInv'
<1> DEFINE x == op.entry
<1>1. TypeOK /\ Removing /\ op.step = "table" /\ op.do = "remove"
  BY DEF IInv, Updating, Removing
<1>2. op \in Updates /\ x \in Entries /\ op.name \in Names /\ table \in Directories /\ op.at \in Nat
  BY <1>1, OpKinds, EntryKinds DEF TypeOK, Updates
<1>3. RemoveProgress(op)
  BY <1>1 DEF IInv, Progress
<1>4. /\ table' = TableSector(op.table, op.at)
      /\ op' = IF op.at + 1 < DirSectors THEN [op EXCEPT !.at = @ + 1] ELSE None
      /\ UNCHANGED <<freeMap, disk, open, contents, lost, astray, overrun, fault>>
  BY <1>1 DEF WriteTable, history
<1>5. /\ table' \in Directories
      /\ \A f \in Entries : f # x => table'[f] = table[f]
      /\ FlagSector[x] = op.at => ~ table'[x].inUse
      /\ FlagSector[x] # op.at => table'[x].inUse = table[x].inUse
      /\ table'[x].sector = table[x].sector
      /\ table'[x].name = table[x].name
  <2>1. op.table = [table EXCEPT ![x] = OldEntry(op)] /\ table[x].name = op.name
    BY <1>3 DEF RemoveProgress
  <2>2. OldEntry(op) \in DirectoryEntries
    BY <1>1, <1>2, <2>1, EntryKinds
  <2>3. OldEntry(op).inUse = FALSE /\ OldEntry(op).sector = table[x].sector
        /\ OldEntry(op).name = table[x].name
    BY <2>1 DEF OldEntry
  <2> DEFINE t == op.table
             U == table'
             d == op.at
  <2>4. /\ t \in Directories /\ t[x] = OldEntry(op) /\ \A f \in Entries : f # x => t[f] = table[f]
        /\ U = TableSector(t, d)
    BY <1>2, <1>4, <2>1, <2>2 DEF Directories
  <2> HIDE DEF x, t, U, d
  <2>5. /\ U \in Directories
        /\ \A f \in Entries : f # x => U[f] = table[f]
        /\ FlagSector[x] = d => U[x].inUse = t[x].inUse /\ U[x].sector = t[x].sector
        /\ FlagSector[x] # d => U[x].inUse = table[x].inUse /\ U[x].sector = table[x].sector
        /\ NameSector[x] = d => U[x].name = t[x].name
        /\ NameSector[x] # d => U[x].name = table[x].name
    BY <1>2, <2>4, TableSectorIs
  <2>6. QED
    BY <2>3, <2>4, <2>5 DEF U, d
<1>6. /\ FlagSector[x] \in 0 .. DirSectors - 1 /\ DirSectors \in Nat \ {0} /\ op.at < DirSectors
      /\ FlagSector[x] < op.at => ~ table[x].inUse
  BY <1>1, <1>2, <1>3, DirAssumption, SectorsAssumption DEF RemoveProgress, Entries
<1>7. FlagSector[x] < op.at + 1 => ~ table'[x].inUse
  <2>1. FlagSector[x] < op.at + 1 => FlagSector[x] < op.at \/ FlagSector[x] = op.at
    BY <1>2, <1>6
  <2>2. QED
    BY <1>5, <1>6, <2>1
<1>8. Used' \ {x} = Used \ {x}
  BY <1>5 DEF Used
<1>9. SoundNow = (Used \ lost) \ {x}
  BY <1>1 DEF SoundNow, Updating, Removing
<1>10. ASSUME ~ astray
       PROVE  /\ (fault => overrun)' /\ (lost \subseteq Used)'
              /\ Files(disk, table, SoundNow, freeMap, lost, overrun)
              /\ Files(disk', table', SoundNow, freeMap', lost', overrun')
              /\ Opened(open', disk', table', SoundNow, overrun')
              /\ x \notin lost'
  <2>1. Good /\ RemoveGood(op)
    BY <1>1, <1>10 DEF IInv, Good
  <2>2. \A e \in SoundNow : e \in Entries /\ table'[e] = table[e]
    BY <1>5, <1>9 DEF Used
  <2>3. \A f \in Entries : table'[f].name = table[f].name
    BY <1>5
  <2>4. Files(disk, table, SoundNow, freeMap, lost, overrun)
    BY <2>1 DEF Good
  <2>5. Files(disk, table', SoundNow, freeMap, lost, overrun)
    BY <2>2, <2>3, <2>4, FilesSame
  <2>6. Opened(open, disk, table', SoundNow, overrun)
    <3>1. Opened(open, disk, table, SoundNow, overrun)
      BY <2>1 DEF Good
    <3>2. QED
      BY <2>2, <3>1, OpenedSame
  <2>7. x \notin lost
    BY <2>1 DEF RemoveGood
  <2>8. lost \subseteq Used'
    BY <1>8, <2>1, <2>7 DEF Good
  <2>9. QED
    BY <1>4, <2>1, <2>4, <2>5, <2>6, <2>7, <2>8 DEF Good
<1> HIDE DEF x
<1>11. CASE op.at + 1 < DirSectors
  <2>1. op' = [op EXCEPT !.at = @ + 1]
    BY <1>4, <1>11
  <2>2. op' \in Updates
    BY <1>2, <2>1 DEF Updates
  <2>3. op' # None
    BY <2>2, NoneAssumption, Zenon
  <2>4. /\ op'.do = "remove" /\ op'.step = "table" /\ op'.at = op.at + 1 /\ op'.name = op.name
        /\ op'.entry = x /\ op'.table = op.table /\ op'.map = op.map
    BY <1>1, <1>2, <2>1 DEF Updates, x
  <2>5. TypeOK'
    BY <1>1, <1>4, <1>5, <2>2 DEF TypeOK, IsHeader
  <2>6. Removing' /\ ~ Creating' /\ ~ Transferring' /\ Updating("remove", "table")'
    BY <2>3, <2>4 DEF Creating, Removing, Transferring, Updating
  <2>7. SoundNow' = SoundNow
    BY <1>4, <1>8, <1>9, <2>4, <2>6 DEF SoundNow
  <2>8. RemoveProgress(op)'
    <3>1. op.table = [table EXCEPT ![x] = OldEntry(op)] /\ table[x].name = op.name
      BY <1>3 DEF RemoveProgress, x
    <3>2. OldEntry(op)' = OldEntry(op)
      BY <1>5, <2>4 DEF OldEntry, x
    <3>3. op.table = [table' EXCEPT ![x] = OldEntry(op)]
      BY <1>2, <1>5, <3>1 DEF Directories
    <3>4. QED
      BY <1>5, <1>7, <1>11, <2>4, <3>1, <3>2, <3>3 DEF RemoveProgress
  <2>9. ASSUME ~ astray PROVE Good'
    <3>1. RemoveGood(op)'
      BY <1>10, <2>4, <2>9 DEF RemoveGood
    <3>2. QED
      BY <1>10, <2>6, <2>7, <2>9, <3>1 DEF Good
  <2>10. QED
    BY <1>4, <2>5, <2>6, <2>8, <2>9 DEF IInv, Progress
<1>12. CASE ~ (op.at + 1 < DirSectors)
  <2>1. op' = None
    BY <1>4, <1>12
  <2>2. TypeOK'
    BY <1>1, <1>4, <1>5, <2>1 DEF TypeOK, IsHeader
  <2>3. ~ table'[x].inUse
    BY <1>2, <1>6, <1>7, <1>12
  <2>4. (Used \ lost)' = SoundNow
    BY <1>4, <1>8, <1>9, <2>3 DEF Used
  <2>5. QED
    BY <1>4, <1>10, <2>1, <2>2, <2>4, IdleNext
<1>13. QED
  BY <1>11, <1>12

\* The request of a write in progress, how much of it is written, and its last
\* sector.
RequestOf(o) ==
  IF o.do = "write" THEN o.data
  ELSE SubSeq(o.data, o.pos + 1, Min({o.pos + TransferSize, Len(o.data)}))
LengthOf(o) == Min({Len(RequestOf(o)), FileLength(o.hdr) - o.pos})
LastOf(o) == (o.pos + LengthOf(o) - 1) \div SectorSize

\* A request has a byte and is cut to the file; one of Copy ends in the file.
LEMMA RequestIs ==
  ASSUME NEW o \in Transfers, o.pos < o.hdr.numBytes, o.data # <<>>,
         o.do = "copy" => Len(o.data) = o.hdr.numBytes
  PROVE  /\ RequestOf(o) \in Seq(Bytes) /\ Len(RequestOf(o)) \in Nat \ {0}
         /\ LengthOf(o) \in Nat \ {0} /\ LengthOf(o) <= Len(RequestOf(o))
         /\ o.pos + LengthOf(o) <= o.hdr.numBytes
         /\ LengthOf(o) = Len(RequestOf(o)) \/ o.pos + LengthOf(o) = o.hdr.numBytes
         /\ o.pos \div SectorSize \in Nat /\ LastOf(o) \in Int
         /\ o.pos \div SectorSize <= LastOf(o)
         /\ o.do = "copy" =>
              /\ o.pos + Len(RequestOf(o)) <= Len(o.data)
              /\ \A k \in 1 .. Len(RequestOf(o)) : RequestOf(o)[k] = o.data[o.pos + k]
<1> DEFINE N == o.hdr.numBytes
           p == o.pos
           r == RequestOf(o)
<1>1. /\ N \in Nat \ {0} /\ p \in Nat /\ o.data \in Seq(Bytes) /\ o.do \in {"copy", "write"}
      /\ TransferSize \in Nat \ {0} /\ SectorSize \in Nat \ {0}
  <2>1. o.hdr \in FileHeaders /\ p \in Nat /\ o.data \in Seq(Bytes) /\ o.do \in {"copy", "write"}
    BY DEF Transfers
  <2>2. N \in Sizes
    BY <2>1 DEF FileHeaders
  <2>3. QED
    BY <2>1, <2>2, SizesNat, SizeAssumption
<1>2. Len(o.data) \in Nat \ {0}
  BY <1>1, EmptySeq
<1>3. ASSUME o.do = "write" PROVE r \in Seq(Bytes) /\ Len(r) \in Nat \ {0}
  <2>1. r = o.data
    BY <1>3 DEF RequestOf
  <2> HIDE DEF r
  <2>2. QED
    BY <1>1, <1>2, <2>1
<1>4. ASSUME o.do = "copy"
      PROVE  /\ r \in Seq(Bytes) /\ Len(r) \in Nat \ {0} /\ p + Len(r) <= Len(o.data)
             /\ \A k \in 1 .. Len(r) : r[k] = o.data[p + k]
  <2> DEFINE L == Len(o.data)
             u == p + TransferSize
             c == Min({u, L})
  <2>1. c \in {u, L} /\ c <= L
    <3>1. u \in Int /\ L \in Int
      BY <1>1, <1>2
    <3> HIDE DEF u, L
    <3>2. QED
      BY <3>1, MinPair
  <2>2. r = SubSeq(o.data, p + 1, c)
    BY <1>4 DEF RequestOf
  <2>3. L = N /\ p < N
    BY <1>4
  <2> HIDE DEF c, r
  <2>4. c \in Int /\ c <= L /\ p < c /\ L \in Nat /\ p \in Nat
    BY <1>1, <1>2, <2>1, <2>3
  <2>5. \A i \in p + 1 .. c : o.data[i] \in Bytes
    <3>1. \A i \in p + 1 .. c : i \in 1 .. L
      BY <2>4
    <3>2. QED
      BY <1>1, <3>1, ElementOfSeq
  <2>6. /\ r \in Seq(Bytes) /\ Len(r) = (IF p + 1 <= c THEN c - (p + 1) + 1 ELSE 0)
        /\ \A i \in 1 .. c - (p + 1) + 1 : r[i] = o.data[(p + 1) + i - 1]
    <3>1. p + 1 \in Int
      BY <1>1
    <3> DEFINE d == o.data
               m == p + 1
    <3>2. m \in Int /\ \A i \in m .. c : d[i] \in Bytes
      BY <2>5, <3>1
    <3> HIDE DEF d, m
    <3>3. /\ SubSeq(d, m, c) \in Seq(Bytes)
          /\ Len(SubSeq(d, m, c)) = (IF m <= c THEN c - m + 1 ELSE 0)
          /\ \A i \in 1 .. c - m + 1 : SubSeq(d, m, c)[i] = d[m + i - 1]
      BY <2>4, <3>2, SubSeqProperties
    <3>4. QED
      BY <2>2, <3>3 DEF d, m
  <2>7. Len(r) = c - p /\ c - (p + 1) + 1 = c - p /\ c - p \in Nat \ {0}
    BY <2>4, <2>6
  <2>8. \A i \in 1 .. Len(r) : r[i] = o.data[p + i]
    <3>1. \A i \in 1 .. Len(r) : (p + 1) + i - 1 = p + i
      BY <2>4, <2>7
    <3>2. QED
      BY <2>6, <2>7, <3>1
  <2>9. p + Len(r) <= L
    BY <2>4, <2>7
  <2>10. QED
    BY <2>6, <2>7, <2>8, <2>9
<1>5. /\ r \in Seq(Bytes) /\ Len(r) \in Nat \ {0}
      /\ o.do = "copy" =>
           /\ p + Len(r) <= Len(o.data)
           /\ \A k \in 1 .. Len(r) : r[k] = o.data[p + k]
  BY <1>1, <1>3, <1>4
<1> DEFINE l == LengthOf(o)
           a == Len(r)
           b == N - p
<1>6. a \in Nat \ {0} /\ b \in Nat \ {0} /\ p + b = N
  BY <1>1, <1>5
<1>7. l = Min({a, b})
  BY DEF LengthOf, FileLength
<1> HIDE DEF r, l, a, b, N
<1>8. l \in {a, b} /\ l <= a /\ l <= b
  <2> DEFINE m == Min({a, b})
  <2>1. m \in {a, b} /\ m <= a /\ m <= b
    <3>1. a \in Int /\ b \in Int
      BY <1>6
    <3>2. QED
      BY <3>1, MinPair
  <2> HIDE DEF m
  <2>2. l = m
    BY <1>7 DEF m
  <2>3. QED
    BY <2>1, <2>2
<1>9. l \in Nat \ {0} /\ l <= a /\ p + l <= N /\ (l = a \/ p + l = N)
  BY <1>1, <1>6, <1>8
<1>10. p <= p + l - 1 /\ p \in Int /\ p + l - 1 \in Int
  BY <1>1, <1>9
<1>11. LastOf(o) = (p + l - 1) \div SectorSize
  BY DEF LastOf, l
<1>12. /\ p \div SectorSize \in Nat /\ LastOf(o) \in Int /\ p \div SectorSize <= LastOf(o)
  <2>1. p \div SectorSize \in Int /\ p \div SectorSize >= 0 /\ (p + l - 1) \div SectorSize \in Int
    <3> DEFINE e == p + l - 1
               S == SectorSize
    <3>1. S \in Nat \ {0} /\ p \in Int /\ p >= 0 /\ e \in Int
      BY <1>1, <1>10
    <3> HIDE DEF S, p, e
    <3>2. p \div S \in Int /\ p \div S >= 0
      BY <3>1, DivBounds
    <3>3. e \div S \in Int
      BY <3>1, DivBounds
    <3>4. QED
      BY <3>2, <3>3 DEF S, e
  <2>2. p \div SectorSize <= (p + l - 1) \div SectorSize
    BY <1>1, <1>10, DivMonotone
  <2>3. QED
    BY <1>11, <2>1, <2>2
<1>13. QED
  BY <1>5, <1>9, <1>12 DEF r, l, a, N

\* While the bitmap of Create is to be written, its entry is found by its name.
LEMMA FindNew ==
  ASSUME TypeOK, op \in Updates, CreateProgress(op), op.step = "map"
  PROVE  /\ table[op.entry] = NewEntry(op) /\ disk[op.sector] = op.hdr
         /\ op.entry \in Used /\ FindIndex(op.name) = op.entry /\ Find(op.name) = op.sector
<1> DEFINE x == op.entry
<1>1. op.entry \in Entries /\ op.sector \in Sectors /\ op.name \in Names /\ table \in Directories
  BY DEF Updates, TypeOK
<1>2. op.table = [table EXCEPT ![op.entry] = NewEntry(op)] /\ table = op.table
      /\ disk[op.sector] = op.hdr
  BY DEF CreateProgress
<1>3. table[x] = NewEntry(op)
  BY <1>1, <1>2 DEF Directories
<1>4. table[x].inUse /\ table[x].name = op.name /\ table[x].sector = op.sector
  BY <1>3 DEF NewEntry
<1>5. x \in Used /\ x \in Named(op.name)
  BY <1>1, <1>4 DEF Used, Named
<1>6. Find(op.name) # -1 /\ FindIndex(op.name) \in Entries
  BY <1>1, <1>5, FindSector
<1>7. /\ table[FindIndex(op.name)].name = op.name /\ FindIndex(op.name) \in Used
      /\ Find(op.name) = table[FindIndex(op.name)].sector
  BY <1>1, <1>6, FindSector
<1>8. FindIndex(op.name) = x
  BY <1>6, <1>7 DEF CreateProgress, Used
<1>9. QED
  BY <1>2, <1>3, <1>4, <1>5, <1>7, <1>8

\* WriteMap of Create: the file is there.
LEMMA CreateMapStep ==
  ASSUME IInv, WriteMap, Updating("create", "map")
  PROVE  IInv'
<1> DEFINE x == op.entry
<1>1. TypeOK /\ Creating /\ op.step = "map" /\ op.do = "create"
  BY DEF IInv, Updating, Creating
<1>2. op \in Updates /\ x \in Entries /\ op.sector \in Sectors /\ op.name \in Names
      /\ op.hdr \in FileHeaders /\ op.data \in Seq(Bytes) /\ op.map \in SUBSET Sectors
  BY <1>1, OpKinds DEF Updates
<1>3. CreateProgress(op)
  BY <1>1 DEF IInv, Progress
<1>4. /\ freeMap' = op.map
      /\ op' = IF op.data # <<>> THEN Transfer("copy", OpenFile(op.name), op.data, 0) ELSE None
      /\ UNCHANGED <<open, table, disk, lost, astray, overrun, fault>>
  BY <1>1 DEF WriteMap
<1>5. /\ table[x] = NewEntry(op) /\ disk[op.sector] = op.hdr
      /\ x \in Used /\ Find(op.name) = op.sector
  BY <1>1, <1>2, <1>3, FindNew
<1>6. table[x].name = op.name /\ table[x].sector = op.sector /\ table[x].inUse
  BY <1>5 DEF NewEntry
<1>7. SoundNow = (Used \ lost) \ {x} /\ Used' = Used
  BY <1>1, <1>4 DEF SoundNow, Used
<1> HIDE DEF x
<1>8. ASSUME ~ astray
      PROVE  /\ (fault => overrun)' /\ (lost \subseteq Used)'
             /\ Files(disk', table', (Used \ lost)', freeMap', lost', overrun')
             /\ Opened(open', disk', table', (Used \ lost)', overrun')
             /\ x \in (Used \ lost)' /\ Shaped(op.hdr) /\ (~ overrun => Fits(op.hdr))
  <2>1. Good /\ CreateGood(op)
    BY <1>1, <1>8 DEF IInv, Good
  <2>2. x \notin lost
    BY <2>1 DEF CreateGood, x
  <2>3. Used \ lost = SoundNow \cup {x}
    BY <1>5, <1>7, <2>2
  <2>4. Files(disk, table, SoundNow, freeMap, lost, overrun)
    BY <2>1 DEF Good
  <2>5. Owned(disk, table, x) = NewFile(op)
    BY <1>5, <1>6 DEF Owned, NewFile
  <2>6. /\ Shaped(op.hdr) /\ (~ overrun => Fits(op.hdr))
        /\ NewFile(op) \cap freeMap = {} /\ op.sector \notin SectorsOf(op.hdr)
        /\ freeMap \cup NewFile(op) \subseteq op.map
        /\ ~ overrun => op.map = freeMap \cup NewFile(op)
    BY <2>1 DEF CreateGood
  <2>7. \A f \in Entries : f # x /\ table[f].name = table[x].name => x < f /\ f \notin SoundNow
    <3>1. \A f \in Entries : f # x /\ table[f].name = op.name => x < f /\ ~ table[f].inUse
      BY <1>3 DEF CreateProgress, x
    <3>2. QED
      BY <1>6, <1>7, <3>1 DEF Used
  <2>8. x \notin SoundNow
    BY <1>7
  <2>9. Files(disk, table, SoundNow \cup {x}, op.map, lost, overrun)
    <3>1. /\ Shaped(disk[table[x].sector]) /\ (~ overrun => Fits(disk[table[x].sector]))
          /\ table[x].sector \notin SectorsOf(disk[table[x].sector])
      BY <1>5, <1>6, <2>6
    <3>2. /\ Owned(disk, table, x) \cap freeMap = {}
          /\ freeMap \cup Owned(disk, table, x) \subseteq op.map
          /\ ~ overrun => op.map = freeMap \cup Owned(disk, table, x)
      BY <2>5, <2>6
    <3> DEFINE N == op.map
    <3>3. /\ freeMap \cup Owned(disk, table, x) \subseteq N
          /\ ~ overrun => N = freeMap \cup Owned(disk, table, x)
      BY <3>2
    <3>4. x \in Entries /\ table[x].name \in Names /\ table[x].inUse
      BY <1>2, <1>6 DEF x
    <3> HIDE DEF N
    <3>5. Files(disk, table, SoundNow \cup {x}, N, lost, overrun)
      BY <2>4, <2>7, <2>8, <3>1, <3>2, <3>3, <3>4, FilesAdd
    <3>6. QED
      BY <3>5 DEF N
  <2>10. Opened(open, disk, table, SoundNow \cup {x}, overrun)
    <3>1. Opened(open, disk, table, SoundNow, overrun)
      BY <2>1 DEF Good
    <3>2. QED
      BY <3>1, OpenedSame
  <2>11. (Used \ lost)' = SoundNow \cup {x}
    BY <1>4, <1>7, <2>3
  <2>12. (fault => overrun)' /\ (lost \subseteq Used)' /\ x \in (Used \ lost)'
    BY <1>4, <1>7, <2>1, <2>11 DEF Good
  <2>13. Files(disk', table', (Used \ lost)', freeMap', lost', overrun')
    BY <1>4, <2>9, <2>11
  <2>14. Opened(open', disk', table', (Used \ lost)', overrun')
    BY <1>4, <2>10, <2>11
  <2>15. QED
    BY <2>6, <2>12, <2>13, <2>14
<1>9. freeMap' \in SUBSET Sectors
  BY <1>2, <1>4
<1>10. CASE op.data = <<>>
  <2>1. op' = None
    BY <1>4, <1>10
  <2>2. TypeOK'
    BY <1>1, <1>4, <1>9, <2>1 DEF TypeOK, IsHeader
  <2>3. QED
    BY <1>4, <1>8, <2>1, <2>2, IdleNext
<1>11. CASE op.data # <<>>
  <2>1. OpenFile(op.name) = [hdr |-> op.hdr, name |-> op.name, orphan |-> FALSE]
    BY <1>5 DEF OpenFile, FetchFrom
  <2> DEFINE f == OpenFile(op.name)
  <2>2. f.hdr = op.hdr /\ f.name = op.name /\ f.orphan = FALSE
    BY <2>1
  <2>3. op' = [do |-> "copy", at |-> 0 \div SectorSize, name |-> op.name, hdr |-> op.hdr,
               orphan |-> FALSE, data |-> op.data, pos |-> 0]
    <3> HIDE DEF f
    <3>1. op' = Transfer("copy", f, op.data, 0)
      BY <1>4, <1>11 DEF f
    <3>2. QED
      BY <2>2, <3>1 DEF Transfer
  <2>4. /\ op'.do = "copy" /\ op'.at = 0 \div SectorSize /\ op'.name = op.name /\ op'.hdr = op.hdr
        /\ op'.orphan = FALSE /\ op'.data = op.data /\ op'.pos = 0
    BY <2>3
  <2>5. 0 \div SectorSize \in Nat
    BY SizeAssumption, DivBounds
  <2>6. op' \in Transfers
    BY <1>2, <2>3, <2>5 DEF Transfers
  <2>7. op' # None
    BY <2>6, NoneAssumption, Zenon
  <2>8. TypeOK'
    BY <1>1, <1>4, <1>9, <2>6 DEF TypeOK, IsHeader
  <2>9. Transferring' /\ ~ Creating' /\ ~ Removing' /\ ~ Updating("remove", "table")'
    BY <2>4, <2>7 DEF Transferring, Creating, Removing, Updating
  <2>10. SoundNow' = (Used \ lost)'
    BY <2>9 DEF SoundNow
  <2>11. TransferProgress(op)'
    <3>1. op.hdr.numBytes \in Nat /\ 0 < op.hdr.numBytes
      BY <1>2, SizesNat DEF FileHeaders
    <3>2. Len(op.data) = op.hdr.numBytes
      BY <1>3, <1>11 DEF CreateProgress
    <3>3. op'.pos \div SectorSize \in Nat /\ LastOf(op') \in Int /\ op'.pos \div SectorSize <= LastOf(op')
      BY <1>11, <2>4, <2>6, <3>1, <3>2, RequestIs
    <3>4. LastSector' = LastOf(op')
      BY DEF LastSector, LastOf, Length, LengthOf, Request, RequestOf
    <3>5. op'.at \in op'.pos \div SectorSize .. LastSector'
      BY <2>4, <3>3, <3>4
    <3>6. QED
      BY <1>11, <2>4, <3>1, <3>2, <3>5 DEF TransferProgress
  <2>12. ASSUME ~ astray PROVE Good'
    <3>1. Holds(op, disk, table, SoundNow, overrun)'
      <4>1. \E e \in SoundNow' : table'[e].name = op'.name /\ disk'[table'[e].sector] = op'.hdr
        <5>1. table'[x].name = op'.name /\ disk'[table'[x].sector] = op'.hdr
          BY <1>4, <1>5, <1>6, <2>4
        <5>2. QED
          BY <1>8, <2>10, <2>12, <5>1
      <4>2. QED
        BY <1>4, <1>8, <2>4, <2>12, <4>1 DEF Holds
    <3>2. QED
      BY <1>8, <2>9, <2>10, <2>12, <3>1 DEF Good
  <2>13. QED
    BY <1>4, <2>8, <2>9, <2>11, <2>12 DEF IInv, Progress
<1>12. QED
  BY <1>10, <1>11

\* WriteMap of Remove: the file is gone.
LEMMA RemoveMapStep ==
  ASSUME IInv, WriteMap, Updating("remove", "map")
  PROVE  IInv'
<1> DEFINE x == op.entry
<1>1. TypeOK /\ Removing /\ op.step = "map" /\ op.do = "remove"
  BY DEF IInv, Updating, Removing
<1>2. op \in Updates /\ x \in Entries /\ op.name \in Names /\ op.map \in SUBSET Sectors
  BY <1>1, OpKinds DEF Updates
<1>3. RemoveProgress(op)
  BY <1>1 DEF IInv, Progress
<1>4. /\ freeMap' = op.map
      /\ op' = [op EXCEPT !.step = "table"]
      /\ open' = Orphaned({op.name})
      /\ UNCHANGED <<table, disk, lost, astray, overrun, fault>>
  BY <1>1 DEF WriteMap
<1>5. op' \in Updates
  BY <1>2, <1>4 DEF Updates
<1>6. op' # None
  BY <1>5, NoneAssumption, Zenon
<1>7. /\ op'.do = "remove" /\ op'.step = "table" /\ op'.at = op.at /\ op'.name = op.name
      /\ op'.entry = x /\ op'.table = op.table /\ op'.map = op.map
  BY <1>1, <1>2, <1>4 DEF Updates
<1>8. /\ table[x].inUse /\ table[x].name = op.name /\ op.at = 0
      /\ op.table = [table EXCEPT ![x] = OldEntry(op)]
  BY <1>1, <1>3 DEF RemoveProgress
<1>9. Removing' /\ ~ Creating' /\ ~ Transferring' /\ Updating("remove", "table")'
  BY <1>6, <1>7 DEF Creating, Removing, Transferring, Updating
<1>10. SoundNow = Used \ lost /\ SoundNow' = (Used \ lost) \ {x} /\ Used' = Used
  <2>1. ~ Creating /\ ~ Updating("remove", "table")
    BY <1>1, OpKinds DEF Updating
  <2>2. SoundNow = Used \ lost /\ Used' = Used
    BY <1>4, <2>1 DEF SoundNow, Used
  <2>3. SoundNow' = (Used \ lost)' \ {x}
    BY <1>7, <1>9 DEF SoundNow
  <2>4. QED
    BY <1>4, <2>2, <2>3
<1> HIDE DEF x
<1>11. ASSUME NEW h \in Handles
       PROVE  /\ open'[h] = (IF open[h] # None /\ open[h].name = op.name
                             THEN [open[h] EXCEPT !.orphan = TRUE] ELSE open[h])
              /\ open[h] = None \/ open[h] \in OpenFiles
  BY <1>1, <1>4 DEF Orphaned, TypeOK
<1>12. ASSUME NEW h \in Handles, open[h] # None, open[h].name = op.name
       PROVE  /\ open'[h] \in OpenFiles /\ open'[h].hdr = open[h].hdr /\ open'[h].name = open[h].name
              /\ open'[h].orphan
  BY <1>11, <1>12 DEF OpenFiles
<1>13. TypeOK'
  <2>1. open' \in [Handles -> OpenFiles \cup {None}]
    <3>1. open' = [h \in Handles |-> open'[h]]
      BY <1>4 DEF Orphaned
    <3>2. \A h \in Handles : open'[h] \in OpenFiles \cup {None}
      BY <1>11, <1>12
    <3>3. QED
      BY <3>1, <3>2
  <2>2. QED
    BY <1>1, <1>2, <1>4, <1>5, <2>1 DEF TypeOK, IsHeader
<1>14. RemoveProgress(op)'
  <2>1. 0 < DirSectors /\ ~ (FlagSector[x] < 0)
    <3>1. FlagSector[x] \in 0 .. DirSectors - 1
      BY <1>2, DirAssumption DEF Entries, x
    <3>2. QED
      BY <3>1, SectorsAssumption
  <2>2. OldEntry(op)' = OldEntry(op)
    BY <1>4, <1>7 DEF OldEntry, x
  <2>3. QED
    BY <1>4, <1>7, <1>8, <2>1, <2>2 DEF RemoveProgress, x
<1>15. ASSUME ~ astray PROVE Good'
  <2>1. Good /\ RemoveGood(op)
    BY <1>1, <1>15 DEF IInv, Good
  <2>2. x \notin lost /\ freeMap' = freeMap \ Owned(disk, table, x)
    BY <1>1, <1>4, <2>1 DEF RemoveGood, x
  <2>3. x \in SoundNow
    BY <1>2, <1>8, <1>10, <2>2 DEF Used, x
  <2> DEFINE R == SoundNow \ {x}
  <2>4. SoundNow' = R
    BY <1>10
  <2>5. Files(disk, table, R, freeMap', lost, overrun)
    <3>1. Files(disk, table, SoundNow, freeMap, lost, overrun)
      BY <2>1 DEF Good
    <3>2. Files(disk, table, R, freeMap \ Owned(disk, table, x), lost, overrun)
      BY <2>3, <3>1, FilesRemove
    <3>3. QED
      BY <2>2, <3>2
  <2>6. ASSUME NEW h \in Handles, open'[h] # None PROVE Holds(open'[h], disk, table, R, overrun)
    <3>1. open[h] # None /\ Holds(open[h], disk, table, SoundNow, overrun)
      BY <1>11, <2>1, <2>6 DEF Good, Opened
    <3>2. CASE open[h].name = op.name
      <4>1. open'[h].hdr = open[h].hdr /\ open'[h].orphan
        BY <1>12, <3>1, <3>2
      <4>2. QED
        BY <3>1, <4>1 DEF Holds
    <3>3. CASE open[h].name # op.name
      <4>1. open'[h] = open[h]
        BY <1>11, <3>3
      <4>2. \A e \in SoundNow : table[e].name = open[h].name => e \in R
        BY <1>8, <3>3
      <4> DEFINE o == open[h]
      <4> HIDE DEF R
      <4>3. Holds(o, disk, table, SoundNow, overrun) /\ \A e \in SoundNow : table[e].name = o.name => e \in R
        BY <3>1, <4>2
      <4> HIDE DEF o
      <4>4. Holds(o, disk, table, R, overrun)
        BY <4>3, HoldsSame
      <4>5. QED
        BY <4>1, <4>4 DEF o
    <3>4. QED
      BY <3>2, <3>3
  <2> HIDE DEF R
  <2>7. Opened(open', disk, table, R, overrun)
    BY <2>6 DEF Opened
  <2>8. RemoveGood(op)'
    BY <1>4, <1>7, <2>2 DEF RemoveGood
  <2>9. (fault => overrun)' /\ (lost \subseteq Used)'
    BY <1>4, <1>10, <2>1 DEF Good
  <2>10. Files(disk', table', SoundNow', freeMap', lost', overrun')
         /\ Opened(open', disk', table', SoundNow', overrun')
    BY <1>4, <2>4, <2>5, <2>7
  <2>11. QED
    BY <1>9, <2>8, <2>9, <2>10 DEF Good
<1>16. QED
  BY <1>4, <1>9, <1>13, <1>14, <1>15 DEF IInv, Progress

-----------------------------------------------------------------------------
(* A crash *)

\* A Create or a Remove that is cut off loses its file, or has not begun.
LEMMA CrashSound ==
  ASSUME IInv, Crash
  PROVE  (Used \ lost)' = SoundNow
<1>1. TypeOK
  BY DEF IInv
<1>2. lost' = (IF CutOff THEN lost \cup {op.entry} ELSE lost) /\ Used' = Used
  BY DEF Crash, Used
<1>3. CASE Creating \/ Updating("remove", "table")
  <2>1. SoundNow = (Used \ lost) \ {op.entry}
    BY <1>1, <1>3, SoundIs
  <2>2. ~ Updating("remove", "map") /\ op # None /\ op.do \in {"create", "remove"}
    BY <1>1, <1>3, SoundIs, OpKinds DEF Creating, Updating
  <2>3. CutOff <=> table[op.entry].inUse
    BY <2>2 DEF CutOff
  <2>4. ~ table[op.entry].inUse => op.entry \notin Used
    BY DEF Used
  <2>5. QED
    BY <1>2, <2>1, <2>3, <2>4
<1>4. CASE ~ (Creating \/ Updating("remove", "table"))
  <2>1. SoundNow = Used \ lost
    BY <1>4 DEF SoundNow
  <2>2. ~ CutOff
    <3>1. Removing => Updating("remove", "map") \/ Updating("remove", "table")
      <4>1. Removing => op.step \in {"map", "table"}
        BY DEF IInv, Progress, RemoveProgress
      <4>2. QED
        BY <4>1 DEF Removing, Updating
    <3>2. QED
      BY <1>4, <3>1 DEF CutOff, Creating, Removing
  <2>3. QED
    BY <1>2, <2>1, <2>2
<1>5. QED
  BY <1>3, <1>4

\* So nothing becomes unsound.
LEMMA CrashStep ==
  ASSUME IInv, Crash
  PROVE  IInv'
<1>1. TypeOK
  BY DEF IInv
<1>2. /\ op' = None /\ open' = [h \in Handles |-> None]
      /\ lost' = IF CutOff THEN lost \cup {op.entry} ELSE lost
      /\ UNCHANGED <<freeMap, table, disk, astray, overrun, fault>>
  BY DEF Crash
<1>3. CutOff => op \in Updates /\ op.entry \in Entries /\ op.entry \in Used
  <2>1. CutOff => Creating \/ Removing
    BY DEF CutOff, Creating, Removing
  <2>2. CutOff => op \in Updates
    BY <1>1, <2>1, OpKinds
  <2>3. QED
    BY <2>2 DEF CutOff, Updates, Used
<1>4. TypeOK' /\ Used' = Used
  <2>1. lost' \in SUBSET Entries
    BY <1>1, <1>2, <1>3 DEF TypeOK
  <2>2. open' \in [Handles -> OpenFiles \cup {None}]
    BY <1>2
  <2>3. QED
    BY <1>1, <1>2, <2>1, <2>2 DEF TypeOK, IsHeader, Used
<1>5. (Used \ lost)' = SoundNow
  BY CrashSound
<1>6. ASSUME ~ astray
      PROVE  /\ (fault => overrun)' /\ (lost \subseteq Used)'
             /\ Files(disk', table', (Used \ lost)', freeMap', lost', overrun')
             /\ Opened(open', disk', table', (Used \ lost)', overrun')
  <2>1. Good
    BY <1>6 DEF IInv
  <2>2. (lost \subseteq Used)' /\ (fault => overrun)'
    BY <1>2, <1>3, <1>4, <2>1 DEF Good
  <2>3. Files(disk, table, SoundNow, freeMap, lost', overrun)
    <3>1. Files(disk, table, SoundNow, freeMap, lost, overrun)
      BY <2>1 DEF Good
    <3>2. lost' = {} => lost = {}
      BY <1>2
    <3>3. QED
      BY <3>1, <3>2, FilesSame
  <2>4. Opened(open', disk', table', (Used \ lost)', overrun')
    BY <1>2 DEF Opened
  <2>5. Files(disk', table', (Used \ lost)', freeMap', lost', overrun')
    BY <1>2, <1>5, <2>3
  <2>6. QED
    BY <2>2, <2>4, <2>5
<1>7. QED
  BY <1>2, <1>4, <1>6, IdleNext

-----------------------------------------------------------------------------
(* Open files *)

\* The OpenFile of a file that was not lost has its header.
LEMMA OpenStep ==
  ASSUME IInv, NEW h \in Handles, NEW n \in Names, Open(h, n)
  PROVE  IInv'
<1> DEFINE x == FindIndex(n)
           f == OpenFile(n)
<1>1. TypeOK /\ op = None /\ Find(n) # -1 /\ IsHeader(Find(n)) /\ table \in Directories
  BY DEF IInv, Open, Idle, TypeOK
<1>2. /\ x \in Entries /\ x \in Used /\ table[x].name = n /\ Find(n) = table[x].sector
      /\ Find(n) \in Sectors
  BY <1>1, FindSector
<1>3. /\ open' = [open EXCEPT ![h] = f]
      /\ astray' = (astray \/ x \in lost)
      /\ UNCHANGED <<freeMap, table, disk, op, contents, lost, overrun, fault>>
  BY DEF Open, Stray
<1>4. f = [hdr |-> disk[Find(n)], name |-> n, orphan |-> FALSE]
  BY DEF OpenFile, FetchFrom
<1>5. f.hdr = disk[Find(n)] /\ f.name = n /\ f.orphan = FALSE
  BY <1>4
<1>6. f \in OpenFiles
  <2>1. disk[Find(n)] \in FileHeaders
    BY <1>1, <1>2 DEF TypeOK
  <2>2. QED
    BY <1>4, <2>1 DEF OpenFiles
<1> HIDE DEF x, f
<1>7. TypeOK' /\ op' = None /\ Used' = Used
  <2>1. astray' \in BOOLEAN
    BY <1>3
  <2>2. open' \in [Handles -> OpenFiles \cup {None}]
    BY <1>1, <1>3, <1>6 DEF TypeOK
  <2>3. QED
    BY <1>1, <1>3, <2>1, <2>2 DEF TypeOK, IsHeader, Used
<1>8. ASSUME ~ astray'
      PROVE  /\ (fault => overrun)' /\ (lost \subseteq Used)'
             /\ Files(disk', table', (Used \ lost)', freeMap', lost', overrun')
             /\ Opened(open', disk', table', (Used \ lost)', overrun')
  <2>1. ~ astray /\ x \in Used \ lost
    BY <1>2, <1>3, <1>8
  <2>2. /\ fault => overrun
        /\ lost \subseteq Used
        /\ Files(disk, table, Used \ lost, freeMap, lost, overrun)
        /\ Opened(open, disk, table, Used \ lost, overrun)
    BY <1>1, <2>1, IdleGood
  <2>3. Holds(f, disk, table, Used \ lost, overrun)
    <3>1. Shaped(f.hdr) /\ (~ overrun => Fits(f.hdr))
      BY <1>2, <1>5, <2>1, <2>2 DEF Files, Agree, Proper, Roomy
    <3>2. table[x].name = f.name /\ disk[table[x].sector] = f.hdr
      BY <1>2, <1>5
    <3>3. QED
      BY <2>1, <3>1, <3>2 DEF Holds
  <2>4. Opened(open', disk, table, Used \ lost, overrun)
    <3>1. \A g \in Handles : open'[g] = IF g = h THEN f ELSE open[g]
      BY <1>1, <1>3 DEF TypeOK
    <3>2. QED
      BY <2>2, <2>3, <3>1 DEF Opened
  <2>5. (Used \ lost)' = Used \ lost
    BY <1>3, <1>7
  <2>6. Files(disk', table', (Used \ lost)', freeMap', lost', overrun')
    BY <1>3, <2>2, <2>5
  <2>7. Opened(open', disk', table', (Used \ lost)', overrun')
    BY <1>3, <2>4, <2>5
  <2>8. (fault => overrun)' /\ (lost \subseteq Used)'
    BY <1>3, <1>7, <2>2
  <2>9. QED
    BY <2>6, <2>7, <2>8
<1>9. QED
  BY <1>7, <1>8, IdleNext

LEMMA CloseStep ==
  ASSUME IInv, NEW h \in Handles, Close(h)
  PROVE  IInv'
<1>1. TypeOK /\ op = None
  BY DEF IInv, Close, Idle
<1>2. /\ open' = [open EXCEPT ![h] = None]
      /\ UNCHANGED <<freeMap, table, disk, op, contents, lost, astray, overrun, fault>>
  BY DEF Close, history
<1>3. TypeOK' /\ op' = None /\ Used' = Used
  BY <1>1, <1>2 DEF TypeOK, IsHeader, Used
<1>4. ASSUME ~ astray'
      PROVE  /\ (fault => overrun)' /\ (lost \subseteq Used)'
             /\ Files(disk', table', (Used \ lost)', freeMap', lost', overrun')
             /\ Opened(open', disk', table', (Used \ lost)', overrun')
  <2>1. /\ fault => overrun
        /\ lost \subseteq Used
        /\ Files(disk, table, Used \ lost, freeMap, lost, overrun)
        /\ Opened(open, disk, table, Used \ lost, overrun)
    BY <1>1, <1>2, <1>4, IdleGood
  <2>2. Opened(open', disk, table, Used \ lost, overrun)
    <3>1. \A g \in Handles : open'[g] = IF g = h THEN None ELSE open[g]
      BY <1>1, <1>2 DEF TypeOK
    <3>2. QED
      BY <2>1, <3>1 DEF Opened
  <2>3. (Used \ lost)' = Used \ lost
    BY <1>2, <1>3
  <2>4. Files(disk', table', (Used \ lost)', freeMap', lost', overrun')
    BY <1>2, <2>1, <2>3
  <2>5. Opened(open', disk', table', (Used \ lost)', overrun')
    BY <1>2, <2>2, <2>3
  <2>6. (fault => overrun)' /\ (lost \subseteq Used)'
    BY <1>2, <1>3, <2>1
  <2>7. QED
    BY <2>4, <2>5, <2>6
<1>5. QED
  BY <1>3, <1>4, IdleNext

\* A write begins at the first sector it touches.
LEMMA WriteStep ==
  ASSUME IInv, NEW h \in Handles, Write(h)
  PROVE  IInv'
<1> DEFINE f == open[h]
<1>1. TypeOK /\ op = None /\ f # None
  BY DEF IInv, Write, Idle
<1>2. f \in OpenFiles /\ f.hdr \in FileHeaders /\ f.hdr.numBytes \in Nat
  <2>1. f \in OpenFiles
    BY <1>1 DEF TypeOK
  <2>2. f.hdr \in FileHeaders
    BY <2>1 DEF OpenFiles
  <2>3. f.hdr.numBytes \in Nat
    BY <2>2, SizesNat DEF FileHeaders
  <2>4. QED
    BY <2>1, <2>2, <2>3
<1>3. PICK pos \in 0 .. FileLength(f.hdr) - 1, len \in 1 .. Max(Sizes) :
        \E from \in [1 .. len -> Bytes] : op' = Transfer("write", f, from, pos)
  BY DEF Write
<1>4. PICK from \in [1 .. len -> Bytes] : op' = Transfer("write", f, from, pos)
  BY <1>3
<1>5. UNCHANGED <<freeMap, table, disk, open, contents, lost, astray, overrun, fault>>
  BY DEF Write, history
<1> HIDE DEF f
<1>6. pos \in Nat /\ pos < f.hdr.numBytes
  BY <1>2 DEF FileLength
<1>7. from \in Seq(Bytes) /\ from # <<>>
  <2>1. len \in Int /\ 1 <= len
    OBVIOUS
  <2>2. len \in Nat /\ 1 \in 1 .. len
    BY <2>1
  <2>3. from \in Seq(Bytes) /\ DOMAIN from = 1 .. len
    BY <2>2
  <2>4. DOMAIN <<>> = {}
    OBVIOUS
  <2>5. QED
    BY <2>2, <2>3, <2>4
<1>8. op' = [do |-> "write", at |-> pos \div SectorSize, name |-> f.name, hdr |-> f.hdr,
             orphan |-> f.orphan, data |-> from, pos |-> pos]
  BY <1>4 DEF Transfer
<1>9. /\ op'.do = "write" /\ op'.at = pos \div SectorSize /\ op'.name = f.name /\ op'.hdr = f.hdr
      /\ op'.orphan = f.orphan /\ op'.data = from /\ op'.pos = pos
  BY <1>8
<1>10. op' \in Transfers
  <2>1. f.name \in Names /\ f.orphan \in BOOLEAN
    BY <1>2 DEF OpenFiles
  <2>2. pos \div SectorSize \in Nat
    <3>1. SectorSize \in Nat \ {0} /\ pos \in Int /\ pos >= 0
      BY <1>6, SizeAssumption
    <3>2. QED
      BY <3>1, DivBounds
  <2>3. QED
    BY <1>2, <1>6, <1>7, <1>8, <2>1, <2>2 DEF Transfers
<1>11. op' # None
  BY <1>10, NoneAssumption, Zenon
<1>12. TypeOK' /\ Used' = Used
  BY <1>1, <1>5, <1>10 DEF TypeOK, IsHeader, Used
<1>13. Transferring' /\ ~ Creating' /\ ~ Removing' /\ ~ Updating("remove", "table")'
  BY <1>9, <1>11 DEF Transferring, Creating, Removing, Updating
<1>14. SoundNow' = Used \ lost
  BY <1>5, <1>12, <1>13 DEF SoundNow
<1>15. TransferProgress(op)'
  <2>1. op'.do # "copy" /\ op'.pos < op'.hdr.numBytes /\ op'.data # <<>>
    BY <1>6, <1>7, <1>9
  <2>2. op'.pos \div SectorSize \in Nat /\ LastOf(op') \in Int /\ op'.pos \div SectorSize <= LastOf(op')
    BY <1>10, <2>1, RequestIs
  <2>3. LastSector' = LastOf(op')
    BY DEF LastSector, LastOf, Length, LengthOf, Request, RequestOf
  <2>4. op'.at \in op'.pos \div SectorSize .. LastSector'
    BY <1>9, <2>2, <2>3
  <2>5. QED
    BY <2>1, <2>4 DEF TransferProgress
<1>16. ASSUME ~ astray PROVE Good'
  <2>1. /\ fault => overrun
        /\ lost \subseteq Used
        /\ Files(disk, table, Used \ lost, freeMap, lost, overrun)
        /\ Opened(open, disk, table, Used \ lost, overrun)
    BY <1>1, <1>16, IdleGood
  <2>2. Holds(f, disk, table, Used \ lost, overrun)
    BY <1>1, <2>1 DEF Opened, f
  <2>3. Holds(op', disk, table, Used \ lost, overrun)
    BY <1>9, <2>2 DEF Holds
  <2>4. Holds(op, disk, table, SoundNow, overrun)'
    BY <1>5, <1>14, <2>3
  <2>5. Files(disk', table', SoundNow', freeMap', lost', overrun')
        /\ Opened(open', disk', table', SoundNow', overrun')
    BY <1>5, <1>14, <2>1
  <2>6. (fault => overrun)' /\ (lost \subseteq Used)'
    BY <1>5, <1>12, <2>1
  <2>7. QED
    BY <1>13, <2>4, <2>5, <2>6 DEF Good
<1>17. QED
  BY <1>5, <1>12, <1>13, <1>15, <1>16 DEF IInv, Progress

\* When the rest stays as it is, so does the invariant.
LEMMA SameIInv ==
  ASSUME IInv, UNCHANGED <<freeMap, table, disk, open, op, lost, astray, overrun>>,
         fault' \in BOOLEAN, ~ astray => (fault' => overrun)
  PROVE  IInv'
<1>1. TypeOK' /\ Used' = Used
  BY DEF IInv, TypeOK, IsHeader, Used
<1>2. /\ Creating' = Creating /\ Removing' = Removing /\ Transferring' = Transferring
      /\ SoundNow' = SoundNow
  <2>1. Creating' = Creating /\ Removing' = Removing /\ Transferring' = Transferring
    BY DEF Creating, Removing, Transferring
  <2>2. SoundNow' = SoundNow
    BY <1>1, <2>1 DEF SoundNow, Updating
  <2>3. QED
    BY <2>1, <2>2
<1>3. Progress'
  <2>1. CreateProgress(op)' = CreateProgress(op)
    BY DEF CreateProgress, NewEntry
  <2>2. RemoveProgress(op)' = RemoveProgress(op)
    BY DEF RemoveProgress, OldEntry
  <2>3. TransferProgress(op)' = TransferProgress(op)
    <3>1. LastSector' = LastSector
      BY DEF LastSector, Length, Request
    <3>2. QED
      BY <3>1 DEF TransferProgress
  <2>4. QED
    BY <1>2, <2>1, <2>2, <2>3 DEF IInv, Progress
<1>4. ASSUME ~ astray PROVE Good'
  <2>1. Good
    BY <1>4 DEF IInv
  <2>2. Files(disk', table', SoundNow', freeMap', lost', overrun')
        /\ Opened(open', disk', table', SoundNow', overrun')
    BY <1>2, <2>1 DEF Good
  <2>3. CreateGood(op)' = CreateGood(op) /\ RemoveGood(op)' = RemoveGood(op)
    BY DEF CreateGood, RemoveGood, NewFile
  <2>4. Transferring => Holds(op', disk', table', SoundNow', overrun')
    BY <1>2, <2>1 DEF Good
  <2>5. (fault => overrun)' /\ (lost \subseteq Used)'
    BY <1>1, <1>4, <2>1 DEF Good
  <2>6. QED
    BY <1>2, <2>1, <2>2, <2>3, <2>4, <2>5 DEF Good
<1>5. QED
  BY <1>1, <1>3, <1>4 DEF IInv

\* OpenFiles of files that are gone differ in nothing else.
LEMMA OrphanedIs ==
  ASSUME TypeOK, NEW gone
  PROVE  /\ Orphaned(gone) \in [Handles -> OpenFiles \cup {None}]
         /\ \A h \in Handles : Orphaned(gone)[h] # None =>
              /\ open[h] # None
              /\ Orphaned(gone)[h].hdr = open[h].hdr /\ Orphaned(gone)[h].name = open[h].name
              /\ Orphaned(gone)[h].orphan <=> open[h].orphan \/ open[h].name \in gone
<1> DEFINE O == Orphaned(gone)
<1>1. O = [h \in Handles |-> IF open[h] # None /\ open[h].name \in gone
                             THEN [open[h] EXCEPT !.orphan = TRUE] ELSE open[h]]
  BY DEF Orphaned
<1> HIDE DEF O
<1>2. ASSUME NEW h \in Handles
      PROVE  /\ O[h] = (IF open[h] # None /\ open[h].name \in gone
                        THEN [open[h] EXCEPT !.orphan = TRUE] ELSE open[h])
             /\ open[h] = None \/ open[h] \in OpenFiles
  BY <1>1 DEF TypeOK
<1>3. ASSUME NEW h \in Handles, open[h] # None, open[h].name \in gone
      PROVE  O[h] \in OpenFiles /\ O[h].hdr = open[h].hdr /\ O[h].name = open[h].name /\ O[h].orphan
  BY <1>2, <1>3 DEF OpenFiles
<1>4. O \in [Handles -> OpenFiles \cup {None}]
  <2>1. O = [h \in Handles |-> O[h]]
    BY <1>1
  <2>2. \A h \in Handles : O[h] \in OpenFiles \cup {None}
    BY <1>2, <1>3
  <2>3. QED
    BY <2>1, <2>2
<1>5. ASSUME NEW h \in Handles, O[h] # None
      PROVE  /\ open[h] # None /\ O[h].hdr = open[h].hdr /\ O[h].name = open[h].name
             /\ O[h].orphan <=> open[h].orphan \/ open[h].name \in gone
  <2>1. open[h] # None
    BY <1>2, <1>5
  <2>2. CASE open[h].name \in gone
    BY <1>3, <2>1, <2>2
  <2>3. CASE open[h].name \notin gone
    <3>1. O[h] = open[h]
      BY <1>2, <2>3
    <3>2. QED
      BY <2>1, <2>3, <3>1
  <2>4. QED
    BY <2>2, <2>3
<1>6. QED
  BY <1>4, <1>5 DEF O

\* What is known of a write in progress.
LEMMA WritingIs ==
  ASSUME IInv, Transferring
  PROVE  /\ op \in Transfers /\ op.hdr \in FileHeaders /\ op.pos \in Nat /\ op.at \in Nat
         /\ op.name \in Names /\ op.orphan \in BOOLEAN
         /\ op.hdr.numBytes \in Sizes /\ op.hdr.dataSectors \in Seq(Sectors)
         /\ TransferProgress(op)
         /\ Request = RequestOf(op) /\ Length = LengthOf(op) /\ LastSector = LastOf(op)
         /\ Request \in Seq(Bytes) /\ Len(Request) \in Nat \ {0}
         /\ Length \in Nat \ {0} /\ Length <= Len(Request)
         /\ op.pos + Length <= op.hdr.numBytes
         /\ Length = Len(Request) \/ op.pos + Length = op.hdr.numBytes
         /\ LastSector \in Int /\ op.at <= LastSector /\ op.pos \div SectorSize <= op.at
         /\ op.pos \div SectorSize \in Nat
         /\ op.do = "copy" =>
              /\ Len(op.data) = op.hdr.numBytes /\ ~ op.orphan
              /\ op.pos + Len(Request) <= Len(op.data)
              /\ \A k \in 1 .. Len(Request) : Request[k] = op.data[op.pos + k]
<1>1. TypeOK /\ op \in Transfers
  BY OpKinds DEF IInv
<1>2. /\ op.hdr \in FileHeaders /\ op.pos \in Nat /\ op.at \in Nat
      /\ op.name \in Names /\ op.orphan \in BOOLEAN
  BY <1>1 DEF Transfers
<1>3. op.hdr.numBytes \in Sizes /\ op.hdr.dataSectors \in Seq(Sectors)
  BY <1>2 DEF FileHeaders
<1>4. TransferProgress(op)
  BY DEF IInv, Progress
<1>5. Request = RequestOf(op) /\ Length = LengthOf(op) /\ LastSector = LastOf(op)
  BY DEF LastSector, LastOf, Length, LengthOf, Request, RequestOf
<1>6. /\ op.pos < op.hdr.numBytes /\ op.data # <<>>
      /\ op.do = "copy" => ~ op.orphan /\ Len(op.data) = op.hdr.numBytes
      /\ op.at \in op.pos \div SectorSize .. LastSector
  BY <1>4 DEF TransferProgress
<1>7. /\ RequestOf(op) \in Seq(Bytes) /\ Len(RequestOf(op)) \in Nat \ {0}
      /\ LengthOf(op) \in Nat \ {0} /\ LengthOf(op) <= Len(RequestOf(op))
      /\ op.pos + LengthOf(op) <= op.hdr.numBytes
      /\ LengthOf(op) = Len(RequestOf(op)) \/ op.pos + LengthOf(op) = op.hdr.numBytes
      /\ op.pos \div SectorSize \in Nat /\ LastOf(op) \in Int
      /\ op.do = "copy" =>
           /\ op.pos + Len(RequestOf(op)) <= Len(op.data)
           /\ \A k \in 1 .. Len(RequestOf(op)) : RequestOf(op)[k] = op.data[op.pos + k]
  BY <1>1, <1>6, RequestIs
<1>8. op.at <= LastSector /\ op.pos \div SectorSize <= op.at
  <2> DEFINE q == op.pos \div SectorSize
  <2>1. q \in Nat /\ LastSector \in Int /\ op.at \in q .. LastSector
    BY <1>5, <1>6, <1>7
  <2> HIDE DEF q
  <2>2. op.at <= LastSector /\ q <= op.at
    BY <2>1
  <2>3. QED
    BY <2>2 DEF q
<1>9. QED
  BY <1>1, <1>2, <1>3, <1>4, <1>5, <1>6, <1>7, <1>8

\* The sectors a write touches, when the header has room for its sectors.
LEMMA WriteInFile ==
  ASSUME IInv, Transferring, WellFormed(op.hdr), NEW i \in op.pos \div SectorSize .. LastSector
  PROVE  i \in Nat /\ i + 1 \in 1 .. Len(op.hdr.dataSectors)
<1>1. /\ op.pos \in Nat /\ Length \in Int /\ op.pos + Length <= op.hdr.numBytes
      /\ LastSector = (op.pos + Length - 1) \div SectorSize
  BY WritingIs DEF LastSector
<1> DEFINE hdr == op.hdr
           pos == op.pos
           n == Length
<1>2. /\ WellFormed(hdr) /\ pos \in Nat /\ n \in Int /\ pos + n <= hdr.numBytes
      /\ i \in (pos \div SectorSize) .. ((pos + n - 1) \div SectorSize)
  BY <1>1
<1> HIDE DEF hdr, pos, n
<1>3. i \in Nat /\ i + 1 \in 1 .. Len(hdr.dataSectors)
  BY <1>2, TouchedInFile
<1>4. QED
  BY <1>3 DEF hdr

\* Only a header with too many sectors makes a write leave its file.
LEMMA WriteBeyondStep ==
  ASSUME IInv, WriteBeyond
  PROVE  IInv'
<1>1. /\ Transferring /\ LastSector + 1 \notin DOMAIN op.hdr.dataSectors /\ fault' = TRUE
      /\ UNCHANGED <<freeMap, table, disk, open, op, contents, lost, astray, overrun>>
  BY DEF WriteBeyond, history
<1>2. ASSUME ~ astray, ~ overrun PROVE FALSE
  <2>1. Holds(op, disk, table, SoundNow, overrun)
    BY <1>1, <1>2 DEF IInv, Good
  <2>2. WellFormed(op.hdr)
    BY <1>2, <2>1, RoomyWellFormed DEF Holds
  <2>3. LastSector \in op.pos \div SectorSize .. LastSector
    <3> DEFINE q == op.pos \div SectorSize
    <3>1. LastSector \in Int /\ op.at \in Nat /\ op.at <= LastSector /\ q <= op.at /\ q \in Int
      BY <1>1, WritingIs
    <3> HIDE DEF q
    <3>2. LastSector \in q .. LastSector
      BY <3>1
    <3>3. QED
      BY <3>2 DEF q
  <2>4. LastSector + 1 \in 1 .. Len(op.hdr.dataSectors)
    BY <1>1, <2>2, <2>3, WriteInFile
  <2>5. DOMAIN op.hdr.dataSectors = 1 .. Len(op.hdr.dataSectors)
    BY <1>1, WritingIs, LenProperties
  <2>6. QED
    BY <1>1, <2>4, <2>5
<1>3. QED
  BY <1>1, <1>2, SameIInv

\* One sector of WriteAt, by the sector, the entries it hits and what comes next.
WroteTo(s, hit) ==
  /\ disk' = [disk EXCEPT ![s] =
                [kind |-> "data",
                 bytes |-> [o \in Offsets |-> BufAt(op.hdr, Request, op.pos, Length,
                                                   op.at * SectorSize + o)]]]
  /\ contents' = IF op.orphan THEN contents
                 ELSE [contents EXCEPT ![op.name] = Updated(@, Request, op.pos, op.at)]
  /\ lost' = lost \cup hit
  /\ open' = Orphaned({table[e].name : e \in hit})
  /\ op' = IF op.at < LastSector THEN [op EXCEPT !.at = @ + 1]
           ELSE IF op.do = "copy" /\ op.pos + Len(Request) < Len(op.data)
           THEN [op EXCEPT !.pos = op.pos + Len(Request),
                           !.at = (op.pos + Len(Request)) \div SectorSize]
           ELSE None
  /\ UNCHANGED <<freeMap, table, astray, overrun, fault>>
LEMMA WriteAtIs ==
  ASSUME WriteAt
  PROVE  /\ Transferring /\ op.at + 1 \in DOMAIN op.hdr.dataSectors
         /\ WroteTo(op.hdr.dataSectors[op.at + 1],
                    IF op.orphan THEN Victims(op.hdr.dataSectors[op.at + 1]) ELSE {})
  BY DEF WriteAt, WroteTo

\* What comes after a sector: the next one of this request, the next request of
\* Copy, or nothing.
LEMMA NextSector ==
  ASSUME IInv, Transferring, NEW s, NEW hit, WroteTo(s, hit)
  PROVE  \/ op' = None
         \/ /\ op' \in Transfers /\ op'.do = op.do /\ op'.hdr = op.hdr /\ op'.name = op.name
            /\ op'.orphan = op.orphan /\ op'.data = op.data
            /\ op'.pos < op'.hdr.numBytes /\ op'.at \in op'.pos \div SectorSize .. LastOf(op')
            /\ \/ op.at < LastSector /\ op'.at = op.at + 1 /\ op'.pos = op.pos
               \/ /\ op.at = LastSector /\ op.do = "copy" /\ op'.pos = op.pos + Len(Request)
                  /\ op'.at = op'.pos \div SectorSize
<1>1. /\ op \in Transfers /\ op.hdr \in FileHeaders /\ op.pos \in Nat /\ op.at \in Nat
      /\ op.name \in Names /\ op.orphan \in BOOLEAN /\ TransferProgress(op)
      /\ LastSector = LastOf(op) /\ LastSector \in Int /\ Len(Request) \in Nat \ {0}
      /\ op.pos \div SectorSize \in Nat /\ op.pos \div SectorSize <= op.at /\ op.at <= LastSector
      /\ op.do = "copy" => Len(op.data) = op.hdr.numBytes
  BY WritingIs
<1>2. op.data \in Seq(Bytes) /\ op.pos < op.hdr.numBytes /\ op.data # <<>>
  BY <1>1 DEF Transfers, TransferProgress
<1> DEFINE next == op.pos + Len(Request)
<1>3. op' = IF op.at < LastSector THEN [op EXCEPT !.at = @ + 1]
            ELSE IF op.do = "copy" /\ next < Len(op.data)
            THEN [op EXCEPT !.pos = next, !.at = next \div SectorSize]
            ELSE None
  BY DEF WroteTo
<1>4. next \in Nat
  BY <1>1
<1> HIDE DEF next
<1>5. CASE op.at < LastSector
  <2>1. op' = [op EXCEPT !.at = @ + 1]
    BY <1>3, <1>5
  <2>2. /\ op' \in Transfers /\ op'.do = op.do /\ op'.hdr = op.hdr /\ op'.name = op.name
        /\ op'.orphan = op.orphan /\ op'.data = op.data /\ op'.pos = op.pos /\ op'.at = op.at + 1
    BY <1>1, <2>1 DEF Transfers
  <2>3. LastOf(op') = LastSector
    BY <1>1, <2>2 DEF LastOf, LengthOf, RequestOf
  <2>4. op'.at \in op'.pos \div SectorSize .. LastOf(op')
    <3> DEFINE q == op.pos \div SectorSize
    <3>1. q \in Nat /\ q <= op.at /\ op.at \in Nat /\ op.at < LastSector /\ LastSector \in Int
      BY <1>1, <1>5
    <3> HIDE DEF q
    <3>2. op.at + 1 \in q .. LastSector
      BY <3>1
    <3>3. QED
      BY <2>2, <2>3, <3>2 DEF q
  <2>5. QED
    BY <1>2, <1>5, <2>2, <2>4
<1>6. CASE ~ (op.at < LastSector) /\ op.do = "copy" /\ next < Len(op.data)
  <2>1. op' = [op EXCEPT !.pos = next, !.at = next \div SectorSize]
    BY <1>3, <1>6
  <2>2. next \div SectorSize \in Nat
    <3>1. SectorSize \in Nat \ {0} /\ next \in Int /\ next >= 0
      BY <1>4, SizeAssumption
    <3>2. QED
      BY <3>1, DivBounds
  <2>3. /\ op' \in Transfers /\ op'.do = op.do /\ op'.hdr = op.hdr /\ op'.name = op.name
        /\ op'.orphan = op.orphan /\ op'.data = op.data /\ op'.pos = next
        /\ op'.at = next \div SectorSize
    BY <1>1, <1>4, <2>1, <2>2 DEF Transfers
  <2>4. op'.pos < op'.hdr.numBytes /\ op'.data # <<>>
        /\ (op'.do = "copy" => Len(op'.data) = op'.hdr.numBytes)
    BY <1>1, <1>2, <1>6, <2>3
  <2>5. op'.pos \div SectorSize \in Nat /\ LastOf(op') \in Int /\ op'.pos \div SectorSize <= LastOf(op')
    BY <2>3, <2>4, RequestIs
  <2>6. op'.at \in op'.pos \div SectorSize .. LastOf(op')
    <3> DEFINE q == op'.pos \div SectorSize
               l == LastOf(op')
    <3>1. q \in Nat /\ l \in Int /\ q <= l
      BY <2>5
    <3>2. op'.at = q
      BY <2>3
    <3> HIDE DEF q, l
    <3>3. op'.at \in q .. l
      BY <3>1, <3>2
    <3>4. QED
      BY <3>3 DEF q, l
  <2>7. op.at = LastSector
    BY <1>1, <1>6
  <2>8. op'.at = op'.pos \div SectorSize /\ op'.pos = op.pos + Len(Request)
    BY <2>3 DEF next
  <2>9. QED
    BY <1>6, <2>3, <2>4, <2>6, <2>7, <2>8
<1>7. CASE ~ (op.at < LastSector) /\ ~ (op.do = "copy" /\ next < Len(op.data))
  BY <1>3, <1>7
<1>8. QED
  BY <1>5, <1>6, <1>7

\* A write goes to the file's own sectors, unless the file is gone; then it hits
\* the files that have them now.
LEMMA WriteAtStep ==
  ASSUME IInv, WriteAt
  PROVE  IInv'
<1> DEFINE s == op.hdr.dataSectors[op.at + 1]
           hit == IF op.orphan THEN Victims(s) ELSE {}
           gone == {table[e].name : e \in hit}
<1>1. TypeOK /\ Transferring /\ op.at + 1 \in DOMAIN op.hdr.dataSectors /\ WroteTo(s, hit)
  BY WriteAtIs DEF IInv
<1>2. s \in Sectors /\ s \in SectorsOf(op.hdr)
  <2>1. op.hdr.dataSectors \in Seq(Sectors)
    BY <1>1, WritingIs
  <2>2. s \in Sectors
    BY <1>1, <2>1
  <2>3. QED
    BY <1>1, <2>2 DEF SectorsOf, Range
<1>3. hit \subseteq Used /\ (~ op.orphan => hit = {}) /\ (op.orphan => hit = Victims(s))
  BY DEF Victims
<1> HIDE DEF hit, s
<1>4. /\ lost' = lost \cup hit /\ open' = Orphaned(gone)
      /\ UNCHANGED <<freeMap, table, astray, overrun, fault>>
  BY <1>1 DEF WroteTo
<1> HIDE DEF gone
<1>5. /\ disk = [t \in Sectors |-> disk[t]] /\ disk' = [t \in Sectors |-> disk'[t]]
      /\ disk'[s].kind = "data" /\ \A t \in Sectors : t # s => disk'[t] = disk[t]
  <2> DEFINE b == [o \in Offsets |-> BufAt(op.hdr, Request, op.pos, Length,
                                           op.at * SectorSize + o)]
  <2>1. disk' = [disk EXCEPT ![s] = [kind |-> "data", bytes |-> b]]
    BY <1>1 DEF WroteTo
  <2> HIDE DEF b
  <2>2. disk = [t \in Sectors |-> disk[t]]
    BY <1>1 DEF TypeOK
  <2>3. QED
    BY <1>2, <2>1, <2>2
<1>6. \/ op' = None
      \/ /\ op' \in Transfers /\ op'.do = op.do /\ op'.hdr = op.hdr /\ op'.name = op.name
         /\ op'.orphan = op.orphan /\ op'.data = op.data
         /\ op'.pos < op'.hdr.numBytes /\ op'.at \in op'.pos \div SectorSize .. LastOf(op')
  BY <1>1, NextSector
<1>7. /\ open' \in [Handles -> OpenFiles \cup {None}]
      /\ \A h \in Handles : open'[h] # None =>
           /\ open[h] # None
           /\ open'[h].hdr = open[h].hdr /\ open'[h].name = open[h].name
           /\ open'[h].orphan <=> open[h].orphan \/ open[h].name \in gone
  BY <1>1, <1>4, OrphanedIs
<1>8. Used' = Used /\ SoundNow = Used \ lost
  BY <1>1, <1>4, SoundIs DEF Used
<1>9. TypeOK'
  <2>1. \A t \in Sectors : IsHeader(t)' => disk'[t] \in FileHeaders
    <3>1. disk'[s].kind # "header"
      BY <1>5
    <3>2. QED
      BY <1>1, <1>5, <3>1 DEF TypeOK, IsHeader
  <2>2. lost' \in SUBSET Entries
    BY <1>1, <1>3, <1>4 DEF TypeOK, Used
  <2>3. op' \in Updates \cup Transfers \cup {None}
    BY <1>6
  <2>4. QED
    BY <1>1, <1>4, <1>5, <1>7, <2>1, <2>2, <2>3 DEF TypeOK
<1> DEFINE R == (Used \ lost)'
<1>10. R = SoundNow \ hit
  BY <1>4, <1>8
<1>11. ASSUME ~ astray
       PROVE  /\ (fault => overrun)' /\ (lost \subseteq Used)'
              /\ Files(disk', table', R, freeMap', lost', overrun')
              /\ Opened(open', disk', table', R, overrun')
              /\ Holds(op, disk', table', R, overrun')
  <2>1. Good /\ Holds(op, disk, table, SoundNow, overrun)
    BY <1>1, <1>11 DEF IInv, Good
  <2>2. Files(disk, table, SoundNow, freeMap, lost, overrun)
        /\ Opened(open, disk, table, SoundNow, overrun)
    BY <2>1 DEF Good
  <2>3. Agree(disk, table, SoundNow, freeMap)
    BY <2>2 DEF Files
  <2>4. \A e \in R : table[e].sector # s /\ table[e].sector \in Sectors
    <3>1. \A e \in SoundNow : table[e].sector \in Sectors
      BY <1>1, <2>3, EntryType DEF TypeOK, Agree
    <3>2. CASE op.orphan
      <4>1. \A e \in R : s \notin FileSectors(e)
        BY <1>3, <1>8, <1>10, <3>2 DEF Victims
      <4>2. QED
        BY <1>10, <3>1, <4>1 DEF FileSectors
    <3>3. CASE ~ op.orphan
      <4>1. PICK e \in SoundNow : table[e].name = op.name /\ disk[table[e].sector] = op.hdr
        BY <2>1, <3>3 DEF Holds
      <4>2. s \in Owned(disk, table, e) /\ table[e].sector # s
        BY <1>2, <2>3, <4>1 DEF Owned, Agree, Proper
      <4>3. \A f \in SoundNow : f # e => s \notin Owned(disk, table, f)
        BY <2>3, <4>2 DEF Agree
      <4>4. \A f \in SoundNow : table[f].sector # s
        BY <4>2, <4>3 DEF Owned
      <4>5. QED
        BY <1>10, <3>1, <4>4
    <3>4. QED
      BY <3>2, <3>3
  <2>5. \A e \in R : e \in SoundNow /\ disk'[table[e].sector] = disk[table[e].sector]
    BY <1>5, <1>10, <2>4
  <2> HIDE DEF R
  <2>6. Files(disk', table, R, freeMap, lost', overrun)
    <3>1. R \subseteq SoundNow /\ SystemSectors \subseteq freeMap
      BY <1>10, <2>3 DEF Agree
    <3>2. \A e \in R : Owned(disk, table, e) \subseteq freeMap
      BY <2>3, <2>5 DEF Agree, Proper
    <3>3. lost' = {} /\ ~ overrun => Exact(disk, table, R, freeMap)
      <4>1. lost' = {} => lost = {} /\ R = SoundNow
        BY <1>4, <1>10
      <4>2. QED
        BY <2>2, <4>1 DEF Files
    <3>4. QED
      BY <2>2, <2>5, <3>1, <3>2, <3>3, FilesShrink
  <2>7. ASSUME NEW h \in Handles, open'[h] # None PROVE Holds(open'[h], disk', table, R, overrun)
    <3>1. /\ open[h] # None /\ open'[h].hdr = open[h].hdr /\ open'[h].name = open[h].name
          /\ open'[h].orphan <=> open[h].orphan \/ open[h].name \in gone
      BY <1>7, <2>7
    <3>2. Holds(open[h], disk, table, SoundNow, overrun)
      BY <2>2, <3>1 DEF Opened
    <3>3. ASSUME ~ open'[h].orphan
          PROVE  \E e \in R : table[e].name = open'[h].name /\ disk'[table[e].sector] = open'[h].hdr
      <4>1. PICK e \in SoundNow : table[e].name = open[h].name /\ disk[table[e].sector] = open[h].hdr
        BY <3>1, <3>2, <3>3 DEF Holds
      <4>2. e \notin hit
        BY <3>1, <3>3, <4>1 DEF gone
      <4>3. e \in R
        BY <1>10, <4>1, <4>2 DEF R
      <4>4. QED
        BY <2>5, <3>1, <4>1, <4>3
    <3>4. QED
      BY <3>1, <3>2, <3>3 DEF Holds
  <2>8. Opened(open', disk', table, R, overrun)
    BY <2>7 DEF Opened
  <2>9. Holds(op, disk', table, R, overrun)
    <3>1. ~ op.orphan => R = SoundNow
      BY <1>3, <1>10
    <3>2. ~ op.orphan => \E e \in R : table[e].name = op.name /\ disk'[table[e].sector] = op.hdr
      BY <2>1, <2>5, <3>1 DEF Holds
    <3>3. QED
      BY <2>1, <3>2 DEF Holds
  <2>10. (fault => overrun)' /\ (lost \subseteq Used)'
    BY <1>3, <1>4, <1>8, <2>1 DEF Good
  <2>11. Files(disk', table', R, freeMap', lost', overrun')
    BY <1>4, <2>6
  <2>12. Opened(open', disk', table', R, overrun') /\ Holds(op, disk', table', R, overrun')
    BY <1>4, <2>8, <2>9
  <2>13. QED
    BY <2>10, <2>11, <2>12
<1>12. CASE op' = None
  BY <1>4, <1>9, <1>11, <1>12, IdleNext
<1>13. CASE /\ op' \in Transfers /\ op'.do = op.do /\ op'.hdr = op.hdr /\ op'.name = op.name
            /\ op'.orphan = op.orphan /\ op'.data = op.data
            /\ op'.pos < op'.hdr.numBytes /\ op'.at \in op'.pos \div SectorSize .. LastOf(op')
  <2>1. op' # None
    BY <1>13, NoneAssumption, Zenon
  <2>2. op'.do \in {"copy", "write"}
    BY <1>13 DEF Transfers
  <2>3. Transferring' /\ ~ Creating' /\ ~ Removing' /\ ~ Updating("remove", "table")'
    BY <2>1, <2>2 DEF Transferring, Creating, Removing, Updating
  <2>4. SoundNow' = R
    BY <2>3 DEF SoundNow
  <2> HIDE DEF R
  <2>5. TransferProgress(op)'
    <3>1. LastSector' = LastOf(op')
      BY DEF LastSector, LastOf, Length, LengthOf, Request, RequestOf
    <3>2. TransferProgress(op)
      BY <1>1, WritingIs
    <3>3. QED
      BY <1>13, <3>1, <3>2 DEF TransferProgress
  <2>6. ASSUME ~ astray PROVE Good'
    <3>1. Holds(op', disk', table', R, overrun')
      BY <1>11, <1>13, <2>6 DEF Holds
    <3>2. QED
      BY <1>11, <2>3, <2>4, <2>6, <3>1 DEF Good
  <2>7. QED
    BY <1>4, <1>9, <2>3, <2>5, <2>6 DEF IInv, Progress
<1>14. QED
  BY <1>6, <1>12, <1>13

-----------------------------------------------------------------------------
(* The invariant, and what it says between operations *)

\* The data of Copy is as long as the file it creates.
LEMMA CopyStep ==
  ASSUME IInv, NEW n \in Names, Copy(n)
  PROVE  IInv'
<1>1. PICK size \in Sizes : \E data \in [1 .. size -> Bytes] : CreateFor(n, size, data)
  BY DEF Copy
<1>2. PICK data \in [1 .. size -> Bytes] : CreateFor(n, size, data)
  BY <1>1
<1>3. size \in Nat
  BY SizesNat
<1>4. data \in Seq(Bytes) /\ Len(data) = size
  BY <1>2, <1>3
<1>5. QED
  BY <1>2, <1>4, CreateStep

\* Every step of the system keeps the invariant.
LEMMA NextIInv ==
  ASSUME IInv, [Next]_vars
  PROVE  IInv'
<1>1. ASSUME NEW n \in Names, NEW size \in Sizes, Create(n, size) PROVE IInv'
  <2>1. <<>> \in Seq(Bytes)
    OBVIOUS
  <2>2. CreateFor(n, size, <<>>)
    BY <1>1 DEF Create
  <2>3. QED
    BY <2>1, <2>2, CreateStep
<1>2. ASSUME NEW n \in Names, NEW size \in Sizes, CreateOverruns(n, size) PROVE IInv'
  BY <1>2, CreateOverrunsStep
<1>3. ASSUME NEW n \in Names, Copy(n) PROVE IInv'
  BY <1>3, CopyStep
<1>4. ASSUME NEW n \in Names, Remove(n) PROVE IInv'
  BY <1>4, RemoveStep
<1>5. ASSUME NEW n \in Names, HeaderFaults(n) PROVE IInv'
  BY <1>5, HeaderFaultsStep
<1>6. ASSUME NEW n \in Names, NEW h \in Handles, Open(h, n) PROVE IInv'
  BY <1>6, OpenStep
<1>7. ASSUME WriteHeader PROVE IInv'
  BY <1>7, WriteHeaderStep
<1>8. ASSUME WriteTable PROVE IInv'
  <2>1. Updating("create", "table") \/ Updating("remove", "table")
    BY <1>8 DEF WriteTable
  <2>2. QED
    BY <1>8, <2>1, CreateTableStep, RemoveTableStep
<1>9. ASSUME WriteMap PROVE IInv'
  <2>1. Updating("create", "map") \/ Updating("remove", "map")
    BY <1>9 DEF WriteMap
  <2>2. QED
    BY <1>9, <2>1, CreateMapStep, RemoveMapStep
<1>10. ASSUME WriteAt PROVE IInv'
  BY <1>10, WriteAtStep
<1>11. ASSUME WriteBeyond PROVE IInv'
  BY <1>11, WriteBeyondStep
<1>12. ASSUME NEW h \in Handles, Write(h) PROVE IInv'
  BY <1>12, WriteStep
<1>13. ASSUME NEW h \in Handles, Close(h) PROVE IInv'
  BY <1>13, CloseStep
<1>14. ASSUME Crash PROVE IInv'
  BY <1>14, CrashStep
<1>15. ASSUME UNCHANGED vars PROVE IInv'
  <2>1. fault \in BOOLEAN /\ (~ astray => (fault => overrun))
    BY DEF IInv, TypeOK, Good
  <2>2. /\ UNCHANGED <<freeMap, table, disk, open, op, lost, astray, overrun>>
        /\ fault' = fault
    BY <1>15 DEF vars
  <2>3. QED
    BY <2>1, <2>2, SameIInv
<1>16. ASSUME NEW n \in Names, NEW size \in Sizes, CreateFails(n, size) PROVE UNCHANGED vars
  BY <1>16 DEF CreateFails
<1>17. ASSUME NEW n \in Names, RemoveFails(n) PROVE UNCHANGED vars
  BY <1>17 DEF RemoveFails
<1>18. QED
  BY <1>1, <1>2, <1>3, <1>4, <1>5, <1>6, <1>7, <1>8, <1>9, <1>10, <1>11, <1>12, <1>13, <1>14,
     <1>15, <1>16, <1>17 DEF Next

\* Between operations every file that no accident has hit is consistent.
LEMMA IInvConsistent == IInv => DiskConsistent
<1> SUFFICES ASSUME IInv, ~ astray
             PROVE  /\ fault => overrun
                    /\ op = None =>
                         /\ \A e \in Sound :
                              /\ IsHeader(table[e].sector)
                              /\ table[e].sector \notin SectorsOf(disk[table[e].sector])
                              /\ FileSectors(e) \subseteq freeMap \ SystemSectors
                         /\ \A e, f \in Sound : e # f =>
                              /\ table[e].name # table[f].name
                              /\ FileSectors(e) \cap FileSectors(f) = {}
                         /\ SystemSectors \subseteq freeMap
                         /\ lost = {} /\ ~ overrun =>
                              freeMap = SystemSectors \cup UNION {FileSectors(e) : e \in Used}
  BY DEF DiskConsistent
<1>1. fault => overrun
  BY DEF IInv, Good
<1>2. SUFFICES ASSUME op = None
               PROVE  /\ \A e \in Sound :
                           /\ IsHeader(table[e].sector)
                           /\ table[e].sector \notin SectorsOf(disk[table[e].sector])
                           /\ FileSectors(e) \subseteq freeMap \ SystemSectors
                      /\ \A e, f \in Sound : e # f =>
                           /\ table[e].name # table[f].name
                           /\ FileSectors(e) \cap FileSectors(f) = {}
                      /\ SystemSectors \subseteq freeMap
                      /\ lost = {} /\ ~ overrun =>
                           freeMap = SystemSectors \cup UNION {FileSectors(e) : e \in Used}
  BY <1>1
<1>3. Files(disk, table, Sound, freeMap, lost, overrun) /\ Agree(disk, table, Sound, freeMap)
  BY <1>2, IdleGood DEF Sound, Files
<1>4. \A e : FileSectors(e) = Owned(disk, table, e)
  BY DEF FileSectors, Owned
<1>5. ASSUME NEW e \in Sound
      PROVE  /\ IsHeader(table[e].sector)
             /\ table[e].sector \notin SectorsOf(disk[table[e].sector])
             /\ FileSectors(e) \subseteq freeMap \ SystemSectors
  <2>1. Proper(disk, table, e, freeMap)
    BY <1>3 DEF Agree
  <2>2. IsHeader(table[e].sector)
    BY <2>1 DEF Proper, Shaped, FileHeaders, IsHeader
  <2>3. QED
    BY <1>4, <2>1, <2>2 DEF Proper
<1>6. ASSUME NEW e \in Sound, NEW f \in Sound, e # f
      PROVE  table[e].name # table[f].name /\ FileSectors(e) \cap FileSectors(f) = {}
  <2>1. e \in Nat /\ f \in Nat /\ e \in Entries /\ f \in Entries
    BY EntriesNat DEF Sound, Used
  <2>2. table[e].name # table[f].name
    <3>1. SUFFICES ASSUME table[e].name = table[f].name PROVE FALSE
      OBVIOUS
    <3>2. e < f /\ f < e
      BY <1>3, <1>6, <2>1, <3>1 DEF Agree
    <3>3. QED
      BY <2>1, <3>2
  <2>3. Owned(disk, table, e) \cap Owned(disk, table, f) = {}
    BY <1>3, <1>6 DEF Agree
  <2>4. QED
    BY <1>4, <2>2, <2>3
<1>7. SystemSectors \subseteq freeMap
  BY <1>3 DEF Agree
<1>8. ASSUME lost = {}, ~ overrun
      PROVE  freeMap = SystemSectors \cup UNION {FileSectors(e) : e \in Used}
  <2>1. Sound = Used
    BY <1>8 DEF Sound
  <2>2. freeMap \subseteq SystemSectors \cup UNION {Owned(disk, table, e) : e \in Used}
    BY <1>3, <1>8, <2>1 DEF Files, Exact
  <2>3. \A e \in Used : FileSectors(e) \subseteq freeMap /\ FileSectors(e) = Owned(disk, table, e)
    BY <1>4, <1>5, <2>1
  <2>4. QED
    BY <1>7, <2>2, <2>3
<1>9. QED
  BY <1>5, <1>6, <1>7, <1>8

\* The variables of the disk, of the files open on it and of the operation in
\* progress have their types: at every step of Create, Remove and a write, and
\* after a crash between two of them.
THEOREM DiskTypeTheorem == Spec => []TypeOK
<1>1. Init => IInv
  BY InitIInv
<1>2. IInv /\ [Next]_vars => IInv'
  BY NextIInv
<1>3. IInv => TypeOK
  BY DEF IInv
<1>4. QED
  BY <1>1, <1>2, <1>3, PTL DEF Spec

\* The files on disk have their sectors to themselves and the bitmap has them
\* marked, whatever Create, Remove, WriteAt and crashes between any two of their
\* writes do, unless a file that an accident has hit is opened or removed
\* (DiskConsistent): for every size of the disk, of its sectors, of a header and of
\* the directory, and wherever its entries lie across sectors.
THEOREM DiskConsistentTheorem == Spec => []DiskConsistent
<1>1. Init => IInv
  BY InitIInv
<1>2. IInv /\ [Next]_vars => IInv'
  BY NextIInv
<1>3. IInv => DiskConsistent
  BY IInvConsistent
<1>4. QED
  BY <1>1, <1>2, <1>3, PTL DEF Spec

-----------------------------------------------------------------------------
(* What files hold *)

\* What disk D holds at offset o of sector s, and in the file of header hdr.
Stored(D, s, o) == IF D[s].kind = "header" THEN Junk ELSE D[s].bytes[o]
Content(D, hdr) ==
  [k \in 1 .. hdr.numBytes |->
     Stored(D, hdr.dataSectors[((k - 1) \div SectorSize) + 1], (k - 1) % SectorSize)]

\* Quotient and remainder.
LEMMA ModBounds ==
  ASSUME NEW s \in Nat \ {0}, NEW a \in Nat
  PROVE  a % s \in 0 .. s - 1 /\ a = (a \div s) * s + (a % s) /\ a \div s \in Nat
  OBVIOUS

\* Products keep the order.
LEMMA TimesMonotone ==
  ASSUME NEW s \in Nat \ {0}, NEW p \in Int, NEW q \in Int, p <= q
  PROVE  p * s <= q * s
  OBVIOUS

\* A header has a sector for every byte, and no more.
LEMMA LenSectors ==
  ASSUME NEW hdr, WellFormed(hdr)
  PROVE  /\ SectorSize \in Nat \ {0} /\ hdr.numBytes \in Nat \ {0}
         /\ hdr.dataSectors \in Seq(Sectors) /\ hdr.kind = "header"
         /\ Len(hdr.dataSectors) = ((hdr.numBytes - 1) \div SectorSize) + 1
<1> DEFINE S == SectorSize
           N == hdr.numBytes
<1>1. S \in Nat \ {0} /\ N \in Nat \ {0} /\ hdr.dataSectors \in Seq(Sectors) /\ hdr.kind = "header"
  BY SizeAssumption DEF WellFormed, FileHeaders
<1>2. Len(hdr.dataSectors) = (N + S - 1) \div S
  BY DEF WellFormed, NumSectorsOf, divRoundUp
<1> HIDE DEF S, N
<1>3. ((N - 1) + S) \div S = ((N - 1) \div S) + 1
  <2>1. N - 1 \in Int /\ S \in Nat \ {0}
    BY <1>1
  <2>2. QED
    BY <2>1, DivShift
<1>4. (N - 1) + S = N + S - 1
  BY <1>1
<1>5. QED
  BY <1>1, <1>2, <1>3, <1>4 DEF S, N

\* The sector of byte k, counted from zero.
LEMMA ByteSector ==
  ASSUME NEW hdr, WellFormed(hdr), NEW k \in 0 .. hdr.numBytes - 1
  PROVE  /\ k \div SectorSize \in Nat /\ k % SectorSize \in Offsets
         /\ (k \div SectorSize) + 1 \in 1 .. Len(hdr.dataSectors)
         /\ hdr.dataSectors[(k \div SectorSize) + 1] \in SectorsOf(hdr)
         /\ hdr.dataSectors[(k \div SectorSize) + 1] \in Sectors
<1> DEFINE S == SectorSize
           N == hdr.numBytes
           l == Len(hdr.dataSectors)
           q == k \div S
<1>1. S \in Nat \ {0} /\ N \in Nat \ {0} /\ hdr.dataSectors \in Seq(Sectors)
      /\ l = ((N - 1) \div S) + 1
  BY LenSectors
<1>2. k \in Nat /\ N - 1 \in Int /\ k <= N - 1
  BY <1>1
<1>3. q <= (N - 1) \div S /\ (N - 1) \div S \in Int
  <2> HIDE DEF S, N
  <2>1. k \in Int /\ N - 1 \in Int /\ k <= N - 1 /\ S \in Nat \ {0}
    BY <1>1, <1>2
  <2>2. k \div S <= (N - 1) \div S
    BY <2>1, DivMonotone
  <2>3. (N - 1) \div S \in Int
    BY <2>1, DivBounds
  <2>4. QED
    BY <2>2, <2>3
<1>4. q \in Nat /\ k % S \in 0 .. S - 1
  BY <1>1, <1>2, ModBounds
<1> HIDE DEF q, l
<1>5. q + 1 \in 1 .. l
  BY <1>1, <1>3, <1>4
<1>6. DOMAIN hdr.dataSectors = 1 .. l
  BY <1>1 DEF l
<1>7. QED
  BY <1>1, <1>4, <1>5, <1>6, ElementOfSeq DEF q, l, SectorsOf, Range, Offsets

\* ReadAll gives what the sectors hold.
LEMMA ReadAllIs ==
  ASSUME NEW hdr, WellFormed(hdr)
  PROVE  ReadAll(hdr) = Content(disk, hdr)
<1> DEFINE N == hdr.numBytes
<1>1. N \in Nat /\ FileLength(hdr) = N
  BY LenSectors DEF FileLength
<1>2. Min({N, N - 0}) = N
  <2> HIDE DEF N
  <2>1. {N, N - 0} = {N}
    BY <1>1
  <2>2. Min({N}) = N
    BY <1>1 DEF Min
  <2>3. QED
    BY <2>1, <2>2
<1>3. \A k \in 1 .. N : 0 + k - 1 = k - 1
  BY <1>1
<1>4. QED
  BY <1>1, <1>2, <1>3 DEF ReadAll, ReadAt, Content, Stored, ByteOf, IsHeader

\* A file is untouched when its sectors are.
LEMMA ContentSame ==
  ASSUME NEW hdr, WellFormed(hdr), NEW C, NEW D, \A s \in SectorsOf(hdr) : D[s] = C[s]
  PROVE  Content(D, hdr) = Content(C, hdr)
<1>1. ASSUME NEW k \in 1 .. hdr.numBytes
      PROVE  hdr.dataSectors[((k - 1) \div SectorSize) + 1] \in SectorsOf(hdr)
  <2>1. k - 1 \in 0 .. hdr.numBytes - 1
    BY LenSectors
  <2>2. QED
    BY <2>1, ByteSector
<1>2. QED
  BY <1>1 DEF Content, Stored

\* Which of a file's bytes lie in the sectors that are written, of n bytes from
\* pos on: these; before them some of the first sector, if they do not begin
\* with it; behind them some of the last, if they do not end with it.
LEMMA AroundWrite ==
  ASSUME NEW S \in Nat \ {0}, NEW pos \in Nat, NEW n \in Nat \ {0}, NEW k \in Nat
  PROVE  LET first == pos \div S
             last == (pos + n - 1) \div S
         IN  /\ k \in pos .. pos + n - 1 => k \div S \in first .. last
             /\ k \div S \in first .. last /\ k < pos => k \div S = first /\ pos % S # 0
             /\ k \div S \in first .. last /\ k > pos + n - 1 => k \div S = last /\ (pos + n) % S # 0
<1> DEFINE first == pos \div S
           last == (pos + n - 1) \div S
           i == k \div S
           e == pos + n - 1
           q == (pos + n) \div S
<1>1. e \in Nat /\ pos <= e /\ pos + n = e + 1
  OBVIOUS
<1>2. /\ first \in Int /\ last \in Int /\ i \in Int /\ q \in Int
      /\ first * S <= pos /\ pos < first * S + S
      /\ last * S <= e /\ e < last * S + S
      /\ i * S <= k /\ k < i * S + S
      /\ first * S \in Int /\ last * S \in Int /\ i * S \in Int /\ q * S \in Int
  BY <1>1, DivBounds
<1>3. pos % S = 0 => pos = first * S
  BY ModBounds
<1>4. (pos + n) % S = 0 => pos + n = q * S
  <2>1. pos + n \in Nat
    OBVIOUS
  <2>2. (pos + n) = ((pos + n) \div S) * S + ((pos + n) % S)
    BY <2>1, ModBounds
  <2>3. QED
    BY <1>2, <2>2
<1>5. k >= pos => first <= i
  BY DivMonotone
<1>6. k <= pos => i <= first
  BY DivMonotone
<1>7. k <= e => i <= last
  BY <1>1, DivMonotone
<1>8. k >= e => last <= i
  BY <1>1, DivMonotone
<1>9. /\ q <= last => q * S <= last * S
      /\ q >= last + 1 => (last + 1) * S <= q * S
      /\ (last + 1) * S = last * S + S
  BY <1>2, TimesMonotone
<1> HIDE DEF first, last, i, e, q
<1>10. k \in pos .. e => i \in first .. last
  BY <1>1, <1>2, <1>5, <1>7
<1>11. i \in first .. last /\ k < pos => i = first /\ pos % S # 0
  <2>1. SUFFICES ASSUME i \in first .. last, k < pos PROVE i = first /\ pos % S # 0
    OBVIOUS
  <2>2. i = first
    BY <2>1, <1>2, <1>6
  <2>3. pos # first * S
    BY <2>1, <2>2, <1>2
  <2>4. QED
    BY <2>2, <2>3, <1>3
<1>12. i \in first .. last /\ k > e => i = last /\ (pos + n) % S # 0
  <2>1. SUFFICES ASSUME i \in first .. last, k > e PROVE i = last /\ (pos + n) % S # 0
    OBVIOUS
  <2>2. i = last
    BY <2>1, <1>1, <1>2, <1>8
  <2>3. k < last * S + S
    BY <2>2, <1>2
  <2>4. pos + n # q * S
    <3>1. SUFFICES ASSUME pos + n = q * S PROVE FALSE
      OBVIOUS
    <3>2. q * S <= k /\ q * S > e
      BY <2>1, <3>1, <1>1
    <3>3. CASE q <= last
      BY <3>2, <3>3, <1>1, <1>2, <1>9
    <3>4. CASE q >= last + 1
      BY <2>3, <3>2, <3>4, <1>2, <1>9
    <3>5. QED
      BY <3>3, <3>4, <1>2
  <2>5. QED
    BY <2>2, <2>4, <1>4
<1>13. QED
  BY <1>10, <1>11, <1>12 DEF first, last, i, e

\* Byte k of the buffer, if it lies in a sector that is written: the data, or
\* else what is on disk.
Buffered(hdr, from, pos, n, k) ==
  k \in 0 .. hdr.numBytes - 1
  /\ k \div SectorSize \in (pos \div SectorSize) .. ((pos + n - 1) \div SectorSize) =>
    BufAt(hdr, from, pos, n, k)
      = IF k \in pos .. pos + n - 1 THEN from[k - pos + 1] ELSE Content(disk, hdr)[k + 1]
LEMMA BufAtIs ==
  ASSUME NEW hdr, WellFormed(hdr), NEW from, NEW pos \in Nat, NEW n \in Nat \ {0}
  PROVE  \A k : Buffered(hdr, from, pos, n, k)
<1> SUFFICES ASSUME NEW k \in 0 .. hdr.numBytes - 1,
               k \div SectorSize \in (pos \div SectorSize) .. ((pos + n - 1) \div SectorSize)
             PROVE  BufAt(hdr, from, pos, n, k)
                      = IF k \in pos .. pos + n - 1 THEN from[k - pos + 1]
                        ELSE Content(disk, hdr)[k + 1]
  BY DEF Buffered
<1> DEFINE first == pos \div SectorSize
           last == (pos + n - 1) \div SectorSize
           firstAligned == pos % SectorSize = 0
           lastAligned == (pos + n) % SectorSize = 0
           readIn == \/ ~ firstAligned /\ k \div SectorSize = first
                     \/ ~ lastAligned /\ (first # last \/ firstAligned) /\ k \div SectorSize = last
<1>1. SectorSize \in Nat \ {0} /\ hdr.numBytes \in Nat
  BY LenSectors
<1>2. k \in Nat /\ k < hdr.numBytes
  BY <1>1
<1>3. ASSUME k \notin pos .. pos + n - 1 PROVE readIn
  <2>1. /\ k < pos => k \div SectorSize = first /\ ~ firstAligned
        /\ k > pos + n - 1 => k \div SectorSize = last /\ ~ lastAligned
    BY <1>1, <1>2, AroundWrite
  <2>2. k < pos \/ k > pos + n - 1
    BY <1>2, <1>3
  <2> HIDE DEF first, last, firstAligned, lastAligned
  <2>3. QED
    BY <2>1, <2>2
<1>4. ReadAll(hdr) = Content(disk, hdr)
  BY ReadAllIs
<1>5. BufAt(hdr, from, pos, n, k)
        = IF k \in pos .. pos + n - 1 THEN from[k - pos + 1]
          ELSE IF readIn /\ k < hdr.numBytes THEN ReadAll(hdr)[k + 1] ELSE Junk
  BY DEF BufAt
<1> HIDE DEF readIn
<1>6. QED
  BY <1>2, <1>3, <1>4, <1>5

\* Numbers that lie in the first n of l and before N, when n is l or N follows.
LEMMA InRequest ==
  ASSUME NEW pos \in Nat, NEW n \in Nat, NEW l \in Nat, NEW N \in Nat,
         n <= l, pos + n <= N, n = l \/ pos + n = N, NEW m \in 1 .. N
  PROVE  m - 1 \in pos .. pos + n - 1 <=> m \in pos + 1 .. pos + l
  OBVIOUS

\* One sector of a write: the file holds the part of the data that goes there.
OneSector(hdr, from, pos, n, i, D) ==
  /\ WellFormed(hdr) /\ Distinct(hdr)
  /\ Len(from) \in Nat /\ pos \in Nat /\ n \in Nat \ {0} /\ i \in Nat
  /\ n <= Len(from) /\ pos + n <= hdr.numBytes
  /\ n = Len(from) \/ pos + n = hdr.numBytes
  /\ i \in (pos \div SectorSize) .. ((pos + n - 1) \div SectorSize)
  /\ i + 1 \in 1 .. Len(hdr.dataSectors)
  /\ D[hdr.dataSectors[i + 1]]
       = [kind |-> "data",
          bytes |-> [o \in Offsets |-> BufAt(hdr, from, pos, n, i * SectorSize + o)]]
  /\ \A t \in Sectors : t # hdr.dataSectors[i + 1] => D[t] = disk[t]
LEMMA WroteByte ==
  ASSUME NEW hdr, NEW from, NEW pos, NEW n, NEW i, NEW D, OneSector(hdr, from, pos, n, i, D)
  PROVE  Content(D, hdr) = Updated(Content(disk, hdr), from, pos, i)
<1> USE DEF OneSector
<1>0. \A x : Buffered(hdr, from, pos, n, x)
  BY BufAtIs
<1> DEFINE N == hdr.numBytes
           S == SectorSize
           l == Len(from)
           s == hdr.dataSectors[i + 1]
           old == Content(disk, hdr)
<1>1. S \in Nat \ {0} /\ N \in Nat \ {0}
  BY LenSectors
<1>2. DOMAIN old = 1 .. N
  BY DEF Content
<1>3. ASSUME NEW m \in 1 .. N
      PROVE  Content(D, hdr)[m] = IF m \in pos + 1 .. pos + l /\ (m - 1) \div S = i
                                  THEN from[m - pos] ELSE old[m]
  <2> DEFINE k == m - 1
             j == k \div S
             t == hdr.dataSectors[j + 1]
             o == k % S
  <2>1. k \in 0 .. N - 1 /\ k \in Nat /\ k + 1 = m /\ k - pos + 1 = m - pos
    BY <1>1
  <2>2. /\ j \in Nat /\ o \in Offsets /\ j + 1 \in 1 .. Len(hdr.dataSectors) /\ t \in Sectors
    BY <2>1, ByteSector
  <2>3. j * S + o = k
    <3> HIDE DEF k, S
    <3>1. k = (k \div S) * S + (k % S)
      BY <1>1, <2>1, ModBounds
    <3>2. QED
      BY <3>1
  <2>4. Content(D, hdr)[m] = Stored(D, t, o) /\ old[m] = Stored(disk, t, o)
    BY DEF Content
  <2>5. CASE j = i
    <3> DEFINE B == [p \in Offsets |-> BufAt(hdr, from, pos, n, i * S + p)]
    <3>1. t = s /\ D[s] = [kind |-> "data", bytes |-> B]
      BY <2>5
    <3>2. B[o] = BufAt(hdr, from, pos, n, k)
      <4> HIDE DEF o, j, k
      <4>1. QED
        BY <2>2, <2>3, <2>5
    <3> HIDE DEF B, s, t, o
    <3>3. Stored(D, t, o) = BufAt(hdr, from, pos, n, k)
      BY <3>1, <3>2 DEF Stored
    <3>4. k \div SectorSize \in (pos \div SectorSize) .. ((pos + n - 1) \div SectorSize)
      BY <2>5
    <3> HIDE DEF k, j
    <3>5. BufAt(hdr, from, pos, n, k)
            = IF k \in pos .. pos + n - 1 THEN from[k - pos + 1] ELSE Content(disk, hdr)[k + 1]
      <4>1. k \in 0 .. hdr.numBytes - 1
        BY <2>1
      <4>2. QED
        BY <1>0, <3>4, <4>1 DEF Buffered
    <3>6. k \in pos .. pos + n - 1 <=> m \in pos + 1 .. pos + l
      <4> HIDE DEF N, l
      <4>1. m - 1 \in pos .. pos + n - 1 <=> m \in pos + 1 .. pos + l
        BY <1>1, InRequest DEF N, l
      <4>2. QED
        BY <4>1 DEF k
    <3>7. Content(D, hdr)[m] = IF m \in pos + 1 .. pos + l THEN from[m - pos] ELSE old[m]
      BY <2>1, <2>4, <3>3, <3>5, <3>6
    <3>8. (m - 1) \div S = i
      BY <2>5 DEF j, k
    <3> HIDE DEF old, l, S
    <3>9. QED
      BY <3>7, <3>8
  <2>6. CASE j # i
    <3>1. t # s
      <4>1. j + 1 # i + 1
        <5> HIDE DEF j
        <5>1. QED
          BY <2>2, <2>6
      <4>2. QED
        BY <2>2, <4>1 DEF Distinct
    <3>2. Stored(D, t, o) = Stored(disk, t, o)
      BY <2>2, <3>1 DEF Stored
    <3>3. (m - 1) \div S # i
      BY <2>6
    <3> HIDE DEF old, l, S, t, o
    <3>4. QED
      BY <2>4, <3>2, <3>3
  <2>7. QED
    BY <2>5, <2>6
<1>4. Content(D, hdr) = [m \in 1 .. N |-> Content(D, hdr)[m]]
  BY DEF Content
<1> HIDE DEF old
<1>5. QED
  BY <1>2, <1>3, <1>4 DEF Updated, old

-----------------------------------------------------------------------------
(* What was written to files *)

\* The files S of directory T on disk D hold what C says, and C says nothing of
\* others.
Kept(D, T, S, C) == \A e \in S : Fits(D[T[e].sector]) => C[T[e].name] = Content(D, D[T[e].sector])
Listed(T, S, C) == \A n \in Names : C[n] # <<>> => \E e \in S : T[e].name = n
KInv ==
  /\ contents = [n \in Names |-> contents[n]]
  /\ ~ astray => /\ Kept(disk, table, SoundNow, contents)
                 /\ lost = {} /\ ~ overrun => Listed(table, SoundNow, contents)

\* What is known of a file that no accident has hit.
LEMMA SoundFile ==
  ASSUME IInv, ~ astray, NEW e \in SoundNow
  PROVE  /\ e \in Entries /\ e \in Used /\ table[e].name \in Names
         /\ Shaped(disk[table[e].sector]) /\ Distinct(disk[table[e].sector])
         /\ Fits(disk[table[e].sector]) => WellFormed(disk[table[e].sector])
         /\ Owned(disk, table, e) \subseteq freeMap /\ freeMap \subseteq Sectors
         /\ \A f \in SoundNow : e # f => /\ table[e].name # table[f].name
                                        /\ Owned(disk, table, e) \cap Owned(disk, table, f) = {}
<1>1. Agree(disk, table, SoundNow, freeMap) /\ freeMap \subseteq Sectors
  BY DEF IInv, Good, Files, TypeOK
<1>2. /\ e \in Entries /\ table[e].inUse /\ table[e].name \in Names
      /\ Shaped(disk[table[e].sector]) /\ Owned(disk, table, e) \subseteq freeMap
  BY <1>1 DEF Agree, Proper
<1>3. Fits(disk[table[e].sector]) => WellFormed(disk[table[e].sector])
  BY <1>2, RoomyWellFormed
<1>4. ASSUME NEW f \in SoundNow, e # f
      PROVE  table[e].name # table[f].name /\ Owned(disk, table, e) \cap Owned(disk, table, f) = {}
  <2>1. f \in Entries /\ e \in Nat /\ f \in Nat
    BY <1>1, <1>2, EntriesNat DEF Agree
  <2>2. table[e].name # table[f].name
    <3>1. SUFFICES ASSUME table[e].name = table[f].name PROVE FALSE
      OBVIOUS
    <3>2. e < f /\ f < e
      BY <1>1, <1>2, <1>4, <2>1, <3>1 DEF Agree
    <3>3. QED
      BY <2>1, <3>2
  <2>3. QED
    BY <1>1, <1>4, <2>2 DEF Agree
<1>5. QED
  BY <1>1, <1>2, <1>3, <1>4 DEF Used, Shaped

\* A step that leaves these files alone and writes nothing to them.
LEMMA KeptSame ==
  ASSUME IInv, KInv, contents' = contents, lost' = {} => lost = {}, overrun => overrun',
         astray => astray',
         ~ astray' =>
           /\ SoundNow' = SoundNow
           /\ \A e \in SoundNow : /\ table'[e] = table[e]
                                  /\ \A s \in Owned(disk, table, e) : disk'[s] = disk[s]
  PROVE  KInv'
<1>1. ASSUME ~ astray'
      PROVE  /\ Kept(disk', table', SoundNow', contents')
             /\ lost' = {} /\ ~ overrun' => Listed(table', SoundNow', contents')
  <2>1. /\ ~ astray /\ Kept(disk, table, SoundNow, contents)
        /\ lost = {} /\ ~ overrun => Listed(table, SoundNow, contents)
    BY <1>1 DEF KInv
  <2>2. /\ SoundNow' = SoundNow
        /\ \A e \in SoundNow : table'[e] = table[e] /\ disk'[table[e].sector] = disk[table[e].sector]
    BY <1>1 DEF Owned
  <2>3. ASSUME NEW e \in SoundNow, Fits(disk[table[e].sector])
        PROVE  contents[table[e].name] = Content(disk', disk[table[e].sector])
    <3> DEFINE hdr == disk[table[e].sector]
    <3>1. WellFormed(hdr)
      BY <2>1, <2>3, SoundFile
    <3>2. \A s \in SectorsOf(hdr) : disk'[s] = disk[s]
      BY <1>1 DEF Owned
    <3>3. contents[table[e].name] = Content(disk, hdr)
      BY <2>1, <2>3 DEF Kept
    <3> HIDE DEF hdr
    <3>4. Content(disk', hdr) = Content(disk, hdr)
      BY <3>1, <3>2, ContentSame
    <3>5. QED
      BY <3>3, <3>4 DEF hdr
  <2>4. Kept(disk', table', SoundNow', contents')
    BY <2>2, <2>3 DEF Kept
  <2>5. Listed(table, SoundNow, contents) => Listed(table', SoundNow', contents')
    BY <2>2 DEF Listed
  <2>6. QED
    BY <2>1, <2>4, <2>5
<1>2. contents' = [n \in Names |-> contents'[n]]
  BY DEF KInv
<1>3. QED
  BY <1>1, <1>2 DEF KInv

\* Of such a step, in particular, one after which the directory, the disk and the
\* entries that are sound are the same.
LEMMA KeptStill ==
  ASSUME IInv, KInv, UNCHANGED <<table, disk, contents>>, lost' = {} => lost = {},
         overrun => overrun', astray => astray', ~ astray' => SoundNow' = SoundNow
  PROVE  KInv'
  BY KeptSame

LEMMA InitKInv == Init => KInv
<1> SUFFICES ASSUME Init PROVE KInv
  OBVIOUS
<1>1. Used = {}
  BY DEF Init, Directory, Used
<1>2. SoundNow = {}
  BY <1>1 DEF SoundNow
<1>3. contents = [n \in Names |-> contents[n]] /\ \A n \in Names : contents[n] = <<>>
  BY DEF Init
<1>4. QED
  BY <1>2, <1>3 DEF KInv, Kept, Listed

\* Operations that begin, without a write.
LEMMA KeptBegin ==
  ASSUME IInv, IInv', KInv, op = None, UNCHANGED <<table, disk, contents, lost>>,
         overrun => overrun', astray => astray',
         \/ op' = None \/ Transferring' \/ Updating("remove", "map")'
         \/ Creating' /\ op'.entry \notin Used
  PROVE  KInv'
<1>1. TypeOK /\ TypeOK'
  BY DEF IInv
<1>2. SoundNow = Used \ lost /\ Used' = Used
  BY <1>1, SoundIs DEF Used
<1>3. CASE op' = None \/ Transferring' \/ Updating("remove", "map")'
  <2>1. SoundNow' = (Used \ lost)'
    <3>1. ~ Creating' /\ ~ Updating("remove", "table")'
      BY <1>3 DEF Creating, Updating, Transferring
    <3>2. QED
      BY <3>1 DEF SoundNow
  <2>2. SoundNow' = SoundNow
    BY <1>2, <2>1
  <2>3. QED
    BY <2>2, KeptStill
<1>4. CASE Creating' /\ op'.entry \notin Used
  <2>1. SoundNow' = (Used \ lost)' \ {op'.entry}
    BY <1>4 DEF SoundNow
  <2>2. SoundNow' = SoundNow
    BY <1>2, <1>4, <2>1
  <2>3. QED
    BY <2>2, KeptStill
<1>5. QED
  BY <1>3, <1>4

LEMMA CreateKInv ==
  ASSUME IInv, IInv', KInv, NEW n, NEW size, NEW data, CreateFor(n, size, data)
  PROVE  KInv'
<1>1. /\ op = None /\ Used # Entries
      /\ overrun' = (overrun \/ NumSectorsOf(size) > NumDirect)
      /\ UNCHANGED <<table, disk, contents, lost, astray>>
  BY DEF CreateFor, CanCreate, Idle
<1>2. op'.do = "create" /\ op'.entry = FirstUnused
  BY DEF CreateFor
<1>3. op'.entry \notin Used
  BY <1>1, <1>2, FirstUnusedIs
<1>4. Creating' \/ op' = None
  BY <1>2 DEF Creating
<1>5. overrun => overrun'
  BY <1>1
<1>6. QED
  BY <1>1, <1>3, <1>4, <1>5, KeptBegin

LEMMA RemoveKInv ==
  ASSUME IInv, IInv', KInv, NEW n, Remove(n)
  PROVE  KInv'
<1>1. op = None /\ UNCHANGED <<table, disk, contents, lost, overrun>> /\ (astray => astray')
  BY DEF Remove, Idle, Stray
<1>2. op'.do = "remove" /\ op'.step = "map"
  BY DEF Remove, Removal
<1>3. op' = None \/ Updating("remove", "map")'
  BY <1>2 DEF Updating
<1>4. QED
  BY <1>1, <1>3, KeptBegin

LEMMA WriteKInv ==
  ASSUME IInv, IInv', KInv, NEW h, Write(h)
  PROVE  KInv'
<1>1. op = None /\ UNCHANGED <<table, disk, contents, lost, astray, overrun>>
  BY DEF Write, Idle, history
<1>2. op'.do = "write"
  BY DEF Write, Transfer
<1>3. op' = None \/ Transferring'
  BY <1>2 DEF Transferring
<1>4. QED
  BY <1>1, <1>3, KeptBegin

\* The rest changes neither the disk nor the operation in progress.
LEMMA SameKInv ==
  ASSUME IInv, KInv, UNCHANGED <<table, disk, op, contents, lost>>, overrun => overrun',
         astray => astray'
  PROVE  KInv'
<1>1. SoundNow' = SoundNow
  BY DEF SoundNow, Used, Creating, Updating
<1>2. QED
  BY <1>1, KeptStill

-----------------------------------------------------------------------------
(* Create and Remove *)

\* The sector of the new header is no file's.
LEMMA WriteHeaderKInv ==
  ASSUME IInv, KInv, WriteHeader
  PROVE  KInv'
<1>1. TypeOK /\ Creating /\ op \in Updates
  BY OpKinds DEF IInv, WriteHeader, Updating, Creating
<1>2. /\ disk' = [disk EXCEPT ![op.sector] = op.hdr]
      /\ op' = [op EXCEPT !.step = "table"]
      /\ UNCHANGED <<freeMap, table, open, contents, lost, astray, overrun, fault>>
  BY DEF WriteHeader, history
<1>3. op' \in Updates /\ op'.do = "create" /\ op'.entry = op.entry
  BY <1>1, <1>2 DEF Updates, Creating
<1>4. op' # None
  BY <1>3, NoneAssumption, Zenon
<1>5. SoundNow' = SoundNow
  <2>1. SoundNow = (Used \ lost) \ {op.entry} /\ SoundNow' = (Used \ lost)' \ {op'.entry}
    BY <1>1, <1>3, <1>4 DEF SoundNow, Creating
  <2>2. QED
    BY <1>2, <1>3, <2>1 DEF Used
<1>6. ASSUME ~ astray, NEW e \in SoundNow, NEW s \in Owned(disk, table, e)
      PROVE  disk'[s] = disk[s]
  <2>1. s \in freeMap /\ s \in Sectors
    BY <1>6, SoundFile
  <2>2. op.sector \notin freeMap
    BY <1>1, <1>6 DEF IInv, Good, CreateGood, NewFile
  <2>3. disk = [t \in Sectors |-> disk[t]]
    BY <1>1 DEF TypeOK
  <2>4. QED
    BY <1>2, <2>1, <2>2, <2>3
<1>7. QED
  BY <1>2, <1>5, <1>6, KeptSame

\* A sector of the directory changes nothing but the entry of the operation, and
\* that is no sound one.
LEMMA WriteTableKInv ==
  ASSUME IInv, IInv', KInv, WriteTable
  PROVE  KInv'
<1> DEFINE x == op.entry
<1>1. TypeOK /\ (Creating \/ (Updating("remove", "table") /\ Removing)) /\ op \in Updates
  <2>1. Updating("create", "table") \/ Updating("remove", "table")
    BY DEF WriteTable
  <2>2. TypeOK /\ (Creating \/ (Updating("remove", "table") /\ Removing))
    BY <2>1, SoundIs DEF IInv
  <2>3. QED
    BY <2>2, OpKinds
<1>2. /\ table' = TableSector(op.table, op.at)
      /\ UNCHANGED <<freeMap, disk, open, contents, lost, astray, overrun, fault>>
  BY DEF WriteTable, history
<1>3. /\ \A f \in Entries : f # x => table'[f] = table[f]
      /\ FlagSector[x] = op.at => table'[x].inUse = op.table[x].inUse
      /\ FlagSector[x] # op.at => table'[x].inUse = table[x].inUse
  <2>1. table \in Directories /\ x \in Entries
    BY <1>1 DEF TypeOK, Updates
  <2>2. \A f \in Entries : f # x => op.table[f] = table[f]
    BY <1>1, <2>1 DEF IInv, Progress, CreateProgress, RemoveProgress, Directories
  <2> DEFINE t == op.table
             d == op.at
             U == table'
  <2>3. t \in Directories /\ U = TableSector(t, d)
    BY <1>1, <1>2 DEF Updates
  <2> HIDE DEF t, d, U, x
  <2>4. /\ \A f \in Entries : f # x => U[f] = table[f]
        /\ FlagSector[x] = d => U[x].inUse = t[x].inUse
        /\ FlagSector[x] # d => U[x].inUse = table[x].inUse
    BY <2>1, <2>2, <2>3, TableSectorIs DEF t
  <2>5. QED
    BY <2>4 DEF U, t, d
<1>4. SoundNow = (Used \ lost) \ {x}
  BY <1>1, SoundIs
<1> HIDE DEF x
<1>5. SoundNow \subseteq Entries /\ x \notin SoundNow /\ Used' \ {x} = Used \ {x}
  BY <1>3, <1>4 DEF Used
<1>6. SoundNow' = SoundNow
  <2>1. SoundNow' \ {x} = SoundNow
    <3>1. op' = None \/ op'.entry = x
      BY <1>1 DEF WriteTable, Updates, x
    <3>2. SoundNow' = (Used \ lost)' \/ SoundNow' = (Used \ lost)' \ {x}
      BY <3>1 DEF SoundNow, Creating, Updating
    <3>3. QED
      BY <1>2, <1>4, <1>5, <3>2
  <2>2. x \notin SoundNow'
    <3>1. CASE op' # None
      <4>1. op'.entry = x /\ op'.do = op.do /\ (op.do = "remove" => op'.step = op.step)
        BY <1>1, <3>1 DEF WriteTable, Updates, x
      <4>2. Creating' \/ Updating("remove", "table")'
        BY <1>1, <3>1, <4>1 DEF Creating, Removing, Updating
      <4>3. QED
        BY <4>1, <4>2 DEF SoundNow
    <3>2. CASE op' = None
      <4>1. op.do = "remove" /\ ~ (op.at + 1 < DirSectors)
        <5>1. /\ [op EXCEPT !.at = @ + 1] \in Updates
              /\ [op EXCEPT !.step = "map"] \in Updates
          BY <1>1 DEF Updates
        <5>2. [op EXCEPT !.at = @ + 1] # None /\ [op EXCEPT !.step = "map"] # None
          BY <5>1, NoneAssumption, Zenon
        <5>3. op.do \in {"create", "remove"}
          BY <1>1 DEF Updates
        <5>4. QED
          BY <3>2, <5>2, <5>3 DEF WriteTable
      <4>2. RemoveProgress(op) /\ op.step = "table"
        BY <1>1, <4>1 DEF IInv, Progress, Updating, Removing, Creating
      <4>3. /\ FlagSector[x] \in 0 .. DirSectors - 1 /\ DirSectors \in Nat /\ op.at \in Nat
            /\ x \in Entries
        BY <1>1, DirAssumption, SectorsAssumption DEF Entries, Updates, x
      <4>4. FlagSector[x] = op.at \/ FlagSector[x] < op.at
        BY <4>1, <4>3
      <4>5. ~ op.table[x].inUse
        <5>1. op.table = [table EXCEPT ![x] = OldEntry(op)] /\ table \in Directories
          BY <1>1, <4>2 DEF RemoveProgress, TypeOK, x
        <5>2. op.table[x] = OldEntry(op)
          BY <4>3, <5>1 DEF Directories
        <5>3. QED
          BY <5>2 DEF OldEntry
      <4>6. FlagSector[x] < op.at => ~ table[x].inUse /\ FlagSector[x] # op.at
        BY <4>2, <4>3 DEF RemoveProgress, x
      <4>7. ~ table'[x].inUse
        BY <1>3, <4>4, <4>5, <4>6
      <4>8. QED
        BY <4>7 DEF SoundNow, Used
    <3>3. QED
      BY <3>1, <3>2
  <2>3. QED
    BY <2>1, <2>2
<1>7. \A e \in SoundNow : table'[e] = table[e]
  BY <1>3, <1>5
<1>8. QED
  BY <1>2, <1>6, <1>7, KeptSame

\* A file is there with what Allocate left in its sectors.
LEMMA CreateMapKInv ==
  ASSUME IInv, KInv, WriteMap, Updating("create", "map")
  PROVE  KInv'
<1> DEFINE x == op.entry
           n == op.name
<1>1. TypeOK /\ Creating /\ op \in Updates /\ op.do = "create" /\ op.step = "map"
  BY SoundIs, OpKinds DEF IInv, Updating
<1>2. CreateProgress(op) /\ n \in Names
  BY <1>1 DEF IInv, Progress, Updates
<1>3. /\ contents' = [contents EXCEPT ![n] = IF Fits(op.hdr) THEN ReadAll(op.hdr) ELSE <<>>]
      /\ UNCHANGED <<table, disk, lost, astray, overrun>>
  BY <1>1 DEF WriteMap
<1>4. contents = [m \in Names |-> contents[m]]
  BY DEF KInv
<1>5. /\ contents' = [m \in Names |-> contents'[m]]
      /\ contents'[n] = (IF Fits(op.hdr) THEN ReadAll(op.hdr) ELSE <<>>)
      /\ \A m \in Names : m # n => contents'[m] = contents[m]
  BY <1>2, <1>3, <1>4
<1>6. x \in Used /\ table[x].name = n /\ disk[table[x].sector] = op.hdr
  BY <1>1, <1>2, FindNew DEF NewEntry
<1>7. SoundNow = (Used \ lost) \ {x} /\ SoundNow' = Used \ lost
  <2>1. op' = None \/ op'.do = "copy"
    BY <1>1 DEF WriteMap, Transfer
  <2>2. SoundNow' = (Used \ lost)'
    BY <2>1 DEF SoundNow, Creating, Updating
  <2>3. QED
    BY <1>1, <1>3, <2>2, SoundIs DEF Used
<1>8. ASSUME ~ astray
      PROVE  /\ Kept(disk, table, SoundNow', contents')
             /\ lost = {} /\ ~ overrun => Listed(table, SoundNow', contents')
  <2>1. x \notin lost /\ Shaped(op.hdr)
    BY <1>1, <1>8 DEF IInv, Good, CreateGood
  <2>2. SoundNow' = SoundNow \cup {x}
    BY <1>6, <1>7, <2>1
  <2>3. ASSUME NEW e \in SoundNow PROVE table[e].name \in Names /\ table[e].name # n
    <3>1. e \in Entries /\ e # x /\ table[e].inUse /\ table[e].name \in Names
      BY <1>7, <1>8, SoundFile DEF Used
    <3>2. QED
      BY <1>2, <3>1 DEF CreateProgress
  <2>4. Fits(op.hdr) => contents'[n] = Content(disk, op.hdr)
    <3>1. SUFFICES ASSUME Fits(op.hdr) PROVE contents'[n] = Content(disk, op.hdr)
      OBVIOUS
    <3> DEFINE hdr == op.hdr
    <3>2. WellFormed(hdr)
      BY <2>1, <3>1, RoomyWellFormed
    <3>3. contents'[n] = ReadAll(hdr)
      BY <1>5, <3>1
    <3> HIDE DEF hdr
    <3>4. contents'[n] = Content(disk, hdr)
      BY <3>2, <3>3, ReadAllIs
    <3>5. QED
      BY <3>4 DEF hdr
  <2> HIDE DEF x, n
  <2>5. Kept(disk, table, SoundNow', contents')
    BY <1>5, <1>6, <1>8, <2>2, <2>3, <2>4 DEF KInv, Kept
  <2>6. ASSUME lost = {}, ~ overrun PROVE Listed(table, SoundNow', contents')
    <3>1. Listed(table, SoundNow, contents)
      BY <1>8, <2>6 DEF KInv
    <3>2. QED
      BY <1>5, <1>6, <2>2, <3>1 DEF Listed
  <2>7. QED
    BY <2>5, <2>6
<1>9. QED
  BY <1>3, <1>5, <1>8 DEF KInv

\* A file is gone.
LEMMA RemoveMapKInv ==
  ASSUME IInv, KInv, WriteMap, Updating("remove", "map")
  PROVE  KInv'
<1> DEFINE x == op.entry
           n == op.name
<1>1. TypeOK /\ Removing /\ op \in Updates /\ op.do = "remove" /\ op.step = "map"
  BY SoundIs, OpKinds DEF IInv, Updating
<1>2. RemoveProgress(op) /\ n \in Names /\ x \in Entries
  BY <1>1 DEF IInv, Progress, Updates
<1>3. /\ contents' = [contents EXCEPT ![n] = <<>>]
      /\ op' = [op EXCEPT !.step = "table"]
      /\ UNCHANGED <<table, disk, lost, astray, overrun>>
  BY <1>1 DEF WriteMap
<1>4. contents = [m \in Names |-> contents[m]]
  BY DEF KInv
<1>5. /\ contents' = [m \in Names |-> contents'[m]] /\ contents'[n] = <<>>
      /\ \A m \in Names : m # n => contents'[m] = contents[m]
  BY <1>2, <1>3, <1>4
<1>6. x \in Used /\ table[x].name = n
  BY <1>1, <1>2 DEF RemoveProgress, Used
<1>7. SoundNow = Used \ lost /\ SoundNow' = (Used \ lost) \ {x}
  <2>1. op' \in Updates /\ op'.do = "remove" /\ op'.step = "table" /\ op'.entry = x
    BY <1>1, <1>3 DEF Updates
  <2>2. op' # None
    BY <2>1, NoneAssumption, Zenon
  <2>3. SoundNow' = (Used \ lost)' \ {op'.entry}
    BY <2>1, <2>2 DEF SoundNow, Updating
  <2>4. QED
    BY <1>1, <1>3, <2>1, <2>3, SoundIs DEF Used
<1>8. ASSUME ~ astray
      PROVE  /\ Kept(disk, table, SoundNow', contents')
             /\ lost = {} /\ ~ overrun => Listed(table, SoundNow', contents')
  <2>1. x \in SoundNow
    BY <1>1, <1>6, <1>7, <1>8 DEF IInv, Good, RemoveGood
  <2>2. SoundNow' = SoundNow \ {x}
    BY <1>7
  <2>3. ASSUME NEW e \in SoundNow' PROVE e \in SoundNow /\ table[e].name \in Names /\ table[e].name # n
    BY <1>6, <1>8, <2>1, <2>2, SoundFile
  <2> HIDE DEF x, n
  <2>4. Kept(disk, table, SoundNow', contents')
    BY <1>5, <1>8, <2>3 DEF KInv, Kept
  <2>5. ASSUME lost = {}, ~ overrun PROVE Listed(table, SoundNow', contents')
    <3>1. Listed(table, SoundNow, contents)
      BY <1>8, <2>5 DEF KInv
    <3>2. QED
      BY <1>5, <1>6, <2>2, <3>1 DEF Listed
  <2>6. QED
    BY <2>4, <2>5
<1>9. QED
  BY <1>3, <1>5, <1>8 DEF KInv

\* A crash takes nothing from the files that are sound.
LEMMA CrashKInv ==
  ASSUME IInv, KInv, Crash
  PROVE  KInv'
<1>1. /\ op' = None /\ lost' = IF CutOff THEN lost \cup {op.entry} ELSE lost
      /\ UNCHANGED <<table, disk, contents, astray, overrun>>
  BY DEF Crash
<1>2. SoundNow' = (Used \ lost)'
  BY <1>1 DEF SoundNow, Creating, Updating
<1>3. SoundNow' = SoundNow
  BY <1>2, CrashSound
<1>4. lost' = {} => lost = {}
  BY <1>1
<1>5. QED
  BY <1>1, <1>3, <1>4, KeptStill

-----------------------------------------------------------------------------
(* Writes *)

\* Only the file that is written to has the sector, or none that stays sound.
LEMMA WriteAtKInv ==
  ASSUME IInv, IInv', KInv, WriteAt
  PROVE  KInv'
<1> DEFINE s == op.hdr.dataSectors[op.at + 1]
           hit == IF op.orphan THEN Victims(s) ELSE {}
           n == op.name
<1>1. TypeOK /\ Transferring /\ op.at + 1 \in DOMAIN op.hdr.dataSectors /\ WroteTo(s, hit)
  BY WriteAtIs DEF IInv
<1>2. /\ op.hdr.dataSectors \in Seq(Sectors) /\ op.at \in Nat /\ n \in Names /\ op.orphan \in BOOLEAN
      /\ op.pos \in Nat
  BY <1>1, WritingIs
<1>3. s \in Sectors /\ s \in SectorsOf(op.hdr)
  <2>1. s \in Sectors
    BY <1>1, <1>2
  <2>2. QED
    BY <1>1, <2>1 DEF SectorsOf, Range
<1>4. (~ op.orphan => hit = {}) /\ (op.orphan => hit = Victims(s))
  OBVIOUS
<1> DEFINE B == [o \in Offsets |-> BufAt(op.hdr, Request, op.pos, Length, op.at * SectorSize + o)]
           c == Updated(contents[n], Request, op.pos, op.at)
<1>5. /\ disk' = [disk EXCEPT ![s] = [kind |-> "data", bytes |-> B]]
      /\ contents' = IF op.orphan THEN contents ELSE [contents EXCEPT ![n] = c]
      /\ lost' = lost \cup hit
      /\ UNCHANGED <<table, astray, overrun>>
  BY <1>1 DEF WroteTo
<1>6. contents = [m \in Names |-> contents[m]]
  BY DEF KInv
<1> HIDE DEF s, hit, n, B, c
<1>7. disk'[s] = [kind |-> "data", bytes |-> B] /\ \A t \in Sectors : t # s => disk'[t] = disk[t]
  <2>1. disk = [t \in Sectors |-> disk[t]]
    BY <1>1 DEF TypeOK
  <2>2. QED
    BY <1>3, <1>5, <2>1
<1>8. contents' = [m \in Names |-> contents'[m]]
      /\ \A m \in Names : contents'[m] = IF m = n /\ ~ op.orphan THEN c ELSE contents[m]
  BY <1>2, <1>5, <1>6
<1>9. SoundNow' = SoundNow \ hit
  <2>1. SoundNow = Used \ lost /\ Used' = Used
    BY <1>1, <1>5, SoundIs DEF Used
  <2>2. SoundNow' = (Used \ lost)'
    <3>1. op' = None \/ op' \in Transfers
      BY <1>1, NextSector DEF s, hit
    <3>2. op' = None \/ op'.do \in {"copy", "write"}
      BY <3>1 DEF Transfers
    <3>3. QED
      BY <3>2 DEF SoundNow, Creating, Updating
  <2>3. QED
    BY <1>5, <2>1, <2>2
<1>10. ASSUME ~ astray
       PROVE  /\ Kept(disk', table, SoundNow', contents')
              /\ lost' = {} /\ ~ overrun => Listed(table, SoundNow', contents')
  <2>1. Holds(op, disk, table, SoundNow, overrun) /\ Kept(disk, table, SoundNow, contents)
    BY <1>1, <1>10 DEF IInv, Good, KInv
  <2>2. ASSUME NEW e \in SoundNow'
        PROVE  /\ e \in SoundNow
               /\ \/ s \notin Owned(disk, table, e) /\ (op.orphan \/ table[e].name # n)
                  \/ /\ ~ op.orphan /\ table[e].name = n /\ disk[table[e].sector] = op.hdr
                     /\ table[e].sector # s
    <3>1. e \in SoundNow /\ e \notin hit
      BY <1>9
    <3>2. CASE op.orphan
      <4>1. SoundNow = Used \ lost
        BY <1>1, SoundIs
      <4>2. s \notin FileSectors(e)
        BY <1>4, <3>1, <3>2, <4>1 DEF Victims
      <4>3. QED
        BY <3>1, <3>2, <4>2 DEF FileSectors, Owned
    <3>3. CASE ~ op.orphan
      <4>1. PICK f \in SoundNow : table[f].name = n /\ disk[table[f].sector] = op.hdr
        BY <2>1, <3>3 DEF Holds, n
      <4>2. s \in Owned(disk, table, f)
        BY <1>3, <4>1 DEF Owned
      <4>3. CASE e = f
        <5>1. table[f].sector \notin SectorsOf(disk[table[f].sector])
          BY <1>10 DEF IInv, Good, Files, Agree, Proper
        <5>2. QED
          BY <1>3, <3>1, <3>3, <4>1, <4>3, <5>1
      <4>4. CASE e # f
        BY <1>10, <3>1, <4>1, <4>2, <4>4, SoundFile
      <4>5. QED
        BY <4>3, <4>4
    <3>4. QED
      BY <3>2, <3>3
  <2>3. ASSUME NEW e \in SoundNow', Fits(disk'[table[e].sector])
        PROVE  contents'[table[e].name] = Content(disk', disk'[table[e].sector])
    <3> DEFINE hdr == disk[table[e].sector]
               m == table[e].name
    <3>1. /\ e \in SoundNow /\ m \in Names /\ Distinct(hdr) /\ (Fits(hdr) => WellFormed(hdr))
          /\ Owned(disk, table, e) \subseteq Sectors
      BY <1>10, <2>2, SoundFile
    <3>2. table[e].sector # s /\ table[e].sector \in Sectors
      BY <2>2, <3>1 DEF Owned
    <3>3. disk'[table[e].sector] = hdr
      BY <1>7, <3>2
    <3>4. WellFormed(hdr) /\ contents[m] = Content(disk, hdr)
      BY <2>1, <2>3, <3>1, <3>3 DEF Kept
    <3>5. CASE s \notin Owned(disk, table, e) /\ (op.orphan \/ m # n)
      <4>1. contents'[m] = contents[m]
        BY <1>8, <3>1, <3>5
      <4>2. \A t \in SectorsOf(hdr) : disk'[t] = disk[t]
        BY <1>7, <3>1, <3>5 DEF Owned
      <4>3. Content(disk', hdr) = Content(disk, hdr)
        <5> HIDE DEF hdr
        <5>1. QED
          BY <3>4, <4>2, ContentSame
      <4>4. QED
        BY <3>3, <3>4, <4>1, <4>3
    <3>6. CASE ~ op.orphan /\ m = n /\ hdr = op.hdr
      <4> DEFINE from == Request
                 pos == op.pos
                 k == Length
                 i == op.at
      <4>1. contents'[m] = Updated(Content(disk, hdr), from, pos, i)
        BY <1>8, <3>1, <3>4, <3>6 DEF c
      <4>2. /\ Len(from) \in Nat /\ k \in Nat \ {0} /\ k <= Len(from)
            /\ pos + k <= hdr.numBytes /\ (k = Len(from) \/ pos + k = hdr.numBytes)
        BY <1>1, <3>6, WritingIs
      <4>3. i \in (pos \div SectorSize) .. ((pos + k - 1) \div SectorSize)
        BY <1>1, WritingIs DEF TransferProgress, LastSector
      <4>4. i + 1 \in 1 .. Len(hdr.dataSectors)
        <5>1. DOMAIN op.hdr.dataSectors = 1 .. Len(op.hdr.dataSectors)
          BY <1>2
        <5>2. QED
          BY <1>1, <3>6, <5>1
      <4>5. /\ hdr.dataSectors[i + 1] = s
            /\ B = [o \in Offsets |-> BufAt(hdr, from, pos, k, i * SectorSize + o)]
        BY <3>6 DEF s, B
      <4> HIDE DEF from, pos, k, i
      <4> DEFINE D == disk'
      <4>6. /\ D[hdr.dataSectors[i + 1]]
                 = [kind |-> "data",
                    bytes |-> [o \in Offsets |-> BufAt(hdr, from, pos, k, i * SectorSize + o)]]
            /\ \A t \in Sectors : t # hdr.dataSectors[i + 1] => D[t] = disk[t]
        BY <1>7, <4>5
      <4>7. pos \in Nat /\ i \in Nat
        BY <1>2 DEF pos, i
      <4> HIDE DEF hdr, D
      <4>8. Content(D, hdr) = Updated(Content(disk, hdr), from, pos, i)
        <5>1. OneSector(hdr, from, pos, k, i, D)
          BY <3>1, <3>4, <4>2, <4>3, <4>4, <4>6, <4>7 DEF OneSector
        <5>2. QED
          BY <5>1, WroteByte
      <4>9. QED
        BY <3>3, <4>1, <4>8 DEF D
    <3>7. QED
      BY <2>2, <3>5, <3>6
  <2>4. Kept(disk', table, SoundNow', contents')
    BY <2>3 DEF Kept
  <2>5. ASSUME lost' = {}, ~ overrun PROVE Listed(table, SoundNow', contents')
    <3>1. lost = {} /\ hit = {}
      BY <1>5, <2>5
    <3>2. SoundNow' = SoundNow /\ Listed(table, SoundNow, contents)
      BY <1>9, <1>10, <2>5, <3>1 DEF KInv
    <3>3. ~ op.orphan => \E e \in SoundNow : table[e].name = n
      BY <2>1 DEF Holds, n
    <3>4. QED
      BY <1>8, <3>2, <3>3 DEF Listed
  <2>6. QED
    BY <2>4, <2>5
<1>11. QED
  BY <1>5, <1>8, <1>10 DEF KInv

\* Every step of the system keeps what was written.
LEMMA NextKInv ==
  ASSUME IInv, KInv, [Next]_vars
  PROVE  KInv'
<1>1. IInv'
  BY NextIInv
<1>2. ASSUME NEW n \in Names, NEW size \in Sizes, Create(n, size) PROVE KInv'
  BY <1>1, <1>2, CreateKInv DEF Create
<1>3. ASSUME NEW n \in Names, Copy(n) PROVE KInv'
  <2>1. PICK size \in Sizes : \E data \in [1 .. size -> Bytes] : CreateFor(n, size, data)
    BY <1>3 DEF Copy
  <2>2. QED
    BY <1>1, <2>1, CreateKInv
<1>4. ASSUME NEW n \in Names, Remove(n) PROVE KInv'
  BY <1>1, <1>4, RemoveKInv
<1>5. ASSUME NEW h \in Handles, Write(h) PROVE KInv'
  BY <1>1, <1>5, WriteKInv
<1>6. ASSUME NEW n \in Names, NEW size \in Sizes, CreateOverruns(n, size) PROVE KInv'
  <2>1. UNCHANGED <<table, disk, op, contents, lost>> /\ (overrun => overrun') /\ (astray => astray')
    BY <1>6 DEF CreateOverruns
  <2>2. QED
    BY <2>1, SameKInv
<1>7. ASSUME NEW n \in Names, HeaderFaults(n) PROVE KInv'
  <2>1. UNCHANGED <<table, disk, op, contents, lost>> /\ (overrun => overrun') /\ (astray => astray')
    BY <1>7 DEF HeaderFaults, Stray
  <2>2. QED
    BY <2>1, SameKInv
<1>8. ASSUME NEW n \in Names, NEW h \in Handles, Open(h, n) PROVE KInv'
  <2>1. UNCHANGED <<table, disk, op, contents, lost>> /\ (overrun => overrun') /\ (astray => astray')
    BY <1>8 DEF Open, Stray
  <2>2. QED
    BY <2>1, SameKInv
<1>9. ASSUME NEW h \in Handles, Close(h) PROVE KInv'
  <2>1. UNCHANGED <<table, disk, op, contents, lost, overrun, astray>>
    BY <1>9 DEF Close, history
  <2>2. QED
    BY <2>1, SameKInv
<1>10. ASSUME WriteBeyond \/ UNCHANGED vars PROVE KInv'
  <2>1. UNCHANGED <<table, disk, op, contents, lost, overrun, astray>>
    BY <1>10 DEF WriteBeyond, history, vars
  <2>2. QED
    BY <2>1, SameKInv
<1>11. ASSUME WriteHeader PROVE KInv'
  BY <1>11, WriteHeaderKInv
<1>12. ASSUME WriteTable PROVE KInv'
  BY <1>1, <1>12, WriteTableKInv
<1>13. ASSUME WriteMap PROVE KInv'
  <2>1. Updating("create", "map") \/ Updating("remove", "map")
    BY <1>13 DEF WriteMap
  <2>2. QED
    BY <1>13, <2>1, CreateMapKInv, RemoveMapKInv
<1>14. ASSUME WriteAt PROVE KInv'
  BY <1>1, <1>14, WriteAtKInv
<1>15. ASSUME Crash PROVE KInv'
  BY <1>15, CrashKInv
<1>16. ASSUME NEW n \in Names, NEW size \in Sizes, CreateFails(n, size) PROVE UNCHANGED vars
  BY <1>16 DEF CreateFails
<1>17. ASSUME NEW n \in Names, RemoveFails(n) PROVE UNCHANGED vars
  BY <1>17 DEF RemoveFails
<1>18. QED
  BY <1>2, <1>3, <1>4, <1>5, <1>6, <1>7, <1>8, <1>9, <1>10, <1>11, <1>12, <1>13, <1>14, <1>15,
     <1>16, <1>17 DEF Next

-----------------------------------------------------------------------------
(* What the printing commands show *)

\* The first m of c.
Upto(c, m) == [k \in 1 .. m |-> c[k]]

\* Quotient and remainder of what was put together from them.
LEMMA DivMod ==
  ASSUME NEW s \in Nat \ {0}, NEW a \in Nat, NEW o \in 0 .. s - 1
  PROVE  (a * s + o) \div s = a /\ (a * s + o) % s = o
<1> DEFINE v == a * s + o
           q == v \div s
           r == v % s
<1>1. v \in Nat /\ a * s \in Nat
  OBVIOUS
<1>2. q \in Nat /\ r \in 0 .. s - 1 /\ v = q * s + r /\ q * s \in Int
  <2> HIDE DEF v
  <2>1. QED
    BY <1>1, ModBounds
<1>3. a * s + o = q * s + r
  BY <1>2
<1> HIDE DEF q, r, v
<1>4. ~ (a < q)
  <2>1. SUFFICES ASSUME a < q PROVE FALSE
    OBVIOUS
  <2>2. a * s + s <= q * s
    BY <1>2, <2>1, NextMultiple
  <2>3. QED
    BY <1>1, <1>2, <1>3, <2>2
<1>5. ~ (q < a)
  <2>1. SUFFICES ASSUME q < a PROVE FALSE
    OBVIOUS
  <2>2. q * s + s <= a * s
    BY <1>2, <2>1, NextMultiple
  <2>3. QED
    BY <1>1, <1>2, <1>3, <2>2
<1>6. q = a
  BY <1>2, <1>4, <1>5
<1>7. r = o
  BY <1>1, <1>2, <1>3, <1>6
<1>8. QED
  BY <1>6, <1>7 DEF q, r, v

\* The first none of c.
LEMMA UptoNone ==
  ASSUME NEW c
  PROVE  Upto(c, 0) = <<>>
<1>1. 1 .. 0 = {}
  OBVIOUS
<1>2. QED
  BY <1>1 DEF Upto

\* The first a of c and the next b.
LEMMA UptoConcat ==
  ASSUME NEW c, NEW a \in Nat, NEW b \in Nat
  PROVE  Upto(c, a) \o [k \in 1 .. b |-> c[a + k]] = Upto(c, a + b)
<1> DEFINE V == {c[k] : k \in 1 .. a + b}
           s == Upto(c, a)
           t == [k \in 1 .. b |-> c[a + k]]
           u == Upto(c, a + b)
<1>1. s \in [1 .. a -> V] /\ t \in [1 .. b -> V] /\ u \in [1 .. a + b -> V]
  BY DEF Upto
<1>2. a + b \in Nat
  OBVIOUS
<1>3. s \in Seq(V) /\ t \in Seq(V) /\ u \in Seq(V)
  <2> HIDE DEF s, t, u, V
  <2>1. QED
    BY <1>1, <1>2
<1>4. Len(s) = a /\ Len(t) = b /\ Len(u) = a + b
  <2> HIDE DEF s, t, u, V
  <2>1. QED
    BY <1>1, <1>2, <1>3, LenProperties
<1>5. /\ \A k \in 1 .. a : s[k] = c[k]
      /\ \A k \in 1 .. b : t[k] = c[a + k]
      /\ \A k \in 1 .. a + b : u[k] = c[k]
  BY DEF Upto
<1> HIDE DEF s, t, u, V
<1>6. s \o t \in Seq(V) /\ Len(s \o t) = a + b
  BY <1>3, <1>4, ConcatProperties
<1>7. ASSUME NEW k \in 1 .. a + b PROVE (s \o t)[k] = u[k]
  <2>1. k \in 1 .. Len(s) + Len(t)
    BY <1>4
  <2>2. (s \o t)[k] = IF k <= Len(s) THEN s[k] ELSE t[k - Len(s)]
    BY <1>3, <2>1, ConcatProperties
  <2>3. CASE k <= a
    BY <1>4, <1>5, <2>2, <2>3
  <2>4. CASE k > a
    <3>1. k - a \in 1 .. b /\ a + (k - a) = k
      BY <2>4
    <3>2. QED
      BY <1>4, <1>5, <2>2, <2>4, <3>1
  <2>5. k <= a \/ k > a
    OBVIOUS
  <2>6. QED
    BY <2>3, <2>4, <2>5, Zenon
<1>8. s \o t = u
  BY <1>3, <1>4, <1>6, <1>7, SeqEqual
<1>9. QED
  BY <1>8 DEF s, t, u

\* Parts of z bytes, the last of them cut short, make up the whole.
LEMMA Parts ==
  ASSUME NEW z \in Nat \ {0}, NEW N \in Nat \ {0}
  PROVE  LET r == divRoundUp(N, z)
         IN  /\ r \in Nat /\ Min({0 * z, N}) = 0 /\ Min({r * z, N}) = N
             /\ \A i \in 1 .. r :
                  /\ i - 1 \in Nat /\ (i - 1) * z \in Nat /\ Min({(i - 1) * z, N}) = (i - 1) * z
                  /\ Min({z, N - (i - 1) * z}) \in Nat
                  /\ Min({i * z, N}) = (i - 1) * z + Min({z, N - (i - 1) * z})
<1> DEFINE q == (N - 1) \div z
           r == divRoundUp(N, z)
<1>1. q \in Nat /\ q * z <= N - 1 /\ N - 1 < q * z + z /\ q * z \in Int
  <2>1. N - 1 \in Int /\ N - 1 >= 0
    OBVIOUS
  <2>2. QED
    BY <2>1, DivBounds
<1>2. r = q + 1
  <2>1. ((N - 1) + z) \div z = q + 1
    <3>1. N - 1 \in Int
      OBVIOUS
    <3>2. QED
      BY <3>1, DivShift
  <2>2. (N - 1) + z = N + z - 1
    OBVIOUS
  <2>3. QED
    BY <2>1, <2>2 DEF divRoundUp
<1> HIDE DEF q, r
<1>3. r \in Nat /\ r * z = q * z + z
  BY <1>1, <1>2
<1>4. Min({0 * z, N}) = 0
  <2>1. 0 * z = 0 /\ 0 \in Int /\ N \in Int
    OBVIOUS
  <2>2. Min({0, N}) \in {0, N} /\ Min({0, N}) <= 0
    BY <2>1, MinPair
  <2>3. QED
    BY <2>1, <2>2
<1>5. Min({r * z, N}) = N
  <2> DEFINE w == r * z
  <2>1. w \in Int /\ w >= N
    BY <1>1, <1>3
  <2> HIDE DEF w
  <2>2. Min({w, N}) \in {w, N} /\ Min({w, N}) <= N
    BY <2>1, MinPair
  <2>3. QED
    BY <2>1, <2>2 DEF w
<1>6. ASSUME NEW i \in 1 .. r
      PROVE  /\ i - 1 \in Nat /\ (i - 1) * z \in Nat /\ Min({(i - 1) * z, N}) = (i - 1) * z
             /\ Min({z, N - (i - 1) * z}) \in Nat
             /\ Min({i * z, N}) = (i - 1) * z + Min({z, N - (i - 1) * z})
  <2> DEFINE p == i - 1
             a == p * z
             b == i * z
             m == Min({z, N - a})
  <2>1. p \in Nat /\ p \in Int /\ p <= q /\ i = p + 1
    BY <1>1, <1>2, <1>3
  <2>2. a <= q * z
    BY <1>1, <2>1, TimesMonotone
  <2>3. a \in Nat /\ b = a + z
    BY <2>1
  <2> HIDE DEF p, a, b
  <2>4. a \in Int /\ a <= N - 1 /\ b \in Int /\ N - a \in Int /\ z \in Int /\ N \in Int
    BY <1>1, <2>2, <2>3
  <2>5. Min({a, N}) = a
    <3>1. Min({a, N}) \in {a, N} /\ Min({a, N}) <= a
      BY <2>4, MinPair
    <3>2. QED
      BY <2>4, <3>1
  <2>6. m \in {z, N - a} /\ m <= z /\ m <= N - a
    BY <2>4, MinPair
  <2>7. Min({b, N}) \in {b, N} /\ Min({b, N}) <= b /\ Min({b, N}) <= N
    BY <2>4, MinPair
  <2> DEFINE M == Min({b, N})
  <2> HIDE DEF m, M
  <2>8. m \in Nat
    BY <2>4, <2>6
  <2>9. M = a + m
    <3>1. M \in {b, N} /\ M <= b /\ M <= N
      BY <2>7 DEF M
    <3>2. QED
      BY <2>3, <2>4, <2>6, <3>1
  <2>10. QED
    BY <2>1, <2>3, <2>5, <2>8, <2>9 DEF p, a, b, m, M
<1>7. QED
  BY <1>3, <1>4, <1>5, <1>6 DEF r

\* Print of threads/main.cc shows the file.
LEMMA PrintIs ==
  ASSUME NEW hdr, WellFormed(hdr)
  PROVE  Print_(hdr) = Content(disk, hdr)
<1> DEFINE z == TransferSize
           N == hdr.numBytes
           c == Content(disk, hdr)
           r == divRoundUp(N, z)
           m(i) == Min({i * z, N})
           Rec(g) == [i \in 0 .. r |-> IF i = 0 THEN <<>> ELSE g[i - 1] \o ReadAt(hdr, z, (i - 1) * z)]
           f == CHOOSE g : g = Rec(g)
           sol == [i \in 0 .. r |-> Upto(c, m(i))]
<1>1. z \in Nat \ {0} /\ N \in Nat \ {0} /\ FileLength(hdr) = N
  BY SizeAssumption, LenSectors DEF FileLength
<1>2. Print_(hdr) = f[r]
  BY <1>1 DEF Print_
<1>3. /\ r \in Nat /\ m(0) = 0 /\ m(r) = N
      /\ \A i \in 1 .. r :
           /\ i - 1 \in Nat /\ (i - 1) * z \in Nat /\ m(i - 1) = (i - 1) * z
           /\ Min({z, N - (i - 1) * z}) \in Nat
           /\ m(i) = (i - 1) * z + Min({z, N - (i - 1) * z})
  <2> HIDE DEF z, N
  <2>1. QED
    BY <1>1, Parts
<1> HIDE DEF r
<1>4. ASSUME NEW i \in 1 .. r
      PROVE  Upto(c, m(i - 1)) \o ReadAt(hdr, z, (i - 1) * z) = Upto(c, m(i))
  <2> DEFINE a == (i - 1) * z
             b == Min({z, N - a})
  <2>1. a \in Nat /\ b \in Nat /\ m(i - 1) = a /\ m(i) = a + b /\ b <= N - a
    <3>1. a \in Nat /\ b \in Nat /\ m(i - 1) = a /\ m(i) = a + b
      BY <1>3
    <3> HIDE DEF a
    <3>2. z \in Int /\ N - a \in Int
      BY <1>1, <3>1
    <3> HIDE DEF z, N
    <3>3. b <= N - a
      BY <3>2, MinPair
    <3>4. QED
      BY <3>1, <3>3 DEF a, z, N
  <2>2. ReadAt(hdr, z, a)
          = [k \in 1 .. b |-> Stored(disk, hdr.dataSectors[((a + k - 1) \div SectorSize) + 1],
                                     (a + k - 1) % SectorSize)]
    BY <1>1 DEF ReadAt, ByteOf, IsHeader, Stored
  <2> HIDE DEF a, b
  <2>3. \A k \in 1 .. b : a + k \in 1 .. N
    BY <1>1, <2>1
  <2>4. \A k \in 1 .. b : c[a + k] = Stored(disk, hdr.dataSectors[((a + k - 1) \div SectorSize) + 1],
                                            (a + k - 1) % SectorSize)
    <3>1. \A k \in 1 .. N : c[k] = Stored(disk, hdr.dataSectors[((k - 1) \div SectorSize) + 1],
                                          (k - 1) % SectorSize)
      BY DEF Content
    <3>2. \A k \in 1 .. b : (a + k) - 1 = a + k - 1
      BY <2>1
    <3> HIDE DEF c
    <3>3. QED
      BY <2>3, <3>1, <3>2, Zenon
  <2> HIDE DEF c, m
  <2>5. ReadAt(hdr, z, a) = [k \in 1 .. b |-> c[a + k]]
    BY <2>2, <2>4
  <2>6. Upto(c, a) \o [k \in 1 .. b |-> c[a + k]] = Upto(c, a + b)
    BY <2>1, UptoConcat
  <2>7. QED
    BY <2>1, <2>5, <2>6 DEF a
<1>5. Upto(c, m(0)) = <<>>
  <2> HIDE DEF c, m
  <2>1. QED
    BY <1>3, UptoNone
<1> HIDE DEF m, c, z
<1>6. sol = Rec(sol)
  <2>1. ASSUME NEW i \in 0 .. r
        PROVE  sol[i] = IF i = 0 THEN <<>> ELSE sol[i - 1] \o ReadAt(hdr, z, (i - 1) * z)
    <3>1. CASE i = 0
      BY <1>5, <3>1
    <3>2. CASE i # 0
      <4>1. i \in 1 .. r /\ i - 1 \in 0 .. r
        BY <1>3, <3>2
      <4>2. sol[i] = Upto(c, m(i)) /\ sol[i - 1] = Upto(c, m(i - 1))
        BY <4>1
      <4>3. QED
        BY <1>4, <3>2, <4>1, <4>2
    <3>3. QED
      BY <3>1, <3>2
  <2>2. QED
    BY <2>1
<1>7. f = Rec(f)
  <2> HIDE DEF sol, Rec
  <2>1. \E g : g = Rec(g)
    BY <1>6
  <2>2. QED
    BY <2>1, Zenon
<1> HIDE DEF f
<1>8. ASSUME NEW i \in 0 .. r PROVE f[i] = Upto(c, m(i))
  <2> DEFINE Bad == {j \in 0 .. r : f[j] # Upto(c, m(j))}
             j == Min(Bad)
  <2>1. SUFFICES ASSUME Bad # {} PROVE FALSE
    OBVIOUS
  <2>2. Bad \subseteq Nat
    OBVIOUS
  <2>3. j \in Bad /\ \A k \in Bad : j <= k
    <3> HIDE DEF Bad
    <3>1. QED
      BY <2>1, <2>2, MinOf
  <2> HIDE DEF j
  <2>4. j \in 0 .. r /\ f[j] # Upto(c, m(j))
    BY <2>3
  <2>5. f[j] = IF j = 0 THEN <<>> ELSE f[j - 1] \o ReadAt(hdr, z, (j - 1) * z)
    BY <1>7, <2>4
  <2>6. CASE j = 0
    BY <1>5, <2>4, <2>5, <2>6
  <2>7. CASE j # 0
    <3>1. j \in 1 .. r /\ j - 1 \in 0 .. r /\ ~ (j <= j - 1)
      BY <1>3, <2>4, <2>7
    <3>2. j - 1 \notin Bad
      BY <2>3, <3>1
    <3>3. f[j - 1] = Upto(c, m(j - 1))
      BY <3>1, <3>2
    <3>4. QED
      BY <1>4, <2>4, <2>5, <2>7, <3>1, <3>3
  <2>8. QED
    BY <2>6, <2>7
<1>9. f[r] = Upto(c, N)
  <2>1. r \in 0 .. r
    BY <1>3
  <2>2. QED
    BY <1>3, <1>8, <2>1
<1>10. Upto(c, N) = c
  BY DEF Upto, c, Content
<1>11. QED
  BY <1>2, <1>9, <1>10 DEF c

\* The first m of c are m.
LEMMA UptoLen ==
  ASSUME NEW c, NEW m \in Nat
  PROVE  Len(Upto(c, m)) = m
<1> DEFINE V == {c[k] : k \in 1 .. m}
           u == Upto(c, m)
<1>1. u \in [1 .. m -> V]
  BY DEF Upto
<1> HIDE DEF u, V
<1>2. u \in Seq(V)
  BY <1>1
<1>3. QED
  BY <1>1, <1>2, LenProperties DEF u

\* FileHeader::Print shows the file.
LEMMA HeaderPrintIs ==
  ASSUME NEW hdr, WellFormed(hdr)
  PROVE  HeaderPrint(hdr) = Content(disk, hdr)
<1> DEFINE z == SectorSize
           N == hdr.numBytes
           c == Content(disk, hdr)
           r == divRoundUp(N, z)
           m(i) == Min({i * z, N})
           Part(i, l) == [j \in 1 .. Min({z, N - l}) |-> Stored(disk, hdr.dataSectors[i], j - 1)]
           Rec(g) == [i \in 0 .. r |-> IF i = 0 THEN <<>> ELSE g[i - 1] \o Part(i, Len(g[i - 1]))]
           f == CHOOSE g : g = Rec(g)
           sol == [i \in 0 .. r |-> Upto(c, m(i))]
<1>1. z \in Nat \ {0} /\ N \in Nat \ {0} /\ FileLength(hdr) = N /\ Len(hdr.dataSectors) = r
  BY SizeAssumption, LenSectors DEF FileLength, WellFormed, NumSectorsOf
<1>2. HeaderPrint(hdr) = f[r]
  BY <1>1 DEF HeaderPrint, ByteOf, IsHeader, Stored
<1>3. /\ r \in Nat /\ m(0) = 0 /\ m(r) = N
      /\ \A i \in 1 .. r :
           /\ i - 1 \in Nat /\ (i - 1) * z \in Nat /\ m(i - 1) = (i - 1) * z
           /\ Min({z, N - (i - 1) * z}) \in Nat
           /\ m(i) = (i - 1) * z + Min({z, N - (i - 1) * z})
  <2> HIDE DEF z, N
  <2>1. QED
    BY <1>1, Parts
<1> HIDE DEF r
<1>4. ASSUME NEW i \in 1 .. r
      PROVE  Upto(c, m(i - 1)) \o Part(i, Len(Upto(c, m(i - 1)))) = Upto(c, m(i))
  <2> DEFINE p == i - 1
             a == p * z
             b == Min({z, N - a})
  <2>1. a \in Nat /\ b \in Nat /\ m(i - 1) = a /\ m(i) = a + b /\ p \in Nat /\ i = p + 1
    <3>1. i = p + 1
      BY <1>3
    <3>2. a \in Nat /\ b \in Nat /\ m(i - 1) = a /\ m(i) = a + b /\ p \in Nat
      <4> HIDE DEF m, z, N
      <4>1. QED
        BY <1>3
    <3>3. QED
      BY <3>1, <3>2
  <2>2. b <= N - a /\ b <= z
    <3> HIDE DEF a, z, N
    <3>1. z \in Int /\ N - a \in Int
      BY <1>1, <2>1
    <3>2. QED
      BY <3>1, MinPair
  <2>3. Len(Upto(c, m(i - 1))) = a
    <3> HIDE DEF c, m, a
    <3>1. QED
      BY <2>1, UptoLen
  <2>4. Part(i, a) = [j \in 1 .. b |-> Stored(disk, hdr.dataSectors[i], j - 1)]
    OBVIOUS
  <2> HIDE DEF b
  <2>5. ASSUME NEW j \in 1 .. b PROVE c[a + j] = Stored(disk, hdr.dataSectors[i], j - 1)
    <3>1. \A k \in 1 .. N : c[k] = Stored(disk, hdr.dataSectors[((k - 1) \div SectorSize) + 1],
                                          (k - 1) % SectorSize)
      BY DEF Content
    <3>2. j - 1 \in 0 .. z - 1
      BY <1>1, <2>1, <2>2
    <3>3. (p * z + (j - 1)) \div z = p /\ (p * z + (j - 1)) % z = j - 1
      <4> DEFINE o == j - 1
      <4>1. o \in 0 .. z - 1
        BY <3>2
      <4> HIDE DEF o, p, z
      <4>2. (p * z + o) \div z = p /\ (p * z + o) % z = o
        BY <1>1, <2>1, <4>1, DivMod
      <4>3. QED
        BY <4>2 DEF o
    <3>4. (a + j) - 1 = p * z + (j - 1) /\ a + j \in 1 .. N
      <4>1. a = p * z
        OBVIOUS
      <4> HIDE DEF a, p, z, N
      <4>2. a + j \in 1 .. N /\ (a + j) - 1 = a + (j - 1)
        BY <1>1, <2>1, <2>2
      <4>3. QED
        BY <4>1, <4>2
    <3> DEFINE k == a + j
    <3> HIDE DEF c, a, p, k
    <3>5. c[k] = Stored(disk, hdr.dataSectors[((k - 1) \div SectorSize) + 1], (k - 1) % SectorSize)
      BY <3>1, <3>4 DEF k
    <3>6. (k - 1) \div SectorSize = p /\ (k - 1) % SectorSize = j - 1
      BY <3>3, <3>4 DEF k
    <3>7. QED
      BY <2>1, <3>5, <3>6 DEF k
  <2> HIDE DEF c, a
  <2>6. Part(i, a) = [j \in 1 .. b |-> c[a + j]]
    BY <2>4, <2>5
  <2> HIDE DEF m, Part
  <2>7. Upto(c, a) \o [j \in 1 .. b |-> c[a + j]] = Upto(c, a + b)
    BY <2>1, UptoConcat
  <2>8. QED
    BY <2>1, <2>3, <2>6, <2>7
<1>5. Upto(c, m(0)) = <<>>
  <2> HIDE DEF c, m
  <2>1. QED
    BY <1>3, UptoNone
<1> HIDE DEF m, c, z, Part
<1>6. sol = Rec(sol)
  <2>1. ASSUME NEW i \in 0 .. r
        PROVE  sol[i] = IF i = 0 THEN <<>> ELSE sol[i - 1] \o Part(i, Len(sol[i - 1]))
    <3>1. CASE i = 0
      BY <1>5, <3>1
    <3>2. CASE i # 0
      <4>1. i \in 1 .. r /\ i - 1 \in 0 .. r
        BY <1>3, <3>2
      <4>2. sol[i] = Upto(c, m(i)) /\ sol[i - 1] = Upto(c, m(i - 1))
        BY <4>1
      <4>3. QED
        BY <1>4, <3>2, <4>1, <4>2
    <3>3. QED
      BY <3>1, <3>2
  <2>2. QED
    BY <2>1
<1>7. f = Rec(f)
  <2> HIDE DEF sol, Rec
  <2>1. \E g : g = Rec(g)
    BY <1>6
  <2>2. QED
    BY <2>1, Zenon
<1> HIDE DEF f
<1>8. ASSUME NEW i \in 0 .. r PROVE f[i] = Upto(c, m(i))
  <2> DEFINE Bad == {j \in 0 .. r : f[j] # Upto(c, m(j))}
             j == Min(Bad)
  <2>1. SUFFICES ASSUME Bad # {} PROVE FALSE
    OBVIOUS
  <2>2. Bad \subseteq Nat
    OBVIOUS
  <2>3. j \in Bad /\ \A k \in Bad : j <= k
    <3> HIDE DEF Bad
    <3>1. QED
      BY <2>1, <2>2, MinOf
  <2> HIDE DEF j
  <2>4. j \in 0 .. r /\ f[j] # Upto(c, m(j))
    BY <2>3
  <2>5. f[j] = IF j = 0 THEN <<>> ELSE f[j - 1] \o Part(j, Len(f[j - 1]))
    BY <1>7, <2>4
  <2>6. CASE j = 0
    BY <1>5, <2>4, <2>5, <2>6
  <2>7. CASE j # 0
    <3>1. j \in 1 .. r /\ j - 1 \in 0 .. r /\ ~ (j <= j - 1)
      BY <1>3, <2>4, <2>7
    <3>2. j - 1 \notin Bad
      BY <2>3, <3>1
    <3>3. f[j - 1] = Upto(c, m(j - 1))
      BY <3>1, <3>2
    <3>4. QED
      BY <1>4, <2>4, <2>5, <2>7, <3>1, <3>3
  <2>8. QED
    BY <2>6, <2>7
<1>9. f[r] = Upto(c, N)
  <2>1. r \in 0 .. r
    BY <1>3
  <2>2. QED
    BY <1>3, <1>8, <2>1
<1>10. Upto(c, N) = c
  BY DEF Upto, c, Content
<1>11. QED
  BY <1>2, <1>9, <1>10 DEF c


\* Both show of a file that no accident has hit, and that fits in a header, what
\* was written to it, and that is something.
LEMMA SoundPrint ==
  ASSUME IInv, KInv, ~ astray, NEW e \in SoundNow, Fits(disk[table[e].sector])
  PROVE  /\ Print_(disk[table[e].sector]) = contents[table[e].name]
         /\ HeaderPrint(disk[table[e].sector]) = contents[table[e].name]
         /\ contents[table[e].name] # <<>>
<1> DEFINE hdr == disk[table[e].sector]
<1>1. WellFormed(hdr) /\ contents[table[e].name] = Content(disk, hdr)
  BY SoundFile DEF KInv, Kept
<1> HIDE DEF hdr
<1>2. Print_(hdr) = Content(disk, hdr) /\ HeaderPrint(hdr) = Content(disk, hdr)
  BY <1>1, PrintIs, HeaderPrintIs
<1>3. Content(disk, hdr) # <<>>
  <2>1. 1 \in 1 .. hdr.numBytes
    BY <1>1, LenSectors
  <2>2. DOMAIN Content(disk, hdr) # {}
    BY <2>1 DEF Content
  <2>3. QED
    BY <2>2
<1>4. QED
  BY <1>1, <1>2, <1>3 DEF hdr

\* Between operations these are the entries in use that were not lost, so that
\* List and Print show exactly the files there are.
LEMMA KInvKept == IInv /\ KInv => ContentsKept
<1> SUFFICES ASSUME IInv, KInv, op = None, ~ astray
             PROVE  /\ \A e \in Sound : Fits(disk[table[e].sector]) =>
                         Print_(FetchFrom(Find(table[e].name))) = contents[table[e].name]
                    /\ lost = {} /\ ~ overrun =>
                         FileSystemPrint.directory
                           = {<<n, contents[n]>> : n \in {m \in Names : contents[m] # <<>>}}
  BY DEF ContentsKept
<1>1. SoundNow = Sound /\ table \in Directories
  BY SoundIs DEF IInv, TypeOK, Sound
<1>2. Files(disk, table, SoundNow, freeMap, lost, overrun) /\ Agree(disk, table, SoundNow, freeMap)
  BY DEF IInv, Good, Files
<1>3. ASSUME NEW e \in Sound, Fits(disk[table[e].sector])
      PROVE  Print_(FetchFrom(Find(table[e].name))) = contents[table[e].name]
  <2>1. Find(table[e].name) = table[e].sector
    BY <1>1, <1>2, <1>3, FindSound
  <2>2. QED
    BY <1>1, <1>3, <2>1, SoundPrint DEF FetchFrom
<1>4. ASSUME lost = {}, ~ overrun
      PROVE  FileSystemPrint.directory
               = {<<n, contents[n]>> : n \in {m \in Names : contents[m] # <<>>}}
  <2> DEFINE C == {m \in Names : contents[m] # <<>>}
  <2>1. Used = SoundNow
    BY <1>1, <1>4 DEF Sound
  <2>2. ASSUME NEW e \in Used
        PROVE  /\ table[e].name \in Names /\ contents[table[e].name] # <<>>
               /\ HeaderPrint(disk[table[e].sector]) = contents[table[e].name]
    <3>1. Fits(disk[table[e].sector])
      BY <1>2, <1>4, <2>1 DEF Files, Roomy
    <3>2. QED
      BY <2>1, <3>1, SoundFile, SoundPrint
  <2>3. FileSystemPrint.directory = {<<table[e].name, contents[table[e].name]>> : e \in Used}
    BY <2>2 DEF FileSystemPrint, DirectoryPrint, FetchFrom
  <2>4. C = {table[e].name : e \in Used}
    <3>1. ASSUME NEW n \in C PROVE \E e \in Used : table[e].name = n
      BY <1>4, <2>1 DEF KInv, Listed
    <3>2. QED
      BY <2>2, <3>1
  <2>5. {<<table[e].name, contents[table[e].name]>> : e \in Used} = {<<n, contents[n]>> : n \in C}
    BY <2>4
  <2>6. QED
    BY <2>3, <2>5
<1>5. QED
  BY <1>3, <1>4

\* What is read of a file under its name is what was written to it (ContentsKept):
\* OpenFile::WriteAt puts the bytes at the position asked for, keeps what surrounds
\* them in the first and the last sector and disturbs no other file, and a crash
\* between any two writes of a sector takes nothing from a file but the one that
\* Create or Remove was about.  That holds of files of at most NumDirect sectors
\* that no accident has hit, until one that was hit is opened or removed, for every
\* size of the sectors, of the transfers, of a header and of the directory, and
\* every alignment.
THEOREM ContentsKeptTheorem == Spec => []ContentsKept
<1>1. Init => IInv /\ KInv
  BY InitIInv, InitKInv
<1>2. IInv /\ KInv /\ [Next]_vars => (IInv /\ KInv)'
  BY NextIInv, NextKInv
<1>3. IInv /\ KInv => ContentsKept
  BY KInvKept
<1>4. QED
  BY <1>1, <1>2, <1>3, PTL DEF Spec
=============================================================================
