------------------------- MODULE FileAndSocketProofs -------------------------
(***************************************************************************)
(* Proofs about FileTable, for a table of any size and any number of names *)
(* and host files, and about SocketService, for any number of clients,     *)
(* sockets and bytes of a message.                                         *)
(*                                                                         *)
(* FileTable: TypeOK, CleanNeverFaults and SlotsAccounted are inductive    *)
(* together.  They and IdsIndependent follow from one fact about every     *)
(* call (SlotStep): it changes at most one slot, if an open file then the  *)
(* one the call was about, and what it does to the counts of lent and free *)
(* slots it also does to lent and spent.                                   *)
(*                                                                         *)
(* SocketService: OwnReply is not inductive, as it says nothing about the  *)
(* bytes on their way.  ServiceInv adds that a client's connection is in   *)
(* step: before the client has written nothing is on its way; while the    *)
(* client waits, what was sent back is a beginning of its message in       *)
(* capitals, and what the server has not read begins where that ends.      *)
(***************************************************************************)
EXTENDS FileTable, SocketService, FiniteSetTheorems, SequenceTheorems,
        WellFoundedInduction, TLAPS

FilesOnly == [kind : {"file"}, ino : Inodes, type : Types, pos : 0 .. MaxLen]

-----------------------------------------------------------------------------
(* The file table: operators *)

\* Max and Min of two numbers, as used for the lengths of reads and writes.
LEMMA MaxOfTwo ==
  ASSUME NEW a \in Int, NEW b \in Int
  PROVE  Max({a, b}) = IF a >= b THEN a ELSE b
<1> DEFINE m == IF a >= b THEN a ELSE b
<1>1. m \in {a, b} /\ \A y \in {a, b} : m >= y
  OBVIOUS
<1>2. \A x \in {a, b} : (\A y \in {a, b} : x >= y) => x = m
  OBVIOUS
<1>3. QED
  BY <1>1, <1>2 DEF Max

LEMMA MinOfTwo ==
  ASSUME NEW a \in Int, NEW b \in Int
  PROVE  Min({a, b}) = IF a =< b THEN a ELSE b
<1> DEFINE m == IF a =< b THEN a ELSE b
<1>1. m \in {a, b} /\ \A y \in {a, b} : m =< y
  OBVIOUS
<1>2. \A x \in {a, b} : (\A y \in {a, b} : x =< y) => x = m
  OBVIOUS
<1>3. QED
  BY <1>1, <1>2 DEF Min

\* FindFreeSlot returns an empty slot above the console's.
LEMMA FreeSlot ==
  FindFreeSlot # -1 =>
    FindFreeSlot \in Ids /\ FindFreeSlot >= reverseFD /\ Kind(FindFreeSlot) = "null"
<1> DEFINE Empty == {i \in Ids : i >= reverseFD /\ Kind(i) = "null"}
<1>1. SUFFICES ASSUME Empty # {} PROVE Min(Empty) \in Empty
  BY DEF FindFreeSlot
<1>2. Empty \subseteq Nat
  BY SizeAssumption DEF Ids
<1> HIDE DEF Empty
<1>3. PICK x \in Empty : \A y \in Empty : ~ (<<y, x>> \in OpToRel(<, Nat))
  BY <1>1, <1>2, NatLessThanWellFounded, WFMin, Zenon
<1>4. ASSUME NEW y \in Empty PROVE x =< y
  <2>1. <<y, x>> \in Nat \X Nat /\ ~ (<<y, x>> \in OpToRel(<, Nat))
    BY <1>2, <1>3
  <2>2. ~ (y < x)
    BY <2>1 DEF OpToRel
  <2>3. QED
    BY <2>2, <1>2
<1>5. QED
  BY <1>3, <1>4 DEF Min

\* The members of FileSlots by their kind.
LEMMA SlotKinds ==
  /\ \A s \in FileSlots : s.kind = "file" => s \in FilesOnly
  /\ {Null, Console, OpenSocketInternet, NoFile, DeadFile, Freed} \subseteq FileSlots
  /\ \A s \in FilesOnly : s \in FileSlots /\ s.kind = "file"
  BY DEF FileSlots, FilesOnly, Null, Console, OpenSocketInternet, NoFile, DeadFile, Freed

\* A new OpenFile, and one whose position has moved.
LEMMA FileIsSlot ==
  /\ \A f \in Inodes, type \in Types : File(f, type) \in FilesOnly
  /\ \A s \in FilesOnly, pos \in 0 .. MaxLen : Lseek(s, pos) \in FilesOnly
  BY LenAssumption DEF FilesOnly, File, Lseek

-----------------------------------------------------------------------------
(* One call *)

StateOK ==
  /\ fileSlot \in [Ids -> FileSlots]
  /\ dir \in [Names -> Inodes \cup {NoIno}]
  /\ size \in [Inodes -> 0 .. MaxLen]
  /\ call \in [id : -1 .. MaxFileOpen, r2 : Int]
  /\ lent \in Int /\ spent \in Nat
  /\ fault \in BOOLEAN

\* Kinds of slots that are lent, and of slots that are free.
LentKinds == {"file", "nofile", "socket"}
FreeKinds == {"null"}
Of(kinds) == {i \in Ids : Kind(i) \in kinds}
One(kind, kinds) == IF kind \in kinds THEN 1 ELSE 0

\* Slot i goes from kind old to kind new while lent and spent grow by l and s.
Balanced(old, new, l, s) ==
  /\ One(new, LentKinds) = One(old, LentKinds) + l
  /\ One(new, FreeKinds) = One(old, FreeKinds) - l - s

\* What a call may change in the table.
SlotStep ==
  \/ fileSlot' = fileSlot /\ Account(0, 0)
  \/ \E i \in Ids : /\ \A j \in Ids : j # i => fileSlot'[j] = fileSlot[j]
                    /\ IsFile(i) => call'.id = i
                    /\ \/ fault'
                       \/ Balanced(Kind(i), fileSlot'[i].kind, lent' - lent, spent' - spent)

\* What a call does in a table of files, consoles and empty slots.
CleanStep == NoOpenFile = {} => fault' = fault /\ NoOpenFile' = {}

LEMMA PutStep ==
  ASSUME StateOK, NEW i \in Ids, NEW s \in FileSlots, Put(i, s)
  PROVE  /\ fileSlot' \in [Ids -> FileSlots] /\ fileSlot'[i] = s
         /\ \A j \in Ids : j # i => fileSlot'[j] = fileSlot[j]
         /\ NoOpenFile = {} /\ s.kind \in {"null", "file"} => NoOpenFile' = {}
<1>1. fileSlot' = [fileSlot EXCEPT ![i] = s] /\ fileSlot \in [Ids -> FileSlots]
  BY DEF Put, StateOK
<1>2. fileSlot'[i] = s /\ \A j \in Ids : j # i => fileSlot'[j] = fileSlot[j]
  BY <1>1
<1>3. ASSUME NoOpenFile = {}, s.kind \in {"null", "file"} PROVE NoOpenFile' = {}
  BY <1>2, <1>3 DEF NoOpenFile, Kind
<1>4. QED
  BY <1>1, <1>2, <1>3

LEMMA AnswerStep ==
  ASSUME StateOK, NEW id \in -1 .. MaxFileOpen, NEW r \in Int, Answer(id, r)
  PROVE  StateOK' /\ SlotStep /\ CleanStep
<1>1. fileSlot' = fileSlot /\ Account(0, 0) /\ UNCHANGED <<dir, size, fault>> /\ Return(id, r)
  BY DEF Answer
<1>2. StateOK'
  BY <1>1 DEF StateOK, Return, Account
<1>3. QED
  BY <1>1, <1>2 DEF SlotStep, CleanStep, NoOpenFile, Kind

LEMMA FaultStep ==
  ASSUME StateOK, Fault
  PROVE  StateOK' /\ SlotStep
<1>1. fault' = TRUE /\ UNCHANGED <<fileSlot, dir, size, call, lent, spent>>
  BY DEF Fault
<1>2. Account(0, 0)
  BY <1>1 DEF StateOK, Account
<1>3. QED
  BY <1>1, <1>2 DEF StateOK, SlotStep

\* Taking the slot FindFreeSlot has found.
LEMMA TakeStep ==
  ASSUME StateOK, FindFreeSlot # -1, NEW s \in FileSlots, Put(FindFreeSlot, s),
         NEW id \in -1 .. MaxFileOpen, NEW r \in Int, Return(id, r),
         dir' \in [Names -> Inodes \cup {NoIno}], size' \in [Inodes -> 0 .. MaxLen],
         fault' = fault,
         \/ s.kind \in LentKinds /\ Account(1, 0)
         \/ s.kind = "deadfile" /\ Account(0, 1)
  PROVE  /\ StateOK' /\ SlotStep
         /\ s.kind = "file" => CleanStep
<1> DEFINE i == FindFreeSlot
<1>1. i \in Ids /\ Kind(i) = "null"
  BY FreeSlot
<1> HIDE DEF i
<1>2. Put(i, s)
  BY DEF i
<1>3. /\ fileSlot' \in [Ids -> FileSlots] /\ fileSlot'[i] = s
      /\ \A j \in Ids : j # i => fileSlot'[j] = fileSlot[j]
      /\ NoOpenFile = {} /\ s.kind \in {"null", "file"} => NoOpenFile' = {}
  BY <1>1, <1>2, PutStep
<1>4. StateOK'
  BY <1>3 DEF StateOK, Return, Account
<1>5. SlotStep
  <2>1. Balanced(Kind(i), s.kind, lent' - lent, spent' - spent)
    BY <1>1 DEF StateOK, Account, Balanced, One, LentKinds, FreeKinds
  <2>2. ~IsFile(i)
    BY <1>1 DEF IsFile
  <2>3. QED
    BY <1>1, <1>3, <2>1, <2>2 DEF SlotStep
<1>6. QED
  BY <1>3, <1>4, <1>5 DEF CleanStep

\* A call on an open file that moves its position or closes it.
LEMMA OwnSlotStep ==
  ASSUME StateOK, NEW i \in Ids, NEW s \in FileSlots, Put(i, s),
         NEW r \in Int, Return(i, r),
         dir' \in [Names -> Inodes \cup {NoIno}], size' \in [Inodes -> 0 .. MaxLen],
         fault' = fault,
         \/ Kind(i) = "file" /\ s.kind = "file" /\ Account(0, 0)
         \/ Kind(i) \in {"file", "nofile"} /\ s.kind = "null" /\ Account(-1, 0)
         \/ Kind(i) = "socket" /\ s.kind = "freed" /\ Account(-1, 1)
  PROVE  /\ StateOK' /\ SlotStep
         /\ s.kind \in {"file", "null"} => CleanStep
<1>1. /\ fileSlot' \in [Ids -> FileSlots] /\ fileSlot'[i] = s
      /\ \A j \in Ids : j # i => fileSlot'[j] = fileSlot[j]
      /\ NoOpenFile = {} /\ s.kind \in {"null", "file"} => NoOpenFile' = {}
  BY PutStep
<1>2. i \in -1 .. MaxFileOpen
  BY SizeAssumption DEF Ids
<1>3. StateOK'
  BY <1>1, <1>2 DEF StateOK, Return, Account
<1>4. SlotStep
  <2>1. Balanced(Kind(i), s.kind, lent' - lent, spent' - spent)
    BY DEF StateOK, Account, Balanced, One, LentKinds, FreeKinds
  <2>2. QED
    BY <1>1, <2>1 DEF SlotStep, IsFile, Return
<1>5. QED
  BY <1>1, <1>3, <1>4 DEF CleanStep

\* Close and Unlink leave every length a length.
LEMMA ReclaimSize ==
  ASSUME StateOK, Reclaim
  PROVE  size' \in [Inodes -> 0 .. MaxLen]
  BY LenAssumption DEF StateOK, Reclaim

LEMMA OpenForWriteState ==
  ASSUME StateOK, NEW n \in Names, NEW f \in Inodes, OpenForWrite(n, f)
  PROVE  dir' \in [Names -> Inodes \cup {NoIno}] /\ size' \in [Inodes -> 0 .. MaxLen]
  BY LenAssumption DEF StateOK, OpenForWrite

-----------------------------------------------------------------------------
(* The calls on an id *)

LEMMA BadIdStep ==
  ASSUME StateOK, NEW id \in -1 .. MaxFileOpen, BadId(id)
  PROVE  StateOK' /\ SlotStep /\ CleanStep
  BY AnswerStep DEF BadId

\* Following a pointer that is not there needs a slot without an OpenFile.
LEMMA DeadSlotStep ==
  ASSUME StateOK, NEW id \in Ids, Fault,
         Kind(id) \in {"socket", "nofile", "deadfile", "freed"}
  PROVE  StateOK' /\ SlotStep /\ CleanStep
<1>1. NoOpenFile # {}
  BY DEF NoOpenFile
<1>2. QED
  BY <1>1, FaultStep DEF CleanStep

LEMMA closeTCPStep ==
  ASSUME StateOK, NEW id \in Ids, closeTCP(id)
  PROVE  StateOK' /\ SlotStep /\ CleanStep
<1>1. /\ Freed \in FileSlots /\ Freed.kind = "freed"
      /\ Put(id, Freed) /\ Return(id, 0) /\ Account(-1, 1)
  BY SlotKinds DEF closeTCP, Freed
<1>2. Kind(id) = "socket" /\ UNCHANGED <<dir, size, fault>>
  BY DEF closeTCP
<1>3. StateOK' /\ SlotStep
  <2>1. dir' \in [Names -> Inodes \cup {NoIno}] /\ size' \in [Inodes -> 0 .. MaxLen]
    BY <1>2 DEF StateOK
  <2>2. QED
    BY <1>1, <1>2, <2>1, OwnSlotStep
<1>4. NoOpenFile # {}
  BY <1>2 DEF NoOpenFile
<1>5. QED
  BY <1>3, <1>4 DEF CleanStep

\* Deleting again needs a slot without an OpenFile as well.
LEMMA CloseDeletedStep ==
  ASSUME StateOK, NEW id \in Ids, CloseDeleted(id)
  PROVE  StateOK' /\ SlotStep /\ CleanStep
<1>1. /\ Put(id, Null) \/ UNCHANGED fileSlot
      /\ Kind(id) \in {"deadfile", "freed"}
      /\ Return(id, 0) /\ Account(0, 0) /\ fault' = TRUE /\ UNCHANGED <<dir, size>>
  BY DEF CloseDeleted
<1>2. /\ fileSlot' \in [Ids -> FileSlots]
      /\ \A j \in Ids : j # id => fileSlot'[j] = fileSlot[j]
  <2>1. Null \in FileSlots
    BY SlotKinds
  <2>2. QED
    BY <1>1, <2>1, PutStep DEF StateOK
<1>3. id \in -1 .. MaxFileOpen
  BY SizeAssumption DEF Ids
<1>4. StateOK'
  BY <1>1, <1>2, <1>3 DEF StateOK, Return, Account
<1>5. SlotStep
  BY <1>1, <1>2 DEF SlotStep, IsFile
<1>6. NoOpenFile # {}
  BY <1>1 DEF NoOpenFile
<1>7. QED
  BY <1>4, <1>5, <1>6 DEF CleanStep

LEMMA CloseStep ==
  ASSUME StateOK, NEW id \in -1 .. MaxFileOpen, handle_SC_Close(id)
  PROVE  StateOK' /\ SlotStep /\ CleanStep
<1>1. CASE BadId(id)
  BY <1>1, BadIdStep
<1>2. CASE id \in Ids /\ id < reverseFD /\ Answer(id, -1)
  BY <1>2, AnswerStep
<1>3. CASE id \in Ids /\ CloseFile(id)
  <2>1. Null \in FileSlots /\ Null.kind = "null"
    BY SlotKinds DEF Null
  <2>2. /\ Kind(id) \in {"file", "nofile"} /\ Put(id, Null) /\ Return(id, 0)
        /\ Account(-1, 0) /\ dir' = dir /\ fault' = fault /\ Reclaim
    BY <1>3 DEF CloseFile
  <2>3. dir' \in [Names -> Inodes \cup {NoIno}] /\ size' \in [Inodes -> 0 .. MaxLen]
    BY <2>2, ReclaimSize DEF StateOK
  <2>4. QED
    BY <1>3, <2>1, <2>2, <2>3, OwnSlotStep
<1>4. CASE id \in Ids /\ closeTCP(id)
  BY <1>4, closeTCPStep
<1>5. CASE id \in Ids /\ CloseDeleted(id)
  BY <1>5, CloseDeletedStep
<1>6. QED
  BY <1>1, <1>2, <1>3, <1>4, <1>5 DEF handle_SC_Close

\* A read moves the position over what there is to read.
LEMMA ReadFileStep ==
  ASSUME StateOK, NEW id \in Ids, NEW n \in 0 .. MaxLen, IsFile(id), ReadFile(id, n)
  PROVE  StateOK' /\ SlotStep /\ CleanStep
<1> DEFINE s == fileSlot[id]
           got == ReadPartial(s, n)
<1>1. s \in FilesOnly
  BY SlotKinds DEF StateOK, IsFile, Kind
<1>2. s.pos \in 0 .. MaxLen /\ size[s.ino] \in 0 .. MaxLen
  BY <1>1 DEF FilesOnly, StateOK
<1>3. got \in Int /\ s.pos + got \in 0 .. MaxLen
  <2> DEFINE k == size[s.ino] - s.pos
  <2>1. k \in Int /\ n \in Int /\ s.pos + k =< MaxLen /\ n >= 0
    BY <1>2, LenAssumption
  <2>2. got = Max({0, Min({n, k})})
    BY DEF ReadPartial, Tell
  <2> HIDE DEF got, k
  <2>3. Min({n, k}) = IF n =< k THEN n ELSE k
    BY <2>1, MinOfTwo
  <2>4. Min({n, k}) \in Int /\ Min({n, k}) =< k
    BY <2>1, <2>3
  <2>5. got = IF 0 >= Min({n, k}) THEN 0 ELSE Min({n, k})
    BY <2>2, <2>4, MaxOfTwo
  <2>6. QED
    BY <2>1, <2>4, <2>5, <1>2, LenAssumption
<1>4. Put(id, Lseek(s, s.pos + got)) /\ Return(id, got) /\ UNCHANGED <<dir, size, fault>>
      /\ Account(0, 0)
  BY DEF ReadFile, Tell
<1>5. Lseek(s, s.pos + got) \in FileSlots /\ Lseek(s, s.pos + got).kind = "file"
  BY <1>1, <1>3, FileIsSlot, SlotKinds
<1>6. dir' \in [Names -> Inodes \cup {NoIno}] /\ size' \in [Inodes -> 0 .. MaxLen]
  BY <1>4 DEF StateOK
<1>7. QED
  BY <1>3, <1>4, <1>5, <1>6, OwnSlotStep DEF IsFile

LEMMA ReadStep ==
  ASSUME StateOK, NEW id \in -1 .. MaxFileOpen, NEW n \in 0 .. MaxLen, handle_SC_Read(id, n)
  PROVE  StateOK' /\ SlotStep /\ CleanStep
<1>1. CASE BadId(id)
  BY <1>1, BadIdStep
<1>2. CASE ReadConsole(id, n)
  <2>1. PICK k \in 0 .. n : Answer(id, IF id = 0 THEN k ELSE -1)
    BY <1>2 DEF ReadConsole
  <2>2. QED
    BY <2>1, AnswerStep
<1>3. CASE ReadSocket(id, n)
  BY <1>3, AnswerStep DEF ReadSocket
<1>4. CASE id \in Ids /\ IsFile(id) /\ ReadFile(id, n)
  BY <1>4, ReadFileStep
<1>5. CASE id \in Ids /\ Kind(id) \in {"nofile", "deadfile", "freed"} /\ Fault
  BY <1>5, DeadSlotStep
<1>6. QED
  BY <1>1, <1>2, <1>3, <1>4, <1>5 DEF handle_SC_Read

\* A write moves the position and may make the file longer.
LEMMA WriteDataStep ==
  ASSUME StateOK, NEW id \in Ids, NEW n \in 0 .. MaxLen, IsFile(id), WriteData(id, n)
  PROVE  StateOK' /\ SlotStep /\ CleanStep
<1> DEFINE s == fileSlot[id]
           to == s.pos + n
<1>1. s \in FilesOnly
  BY SlotKinds DEF StateOK, IsFile, Kind
<1>2. s.pos \in 0 .. MaxLen /\ s.ino \in Inodes /\ size[s.ino] \in 0 .. MaxLen
  BY <1>1 DEF FilesOnly, StateOK
<1>3. /\ to =< MaxLen /\ size' = [size EXCEPT ![s.ino] = Max({size[s.ino], to})]
      /\ Put(id, Lseek(s, to)) /\ Return(id, n) /\ UNCHANGED <<dir, fault>>
      /\ Account(0, 0)
  BY DEF WriteData, WriteFile, Tell
<1>4. to \in 0 .. MaxLen
  BY <1>2, <1>3, LenAssumption
<1> HIDE DEF to
<1>5. Max({size[s.ino], to}) \in 0 .. MaxLen
  <2>1. size[s.ino] \in Int /\ to \in Int
    BY <1>2, <1>4
  <2>2. Max({size[s.ino], to}) = IF size[s.ino] >= to THEN size[s.ino] ELSE to
    BY <2>1, MaxOfTwo
  <2>3. QED
    BY <2>2, <1>2, <1>4
<1>6. Lseek(s, to) \in FileSlots /\ Lseek(s, to).kind = "file"
  BY <1>1, <1>4, FileIsSlot, SlotKinds
<1>7. dir' \in [Names -> Inodes \cup {NoIno}] /\ size' \in [Inodes -> 0 .. MaxLen]
  <2> DEFINE m == Max({size[s.ino], to})
  <2>1. m \in 0 .. MaxLen /\ size' = [size EXCEPT ![s.ino] = m]
    BY <1>3, <1>5
  <2> HIDE DEF m
  <2>2. QED
    BY <2>1, <1>3, <1>2 DEF StateOK
<1>8. n \in Int
  OBVIOUS
<1>9. QED
  BY <1>3, <1>6, <1>7, <1>8, OwnSlotStep DEF IsFile

LEMMA WriteStep ==
  ASSUME StateOK, NEW id \in -1 .. MaxFileOpen, NEW n \in 0 .. MaxLen, handle_SC_Write(id, n)
  PROVE  StateOK' /\ SlotStep /\ CleanStep
<1>1. CASE BadId(id)
  BY <1>1, BadIdStep
<1>2. CASE WriteConsole(id, n)
  <2>1. PICK k \in 0 .. n : Answer(id, IF id = 1 THEN k ELSE -1)
    BY <1>2 DEF WriteConsole
  <2>2. QED
    BY <2>1, AnswerStep
<1>3. CASE SendSocket(id, n)
  BY <1>3, AnswerStep DEF SendSocket
<1>4. CASE WriteReadOnly(id) \/ WriteNothing(id, n)
  <2>1. SC_Write \in Int
    BY DEF SC_Write
  <2>2. QED
    BY <1>4, <2>1, AnswerStep DEF WriteReadOnly, WriteNothing
<1>5. CASE id \in Ids /\ IsFile(id) /\ WriteData(id, n)
  BY <1>5, WriteDataStep
<1>6. CASE id \in Ids /\ Kind(id) \in {"nofile", "deadfile", "freed"} /\ Fault
  BY <1>6, DeadSlotStep
<1>7. QED
  BY <1>1, <1>2, <1>3, <1>4, <1>5, <1>6 DEF handle_SC_Write

LEMMA SeekStep ==
  ASSUME StateOK, NEW id \in -1 .. MaxFileOpen, NEW position \in -2 .. MaxLen + 1,
         handle_SC_Seek(id, position)
  PROVE  StateOK' /\ SlotStep /\ CleanStep
<1>1. CASE BadId(id)
  BY <1>1, BadIdStep
<1>2. CASE Answer(id, -1)
  BY <1>2, AnswerStep
<1>3. CASE id \in Ids /\ IsFile(id) /\ SeekFile(id, position)
  <2> DEFINE s == fileSlot[id]
             end == size[s.ino]
             to == IF position = -1 THEN end ELSE position
             ok == to >= 0 /\ to <= end
             new == IF ok THEN to ELSE end
  <2>1. s \in FilesOnly
    BY <1>3, SlotKinds DEF StateOK, IsFile, Kind
  <2>2. end \in 0 .. MaxLen
    BY <2>1 DEF FilesOnly, StateOK
  <2>3. /\ Put(id, Lseek(s, new)) /\ Return(id, IF ok THEN to ELSE -1)
        /\ UNCHANGED <<dir, size, fault>> /\ Account(0, 0)
    BY <1>3 DEF SeekFile
  <2> HIDE DEF end
  <2>4. new \in 0 .. MaxLen /\ (IF ok THEN to ELSE -1) \in Int
    BY <2>2, LenAssumption
  <2> HIDE DEF new, ok, to
  <2>5. Lseek(s, new) \in FileSlots /\ Lseek(s, new).kind = "file"
    BY <2>1, <2>4, FileIsSlot, SlotKinds
  <2>6. dir' \in [Names -> Inodes \cup {NoIno}] /\ size' \in [Inodes -> 0 .. MaxLen]
    BY <2>3 DEF StateOK
  <2>7. QED
    BY <1>3, <2>3, <2>4, <2>5, <2>6, OwnSlotStep DEF IsFile
<1>4. CASE /\ id \in Ids /\ Kind(id) \in {"socket", "nofile", "deadfile", "freed"}
           /\ Fault
  BY <1>4, DeadSlotStep
<1>5. QED
  BY <1>1, <1>2, <1>3, <1>4 DEF handle_SC_Seek

-----------------------------------------------------------------------------
(* The calls on a name *)

LEMMA CreateStep ==
  ASSUME StateOK, NEW n \in Names, handle_SC_Create(n)
  PROVE  StateOK' /\ SlotStep /\ CleanStep
<1>1. dir' \in [Names -> Inodes \cup {NoIno}] /\ size' \in [Inodes -> 0 .. MaxLen]
  BY OpenForWriteState DEF handle_SC_Create
<1>2. UNCHANGED <<fileSlot, fault>> /\ Return(-1, 0) /\ Account(0, 0)
  BY DEF handle_SC_Create
<1>3. -1 \in -1 .. MaxFileOpen
  BY SizeAssumption
<1>4. StateOK'
  BY <1>1, <1>2, <1>3 DEF StateOK, Return, Account
<1>5. QED
  BY <1>2, <1>4 DEF SlotStep, CleanStep, NoOpenFile, Kind

\* Open of a file there is, or of a new one.
LEMMA OpenStep ==
  ASSUME StateOK, NEW n \in Names, NEW type \in Types,
         OpenExisting(n, type) \/ OpenNew(n)
  PROVE  StateOK' /\ SlotStep /\ CleanStep
<1>1. /\ FindFreeSlot # -1 /\ Return(FindFreeSlot, FindFreeSlot) /\ fault' = fault
      /\ Account(1, 0)
  BY DEF OpenExisting, OpenNew
<1>2. FindFreeSlot \in -1 .. MaxFileOpen /\ FindFreeSlot \in Int
  BY <1>1, FreeSlot, SizeAssumption DEF Ids
<1>3. PICK s \in FilesOnly : /\ Put(FindFreeSlot, s)
                             /\ dir' \in [Names -> Inodes \cup {NoIno}]
                             /\ size' \in [Inodes -> 0 .. MaxLen]
  <2>1. CASE OpenExisting(n, type)
    <3>1. dir[n] \in Inodes /\ Put(FindFreeSlot, File(dir[n], type)) /\ UNCHANGED <<dir, size>>
      BY <2>1 DEF OpenExisting, StateOK
    <3>2. File(dir[n], type) \in FilesOnly
      BY <3>1, FileIsSlot
    <3>3. QED
      BY <3>1, <3>2 DEF StateOK
  <2>2. CASE OpenNew(n)
    <3>1. PICK f \in Inodes : OpenForWrite(n, f) /\ Put(FindFreeSlot, File(f, 4))
      BY <2>2 DEF OpenNew
    <3>2. File(f, 4) \in FilesOnly
      BY FileIsSlot DEF Types
    <3>3. QED
      BY <3>1, <3>2, OpenForWriteState
  <2>3. QED
    BY <2>1, <2>2
<1>4. s \in FileSlots /\ s.kind = "file" /\ s.kind \in LentKinds
  BY SlotKinds DEF LentKinds
<1>5. QED
  BY <1>1, <1>2, <1>3, <1>4, TakeStep

\* A Remove follows a freed name when a file is open.
LEMMA RemoveStep ==
  ASSUME StateOK, fault = FALSE, NEW n \in Names, handle_SC_Remove(n)
  PROVE  StateOK' /\ SlotStep /\ (OpenIds = {} => CleanStep)
<1>1. -1 \in -1 .. MaxFileOpen
  BY SizeAssumption
<1>2. CASE RemoveRefused
  <2>1. /\ UNCHANGED <<fileSlot, dir, size>> /\ Return(-1, -1) /\ Account(0, 0)
        /\ fault' = TRUE /\ OpenIds # {}
    BY <1>2 DEF RemoveRefused
  <2>2. StateOK'
    BY <2>1, <1>1 DEF StateOK, Return, Account
  <2>3. QED
    BY <2>1, <2>2 DEF SlotStep
<1>3. CASE RemoveUnlink(n)
  <2>1. size' \in [Inodes -> 0 .. MaxLen]
    BY <1>3, ReclaimSize DEF RemoveUnlink
  <2>2. /\ dir' = [dir EXCEPT ![n] = NoIno] /\ UNCHANGED fileSlot
        /\ fault' \in BOOLEAN /\ (OpenIds = {} => fault' = FALSE)
        /\ Return(-1, IF dir[n] = NoIno THEN -1 ELSE 0) /\ Account(0, 0)
    BY <1>3 DEF RemoveUnlink
  <2>3. call' \in [id : -1 .. MaxFileOpen, r2 : Int]
    BY <2>2, <1>1 DEF Return
  <2>4. StateOK'
    BY <2>1, <2>2, <2>3 DEF StateOK, Account
  <2>5. QED
    BY <2>2, <2>4 DEF SlotStep, CleanStep, NoOpenFile, Kind
<1>4. CASE NoOpenFile # {} /\ Fault
  BY <1>4, FaultStep DEF CleanStep
<1>5. QED
  BY <1>2, <1>3, <1>4 DEF handle_SC_Remove

\* Every file call keeps a clean table clean.
LEMMA FileCallStep ==
  ASSUME StateOK, FileCall
  PROVE  StateOK' /\ SlotStep /\ CleanStep
<1>1. -1 \in -1 .. MaxFileOpen /\ 0 \in -1 .. MaxFileOpen /\ 1 \in -1 .. MaxFileOpen
  BY SizeAssumption DEF reverseFD
<1>2. CASE OpenFull \/ \E n \in Names : ExecFails(n)
  BY <1>1, <1>2, AnswerStep DEF OpenFull, ExecFails
<1>3. CASE \E id \in {0, 1} : OpenConsole(id)
  BY <1>1, <1>3, AnswerStep DEF OpenConsole
<1>4. CASE \E n \in Names : handle_SC_Create(n)
  BY <1>4, CreateStep
<1>5. CASE \E n \in Names : OpenNew(n) \/ \E type \in Types : OpenExisting(n, type)
  <2>1. 4 \in Types
    BY DEF Types
  <2>2. QED
    BY <1>5, <2>1, OpenStep
<1>7. CASE \E id \in -1 .. MaxFileOpen : handle_SC_Close(id)
  BY <1>7, CloseStep
<1>8. CASE \E id \in -1 .. MaxFileOpen, n \in 0 .. MaxLen :
             handle_SC_Read(id, n) \/ handle_SC_Write(id, n)
  BY <1>8, ReadStep, WriteStep
<1>9. CASE \E id \in -1 .. MaxFileOpen, position \in -2 .. MaxLen + 1 :
             handle_SC_Seek(id, position)
  BY <1>9, SeekStep
<1>10. QED
  BY <1>2, <1>3, <1>4, <1>5, <1>7, <1>8, <1>9 DEF FileCall

-----------------------------------------------------------------------------
(* Sockets, failed Opens and Exec *)

LEMMA SocketIdStep ==
  ASSUME StateOK, NEW id \in -1 .. MaxFileOpen, NEW none \in Int,
         handle_SC_SocketTCP(id, none)
  PROVE  StateOK' /\ SlotStep
<1>1. Answer(id, -1) \/ Answer(id, none) \/ Fault
  BY DEF handle_SC_SocketTCP
<1>2. QED
  BY <1>1, AnswerStep, FaultStep

LEMMA SocketCallStep ==
  ASSUME StateOK, SocketCall
  PROVE  StateOK' /\ SlotStep
<1>1. -1 \in -1 .. MaxFileOpen
  BY SizeAssumption
<1>2. CASE createTCP
  <2>1. FindFreeSlot # -1 /\ FindFreeSlot \in -1 .. MaxFileOpen /\ FindFreeSlot \in Int
    BY <1>2, FreeSlot, SizeAssumption DEF Ids, createTCP
  <2>2. OpenSocketInternet \in FileSlots /\ OpenSocketInternet.kind \in LentKinds
    BY SlotKinds DEF OpenSocketInternet, LentKinds
  <2>3. /\ Put(FindFreeSlot, OpenSocketInternet) /\ Return(FindFreeSlot, FindFreeSlot)
        /\ UNCHANGED <<dir, size, fault>> /\ Account(1, 0)
    BY <1>2 DEF createTCP
  <2>4. dir' \in [Names -> Inodes \cup {NoIno}] /\ size' \in [Inodes -> 0 .. MaxLen]
    BY <2>3 DEF StateOK
  <2>5. QED
    BY <2>1, <2>2, <2>3, <2>4, TakeStep
<1>3. CASE OpenFull
  BY <1>1, <1>3, AnswerStep DEF OpenFull
<1>4. ASSUME NEW id \in -1 .. MaxFileOpen, handle_SC_SocketTCP_Connect(id)
      PROVE  StateOK' /\ SlotStep
  BY <1>4, SocketIdStep, AnswerStep DEF handle_SC_SocketTCP_Connect, ConnectTCP
<1>5. ASSUME NEW id \in -1 .. MaxFileOpen, handle_SC_SocketTCP_Close(id)
      PROVE  StateOK' /\ SlotStep
  BY <1>5, SocketIdStep, closeTCPStep DEF handle_SC_SocketTCP_Close
<1>6. ASSUME NEW id \in -1 .. MaxFileOpen, NEW n \in 0 .. MaxLen,
             handle_SC_SocketTCP_Send(id, n)
      PROVE  StateOK' /\ SlotStep
  BY <1>6, SocketIdStep, AnswerStep, FaultStep DEF handle_SC_SocketTCP_Send, SendSocket
<1>7. ASSUME NEW id \in -1 .. MaxFileOpen, NEW n \in 0 .. MaxLen,
             handle_SC_SocketTCP_Receive(id, n)
      PROVE  StateOK' /\ SlotStep
  BY <1>7, SocketIdStep, AnswerStep DEF handle_SC_SocketTCP_Receive, ReadSocket
<1>8. QED
  BY <1>2, <1>3, <1>4, <1>5, <1>6, <1>7 DEF SocketCall

LEMMA FailedStep ==
  ASSUME StateOK, FailedOpenOrExec
  PROVE  StateOK' /\ SlotStep
<1>1. FindFreeSlot # -1 /\ UNCHANGED <<dir, size, fault>>
  BY DEF FailedOpenOrExec, ExecOpen, OpenMissing
<1>2. FindFreeSlot \in -1 .. MaxFileOpen /\ FindFreeSlot \in Int
  BY <1>1, FreeSlot, SizeAssumption DEF Ids
<1>3. \/ Put(FindFreeSlot, DeadFile) /\ Return(-1, 0) /\ Account(0, 1)
      \/ Put(FindFreeSlot, NoFile) /\ Return(FindFreeSlot, FindFreeSlot) /\ Account(1, 0)
  BY DEF FailedOpenOrExec, ExecOpen, OpenMissing
<1>4. dir' \in [Names -> Inodes \cup {NoIno}] /\ size' \in [Inodes -> 0 .. MaxLen]
  BY <1>1 DEF StateOK
<1>5. /\ DeadFile \in FileSlots /\ NoFile \in FileSlots /\ -1 \in -1 .. MaxFileOpen
      /\ DeadFile.kind = "deadfile" /\ NoFile.kind \in LentKinds
  BY SlotKinds, SizeAssumption DEF DeadFile, NoFile, LentKinds
<1>6. CASE Put(FindFreeSlot, DeadFile) /\ Return(-1, 0) /\ Account(0, 1)
  BY <1>1, <1>4, <1>5, <1>6, TakeStep
<1>7. CASE Put(FindFreeSlot, NoFile) /\ Return(FindFreeSlot, FindFreeSlot) /\ Account(1, 0)
  BY <1>1, <1>2, <1>4, <1>5, <1>7, TakeStep
<1>8. QED
  BY <1>3, <1>6, <1>7

-----------------------------------------------------------------------------
(* Counting slots *)

\* When one slot changes, the number of slots of some kinds changes with it.
LEMMA OneChanges ==
  ASSUME StateOK, StateOK', NEW i \in Ids, NEW kinds,
         \A j \in Ids : j # i => fileSlot'[j] = fileSlot[j]
  PROVE  /\ Cardinality(Of(kinds)) \in Nat
         /\ Cardinality(Of(kinds)') = Cardinality(Of(kinds)) + One(fileSlot'[i].kind, kinds)
                                        - One(Kind(i), kinds)
<1> DEFINE rest == {j \in Ids \ {i} : Kind(j) \in kinds}
           here == Kind(i) \in kinds
           then == fileSlot'[i].kind \in kinds
<1>1. IsFiniteSet(Ids)
  BY FS_Interval, SizeAssumption DEF Ids
<1>2. IsFiniteSet(rest)
  BY <1>1, FS_Subset
<1>3. Cardinality(rest) \in Nat /\ Cardinality(rest \cup {i}) = Cardinality(rest) + 1
  BY <1>2, FS_CardinalityType, FS_AddElement
<1>4. Of(kinds) = IF here THEN rest \cup {i} ELSE rest
  BY DEF Of
<1>5. Of(kinds)' = IF then THEN rest \cup {i} ELSE rest
  BY DEF Of, Kind
<1>6. One(Kind(i), kinds) = (IF here THEN 1 ELSE 0) /\ One(fileSlot'[i].kind, kinds) = IF then THEN 1 ELSE 0
  BY DEF One
<1> HIDE DEF here, then, rest
<1>7. QED
  BY <1>3, <1>4, <1>5, <1>6

\* SlotsAccounted in terms of the kinds.
LEMMA AccountedIs ==
  SlotsAccounted <=>
    (fault \/ /\ Cardinality(Of(LentKinds)) = lent
              /\ Cardinality(Of(FreeKinds)) = MaxFileOpen - reverseFD - lent - spent)
<1>1. Of(LentKinds) = {i \in Ids : Kind(i) \in {"file", "nofile", "socket"}}
  BY DEF Of, LentKinds
<1>2. Of(FreeKinds) = {i \in Ids : Kind(i) = "null"}
  BY DEF Of, FreeKinds
<1>3. QED
  BY <1>1, <1>2 DEF SlotsAccounted

\* A call keeps the account.
LEMMA AccountStep ==
  ASSUME StateOK, StateOK', SlotStep, fault = FALSE, SlotsAccounted
  PROVE  SlotsAccounted'
<1>1. SUFFICES ASSUME fault' = FALSE
               PROVE  /\ Cardinality(Of(LentKinds)') = lent'
                      /\ Cardinality(Of(FreeKinds)') = MaxFileOpen - reverseFD - lent' - spent'
  <2>1. /\ Of(LentKinds)' = {i \in Ids : Kind(i) \in {"file", "nofile", "socket"}}'
        /\ Of(FreeKinds)' = {i \in Ids : Kind(i) = "null"}'
    BY DEF Of, Kind, LentKinds, FreeKinds
  <2>2. fault' \in BOOLEAN
    BY DEF StateOK
  <2>3. QED
    BY <2>1, <2>2 DEF SlotsAccounted
<1>2. /\ Cardinality(Of(LentKinds)) = lent
      /\ Cardinality(Of(FreeKinds)) = MaxFileOpen - reverseFD - lent - spent
  BY AccountedIs
<1>3. /\ lent \in Int /\ spent \in Int /\ lent' \in Int /\ spent' \in Int
      /\ MaxFileOpen \in Int /\ reverseFD \in Int
  BY SizeAssumption DEF StateOK, reverseFD
<1>4. CASE fileSlot' = fileSlot /\ Account(0, 0)
  <2>1. Of(LentKinds)' = Of(LentKinds) /\ Of(FreeKinds)' = Of(FreeKinds)
    BY <1>4 DEF Of, Kind, LentKinds, FreeKinds
  <2>2. lent' = lent /\ spent' = spent
    BY <1>3, <1>4 DEF Account
  <2>3. QED
    BY <1>2, <2>1, <2>2
<1>5. ASSUME NEW i \in Ids, \A j \in Ids : j # i => fileSlot'[j] = fileSlot[j],
             Balanced(Kind(i), fileSlot'[i].kind, lent' - lent, spent' - spent)
      PROVE  /\ Cardinality(Of(LentKinds)') = lent'
             /\ Cardinality(Of(FreeKinds)') = MaxFileOpen - reverseFD - lent' - spent'
  <2>1. PICK a, aNew, b, bNew \in Int : a = lent /\ aNew = lent' /\ b = spent /\ bNew = spent'
    BY <1>3
  <2>2. PICK l, lNew, f, fNew \in Int :
          /\ l = One(Kind(i), LentKinds) /\ lNew = One(fileSlot'[i].kind, LentKinds)
          /\ f = One(Kind(i), FreeKinds) /\ fNew = One(fileSlot'[i].kind, FreeKinds)
    BY DEF One
  <2>3. /\ Cardinality(Of(LentKinds)') = Cardinality(Of(LentKinds)) + lNew - l
        /\ Cardinality(Of(FreeKinds)') = Cardinality(Of(FreeKinds)) + fNew - f
    BY <1>5, <2>2, OneChanges
  <2>4. lNew = l + (aNew - a) /\ fNew = f - (aNew - a) - (bNew - b)
    BY <1>5, <2>1, <2>2 DEF Balanced
  <2>5. /\ a + lNew - l = aNew
        /\ MaxFileOpen - reverseFD - a - b + fNew - f = MaxFileOpen - reverseFD - aNew - bNew
    BY <1>3, <2>4
  <2>6. QED
    BY <1>2, <2>1, <2>3, <2>5
<1>6. QED
  BY <1>1, <1>4, <1>5 DEF SlotStep

LEMMA AccountInit == Init => SlotsAccounted
<1>1. SUFFICES ASSUME Init PROVE SlotsAccounted
  OBVIOUS
<1>2. Of(LentKinds) = {} /\ Of(FreeKinds) = reverseFD .. MaxFileOpen - 1
  BY <1>1, SizeAssumption DEF Init, Of, Kind, LentKinds, FreeKinds, Console, Null, Ids, reverseFD
<1>3. Cardinality({}) = 0 /\ Cardinality(reverseFD .. MaxFileOpen - 1) = MaxFileOpen - reverseFD
  BY FS_EmptySet, FS_Interval, SizeAssumption DEF reverseFD
<1>4. lent = 0 /\ spent = 0
  BY <1>1 DEF Init
<1>5. QED
  BY <1>2, <1>3, <1>4, AccountedIs, SizeAssumption DEF reverseFD

-----------------------------------------------------------------------------
(* The theorems *)

FilesInv == TypeOK /\ CleanNeverFaults /\ SlotsAccounted

LEMMA NextStep ==
  ASSUME FilesInv, Next
  PROVE  FilesInv' /\ SlotStep
<1>1. StateOK /\ fault = FALSE
  BY DEF FilesInv, TypeOK, StateOK, Next
<1>2. CASE FileCall /\ clean' = clean
  <2>1. StateOK' /\ SlotStep /\ CleanStep
    BY <1>1, <1>2, FileCallStep
  <2>2. SlotsAccounted'
    BY <1>1, <2>1, AccountStep DEF FilesInv
  <2>3. QED
    BY <1>2, <2>1, <2>2 DEF FilesInv, TypeOK, StateOK, CleanStep, CleanNeverFaults
<1>3. CASE (\E n \in Names : handle_SC_Remove(n)) /\ clean' = (clean /\ OpenIds = {})
  <2>1. StateOK' /\ SlotStep /\ (OpenIds = {} => CleanStep)
    BY <1>1, <1>3, RemoveStep
  <2>2. SlotsAccounted'
    BY <1>1, <2>1, AccountStep DEF FilesInv
  <2>3. clean' \in BOOLEAN
    BY <1>3
  <2>4. QED
    BY <1>3, <2>1, <2>2, <2>3 DEF FilesInv, TypeOK, StateOK, CleanStep, CleanNeverFaults
<1>4. CASE (SocketCall \/ FailedOpenOrExec) /\ clean' = FALSE
  <2>1. StateOK' /\ SlotStep
    BY <1>1, <1>4, SocketCallStep, FailedStep
  <2>2. SlotsAccounted'
    BY <1>1, <2>1, AccountStep DEF FilesInv
  <2>3. QED
    BY <1>4, <2>1, <2>2 DEF FilesInv, TypeOK, StateOK, CleanNeverFaults
<1>5. QED
  BY <1>2, <1>3, <1>4 DEF Next

LEMMA InitFiles == Init => FilesInv
<1>1. SUFFICES ASSUME Init PROVE TypeOK /\ CleanNeverFaults
  BY AccountInit DEF FilesInv
<1>2. fileSlot \in [Ids -> FileSlots]
  BY <1>1, SlotKinds DEF Init
<1>3. \A i \in Ids : Kind(i) \in {"console", "null"}
  BY <1>1 DEF Init, Kind, Console, Null
<1>4. /\ dir \in [Names -> Inodes \cup {NoIno}] /\ size \in [Inodes -> 0 .. MaxLen]
      /\ call \in [id : -1 .. MaxFileOpen, r2 : Int] /\ clean = TRUE /\ fault = FALSE
      /\ lent \in Int /\ spent \in Nat
  BY <1>1, LenAssumption, SizeAssumption DEF Init
<1>5. QED
  BY <1>2, <1>3, <1>4 DEF TypeOK, CleanNeverFaults, NoOpenFile

LEMMA StutterFiles ==
  ASSUME FilesInv, UNCHANGED vars
  PROVE  FilesInv'
<1>1. TypeOK' /\ CleanNeverFaults'
  BY DEF FilesInv, vars, TypeOK, CleanNeverFaults, NoOpenFile, Kind
<1>2. SlotsAccounted'
  BY DEF FilesInv, vars, SlotsAccounted, Kind
<1>3. QED
  BY <1>1, <1>2 DEF FilesInv

LEMMA FilesInvariant == Spec => []FilesInv
<1>1. FilesInv /\ [Next]_vars => FilesInv'
  BY NextStep, StutterFiles
<1>2. QED
  BY <1>1, InitFiles, PTL DEF Spec

\* Every slot of the table holds what a FileSlot can be, positions and lengths
\* stay within the length of a file.
THEOREM FilesTypeTheorem == Spec => []TypeOK
<1>1. FilesInv => TypeOK
  BY DEF FilesInv
<1>2. QED
  BY <1>1, FilesInvariant, PTL

\* Until an Open fails, a program is executed, a socket call is made or a Remove
\* comes while a file is open, no sequence of file calls follows a null or freed
\* pointer, in a table of any size.
THEOREM CleanTheorem == Spec => []CleanNeverFaults
<1>1. FilesInv => CleanNeverFaults
  BY DEF FilesInv
<1>2. QED
  BY <1>1, FilesInvariant, PTL

\* Until a fault, every slot is lent, used up by one Exec or one closed socket, or
\* free, in a table of any size.
THEOREM AccountTheorem == Spec => []SlotsAccounted
<1>1. FilesInv => SlotsAccounted
  BY DEF FilesInv
<1>2. QED
  BY <1>1, FilesInvariant, PTL

\* A call never touches what another id has open.
THEOREM IndependentTheorem == Spec => IdsIndependent
<1>1. ASSUME FilesInv, [Next]_vars
      PROVE  [\A i \in Ids : IsFile(i) /\ fileSlot'[i] # fileSlot[i] => call'.id = i]_vars
  <2>1. SUFFICES ASSUME Next, NEW i \in Ids, IsFile(i), fileSlot'[i] # fileSlot[i]
                 PROVE  call'.id = i
    BY <1>1
  <2>2. SlotStep
    BY <1>1, <2>1, NextStep
  <2>3. QED
    BY <2>1, <2>2 DEF SlotStep, IsFile
<1>2. QED
  BY <1>1, FilesInvariant, PTL DEF Spec, IdsIndependent

-----------------------------------------------------------------------------
(* The socket service: bytes and strings *)

LEMMA Numbers ==
  /\ NumSocket \in Nat /\ NumSocket >= 1
  /\ MsgLen \in Nat /\ MsgLen >= 1
  /\ MaxClients \in Nat /\ MaxClients >= 1
  /\ BufLen \in Nat /\ BufLen = MsgLen + 2
  BY ServiceAssumption DEF BufLen

LEMMA ByteTypes ==
  /\ NUL \in Bytes
  /\ \A k \in Conns, j \in Nat : Byte(k, j) \in Bytes /\ Byte(k, j) # NUL
  /\ \A b \in Bytes : toupper(b) \in Bytes
<1>1. NUL \in Bytes
  BY DEF NUL, Bytes
<1>2. ASSUME NEW k \in Conns, NEW j \in Nat PROVE Byte(k, j) \in Bytes /\ Byte(k, j) # NUL
  BY ServiceAssumption DEF NUL, Bytes, Byte
<1>3. ASSUME NEW b \in Bytes PROVE toupper(b) \in Bytes
  BY <1>1 DEF Bytes, toupper
<1>4. QED
  BY <1>1, <1>2, <1>3

LEMMA TupleSeq ==
  ASSUME NEW S, NEW n \in Nat, NEW f \in [1 .. n -> S]
  PROVE  f \in Seq(S) /\ Len(f) = n
  OBVIOUS

\* strlen stops at the first NUL, or at the end of the buffer.
LEMMA StrLenIs ==
  ASSUME NEW b \in [1 .. BufLen -> Bytes]
  PROVE  /\ StrLen(b) \in 0 .. BufLen
         /\ \A j \in 1 .. StrLen(b) : b[j] # NUL
         /\ StrLen(b) < BufLen => b[StrLen(b) + 1] = NUL
<1> DEFINE Z == {j \in 1 .. BufLen : b[j] = NUL}
           Is(n) == /\ \A j \in 1 .. n : b[j] # NUL
                    /\ n < Len(b) => b[n + 1] = NUL
<1>1. Len(b) = BufLen /\ BufLen \in Nat
  BY Numbers, TupleSeq
<1>2. CASE Z = {}
  <2>1. Is(BufLen)
    BY <1>1, <1>2
  <2>2. QED
    BY <2>1, <1>1 DEF StrLen
<1>3. CASE Z # {}
  <2>1. Z \subseteq Nat
    BY <1>1
  <2> HIDE DEF Z
  <2>2. PICK x \in Z : \A y \in Z : ~ (<<y, x>> \in OpToRel(<, Nat))
    BY <1>3, <2>1, NatLessThanWellFounded, WFMin, Zenon
  <2>3. ASSUME NEW y \in Z PROVE ~ (y < x)
    BY <2>1, <2>2 DEF OpToRel
  <2> USE DEF Z
  <2>4. x \in 1 .. BufLen /\ b[x] = NUL /\ x - 1 \in 0 .. BufLen
    BY <1>1
  <2>5. \A j \in 1 .. x - 1 : b[j] # NUL
    BY <1>1, <2>3, <2>4
  <2>6. Is(x - 1)
    BY <1>1, <2>4, <2>5
  <2>7. \E n \in 0 .. Len(b) : Is(n)
    BY <2>6, <2>4, <1>1
  <2>8. QED
    BY <2>7, <1>1 DEF StrLen
<1>4. QED
  BY <1>2, <1>3

\* Receiving a piece s over a buffer of NULs, and what is sent back: capitals
\* for as much of s as comes before its first NUL.
LEMMA ReplyIs ==
  ASSUME NEW s \in Seq(Bytes), Len(s) <= BufLen
  PROVE  LET b == Overwrite(Blank, s) IN
         /\ b \in [1 .. BufLen -> Bytes]
         /\ Reply(b) \in Seq(Bytes)
         /\ Len(Reply(b)) = StrLen(b) /\ StrLen(b) \in Nat
         /\ StrLen(b) <= Len(s)
         /\ \A j \in 1 .. StrLen(b) : s[j] # NUL /\ Reply(b)[j] = toupper(s[j])
         /\ StrLen(b) < Len(s) => s[StrLen(b) + 1] = NUL
<1> DEFINE b == Overwrite(Blank, s)
<1>1. BufLen \in Nat /\ Len(s) \in Nat /\ \A j \in 1 .. Len(s) : s[j] \in Bytes
  BY Numbers, ElementOfSeq
<1>2. /\ b \in [1 .. BufLen -> Bytes]
      /\ \A j \in 1 .. BufLen : b[j] = IF j <= Len(s) THEN s[j] ELSE NUL
  BY <1>1, ByteTypes DEF Overwrite, Blank
<1> HIDE DEF b
<1>3. /\ StrLen(b) \in 0 .. BufLen
      /\ \A j \in 1 .. StrLen(b) : b[j] # NUL
      /\ StrLen(b) < BufLen => b[StrLen(b) + 1] = NUL
  BY <1>2, StrLenIs
<1>4. Reply(b) \in [1 .. StrLen(b) -> Bytes]
  <2>1. \A j \in 1 .. StrLen(b) : toupper(b[j]) \in Bytes
    BY <1>1, <1>2, <1>3, ByteTypes
  <2>2. QED
    BY <2>1 DEF Reply
<1>5. StrLen(b) \in Nat /\ Reply(b) \in Seq(Bytes) /\ Len(Reply(b)) = StrLen(b)
  <2>1. StrLen(b) \in Nat
    BY <1>1, <1>3
  <2>2. QED
    BY <2>1, <1>4, TupleSeq
<1>6. StrLen(b) <= Len(s)
  <2>1. SUFFICES ASSUME StrLen(b) > Len(s) PROVE FALSE
    BY <1>1, <1>5
  <2>2. Len(s) + 1 \in 1 .. StrLen(b) /\ Len(s) + 1 \in 1 .. BufLen
    BY <1>1, <1>3, <2>1
  <2>3. b[Len(s) + 1] = NUL
    BY <1>1, <1>2, <2>2
  <2>4. QED
    BY <2>2, <2>3, <1>3
<1>7. ASSUME NEW j \in 1 .. StrLen(b) PROVE s[j] # NUL /\ Reply(b)[j] = toupper(s[j])
  <2>1. j \in 1 .. BufLen /\ j <= Len(s)
    BY <1>1, <1>3, <1>6
  <2>2. b[j] = s[j] /\ b[j] # NUL
    BY <2>1, <1>2, <1>3
  <2>3. QED
    BY <2>2 DEF Reply
<1>8. ASSUME StrLen(b) < Len(s) PROVE s[StrLen(b) + 1] = NUL
  <2>1. StrLen(b) + 1 \in 1 .. BufLen /\ StrLen(b) + 1 <= Len(s) /\ StrLen(b) < BufLen
    BY <1>1, <1>5, <1>8
  <2>2. QED
    BY <2>1, <1>2, <1>3
<1>9. QED
  BY <1>2, <1>5, <1>6, <1>7, <1>8 DEF b

\* Over any buffer, as test/server.c receives: only its type is known.
LEMMA OverwriteType ==
  ASSUME NEW n \in Nat, NEW b \in [1 .. n -> Bytes], NEW s \in Seq(Bytes)
  PROVE  /\ Overwrite(b, s) \in [1 .. n -> Bytes]
         /\ \A j \in 1 .. n : j <= Len(s) => Overwrite(b, s)[j] = s[j]
         /\ \A j \in 1 .. n : j > Len(s) => Overwrite(b, s)[j] = b[j]
<1>1. Len(s) \in Nat /\ \A j \in 1 .. Len(s) : s[j] \in Bytes
  BY ElementOfSeq
<1>2. QED
  BY <1>1 DEF Overwrite

LEMMA ReplyType ==
  ASSUME NEW b \in [1 .. BufLen -> Bytes]
  PROVE  Reply(b) \in Seq(Bytes)
<1>1. StrLen(b) \in 0 .. BufLen /\ BufLen \in Nat
  BY StrLenIs, Numbers
<1>2. \A j \in 1 .. StrLen(b) : toupper(b[j]) \in Bytes
  BY <1>1, ByteTypes
<1>3. Reply(b) \in [1 .. StrLen(b) -> Bytes] /\ StrLen(b) \in Nat
  BY <1>1, <1>2 DEF Reply
<1>4. QED
  BY <1>3, TupleSeq

-----------------------------------------------------------------------------
(* Types *)

TypeInv == ServiceTypeOK /\ IsFiniteSet(table)

\* A client's turn is one of its connections.
LEMMA CurConn ==
  ASSUME ServiceTypeOK, NEW c \in Clients
  PROVE  Cur(c) \in Conns /\ Cur(c)[1] = c /\ Cur(c)[2] = round[c]
  BY Numbers DEF ServiceTypeOK, Cur, Conns, Clients

LEMMA CloseAllTypes ==
  ASSUME TypeInv, NEW c \in Clients, CloseAll(c),
         pc' \in [Clients -> {"connect", "send", "recv", "next", "done", "killed"}],
         UNCHANGED round
  PROVE  TypeInv'
<1>1. down' \in [Conns -> Seq(Bytes)]
  BY EmptySeq DEF CloseAll, TypeInv, ServiceTypeOK
<1>2. reset' \in SUBSET Conns
  BY DEF CloseAll, TypeInv, ServiceTypeOK, Sockets
<1>3. cend' \in [Conns -> {"none", "open", "closed"}]
  BY DEF CloseAll, TypeInv, ServiceTypeOK, Sockets
<1>4. QED
  BY <1>1, <1>2, <1>3 DEF CloseAll, TypeInv, ServiceTypeOK, serverVars

\* What recv takes and what it leaves.
LEMMA Pieces ==
  ASSUME NEW s \in Seq(Bytes), NEW n \in 1 .. Len(s)
  PROVE  /\ SubSeq(s, 1, n) \in Seq(Bytes) /\ Len(SubSeq(s, 1, n)) = n
         /\ \A j \in 1 .. n : SubSeq(s, 1, n)[j] = s[j]
         /\ SubSeq(s, n + 1, Len(s)) \in Seq(Bytes)
         /\ Len(SubSeq(s, n + 1, Len(s))) = Len(s) - n
         /\ \A j \in 1 .. Len(s) - n : SubSeq(s, n + 1, Len(s))[j] = s[n + j]
         /\ n = Len(s) => SubSeq(s, n + 1, Len(s)) = <<>>
<1>1. Len(s) \in Nat /\ \A j \in 1 .. Len(s) : s[j] \in Bytes
  BY ElementOfSeq
<1>2. /\ SubSeq(s, 1, n) \in Seq(Bytes) /\ Len(SubSeq(s, 1, n)) = n
      /\ \A j \in 1 .. n : SubSeq(s, 1, n)[j] = s[j]
  <2>1. \A j \in 1 .. n : s[j] \in Bytes
    BY <1>1
  <2>2. QED
    BY <2>1, <1>1, SubSeqProperties
<1>3. /\ SubSeq(s, n + 1, Len(s)) \in Seq(Bytes)
      /\ Len(SubSeq(s, n + 1, Len(s))) = Len(s) - n
      /\ \A j \in 1 .. Len(s) - n : SubSeq(s, n + 1, Len(s))[j] = s[n + j]
  <2>1. \A j \in n + 1 .. Len(s) : s[j] \in Bytes
    BY <1>1
  <2>2. n + 1 \in Int /\ Len(s) \in Int
    BY <1>1
  <2>3. QED
    BY <2>1, <2>2, <1>1, SubSeqProperties
<1>4. n = Len(s) => SubSeq(s, n + 1, Len(s)) = <<>>
  BY <1>3, EmptySeq
<1>5. QED
  BY <1>2, <1>3, <1>4

LEMMA ClientTypes ==
  ASSUME TypeInv, NEW c \in Clients, ClientStep(c) \/ Killed(c)
  PROVE  TypeInv'
<1>0. Cur(c) \in Conns
  BY CurConn DEF TypeInv
<1> USE DEF TypeInv
<1>1. CASE Connect(c)
  <2>1. backlog' \in Seq(Conns)
    BY <1>0, <1>1, AppendProperties DEF Connect, ServiceTypeOK
  <2>2. QED
    BY <2>1, <1>0, <1>1 DEF Connect, ServiceTypeOK, serverVars
<1>2. CASE ConnectFails(c)
  BY <1>2 DEF ConnectFails, ServiceTypeOK, serverVars, tcp
<1>3. CASE Write(c)
  <2>1. content[Cur(c)] \in Seq(Bytes)
    BY <1>0, TupleSeq, Numbers DEF ServiceTypeOK
  <2>2. up[Cur(c)] \o content[Cur(c)] \in Seq(Bytes)
    BY <1>0, <2>1, ConcatProperties DEF ServiceTypeOK
  <2>3. up' \in [Conns -> Seq(Bytes)]
    BY <2>2, <1>0, <1>3 DEF Write, ServiceTypeOK
  <2>4. QED
    BY <2>3, <1>3 DEF Write, ServiceTypeOK, serverVars
<1>4. CASE WriteFails(c)
  BY <1>4 DEF WriteFails, ServiceTypeOK, serverVars, tcp
<1>5. CASE Read(c)
  <2> DEFINE k == Cur(c)
  <2>1. PICK n \in 1 .. Len(down[k]) :
           /\ content' = [content EXCEPT ![k] = Overwrite(@, SubSeq(down[k], 1, n))]
           /\ down' = [down EXCEPT ![k] = SubSeq(@, n + 1, Len(@))]
    BY <1>5 DEF Read
  <2>2. down[k] \in Seq(Bytes) /\ Len(down[k]) \in Nat /\ \A j \in 1 .. Len(down[k]) : down[k][j] \in Bytes
    BY <1>0, ElementOfSeq DEF ServiceTypeOK
  <2>3. SubSeq(down[k], 1, n) \in Seq(Bytes) /\ SubSeq(down[k], n + 1, Len(down[k])) \in Seq(Bytes)
    BY <2>1, <2>2, Pieces
  <2>4. Overwrite(content[k], SubSeq(down[k], 1, n)) \in [1 .. MsgLen + 1 -> Bytes]
    <3>1. content[k] \in [1 .. MsgLen + 1 -> Bytes] /\ MsgLen + 1 \in Nat
      BY <1>0, Numbers DEF ServiceTypeOK
    <3>2. QED
      BY <2>3, <3>1, OverwriteType
  <2>5. down' \in [Conns -> Seq(Bytes)]
    BY <2>1, <2>3, <1>0 DEF ServiceTypeOK
  <2>6. content' \in [Conns -> [1 .. MsgLen + 1 -> Bytes]]
    BY <2>1, <2>4, <1>0 DEF ServiceTypeOK
  <2>7. QED
    BY <2>5, <2>6, <1>5 DEF Read, ServiceTypeOK, serverVars
<1>6. CASE ReadFails(c)
  BY <1>6 DEF ReadFails, ServiceTypeOK, serverVars, tcp
<1>7. CASE NextTurn(c)
  <2>1. round' \in [Clients -> 1 .. NumSocket] /\ \A d \in Clients \ EchoClients : round'[d] = 1
    BY <1>7, Numbers DEF NextTurn, ServiceTypeOK
  <2>2. QED
    BY <2>1, <1>7 DEF NextTurn, ServiceTypeOK, serverVars, tcp
<1>8. CASE Finish(c)
  <2>1. pc' \in [Clients -> {"connect", "send", "recv", "next", "done", "killed"}]
    BY <1>8 DEF Finish, ServiceTypeOK
  <2>2. QED
    BY <2>1, <1>8, CloseAllTypes DEF Finish
<1>9. CASE Killed(c)
  <2>1. pc' \in [Clients -> {"connect", "send", "recv", "next", "done", "killed"}]
    BY <1>9 DEF Killed, ServiceTypeOK
  <2>2. QED
    BY <2>1, <1>9, CloseAllTypes DEF Killed
<1>10. QED
  BY <1>1, <1>2, <1>3, <1>4, <1>5, <1>6, <1>7, <1>8, <1>9 DEF ClientStep

LEMMA DeliverTypes ==
  ASSUME ServiceTypeOK, NEW k \in Conns, NEW s \in Seq(Bytes), Deliver(k, s)
  PROVE  down' \in [Conns -> Seq(Bytes)]
<1>1. down[k] \o s \in Seq(Bytes)
  BY ConcatProperties DEF ServiceTypeOK
<1>2. QED
  BY <1>1 DEF Deliver, ServiceTypeOK

LEMMA AnswerTypes ==
  ASSUME TypeInv, cur \in Conns, NEW b \in [1 .. BufLen -> Bytes], NEW rest,
         AnswerAndClose(b, rest)
  PROVE  TypeInv'
<1>1. Reply(b) \in Seq(Bytes)
  BY ReplyType
<1>2. down' \in [Conns -> Seq(Bytes)]
  BY <1>1, DeliverTypes DEF TypeInv, AnswerAndClose
<1>3. buf' \in [1 .. BufLen -> Bytes]
  BY ByteTypes DEF AnswerAndClose, Left, Blank
<1>4. up' \in [Conns -> Seq(Bytes)]
  BY EmptySeq DEF TypeInv, AnswerAndClose, ServiceTypeOK
<1>5. reset' \in SUBSET Conns
  BY DEF TypeInv, AnswerAndClose, ServiceTypeOK
<1>6. QED
  BY <1>2, <1>3, <1>4, <1>5 DEF TypeInv, AnswerAndClose, ServiceTypeOK, clientVars

LEMMA TableGrows ==
  ASSUME NEW S, NEW x, IsFiniteSet(S)
  PROVE  /\ IsFiniteSet(S \cup {x}) /\ Cardinality(S) \in Nat
         /\ Cardinality(S \cup {x}) <= Cardinality(S) + 1
<1>1. Cardinality(S) \in Nat
  BY FS_CardinalityType
<1>2. QED
  BY <1>1, FS_AddElement

LEMMA TableShrinks ==
  ASSUME NEW S, NEW x, IsFiniteSet(S)
  PROVE  /\ IsFiniteSet(S \ {x}) /\ Cardinality(S) \in Nat
         /\ Cardinality(S \ {x}) <= Cardinality(S)
<1>1. Cardinality(S) \in Nat
  BY FS_CardinalityType
<1>2. QED
  BY <1>1, FS_RemoveElement

LEMMA ServerTypes ==
  ASSUME TypeInv, Accept \/ ServeOne \/ ServeNobody \/ AcceptNew
  PROVE  TypeInv'
<1> USE DEF TypeInv
<1>1. CASE Accept
  <2>1. Head(backlog) \in Conns /\ Tail(backlog) \in Seq(Conns)
    BY <1>1, HeadTailProperties DEF Accept, ServiceTypeOK
  <2>2. QED
    BY <2>1, <1>1 DEF Accept, ServiceTypeOK, clientVars
<1>2. CASE ServeOne
  <2>1. PICK n \in 1 .. Len(up[cur]) :
          AnswerAndClose(Overwrite(buf, SubSeq(up[cur], 1, n)),
                         SubSeq(up[cur], n + 1, Len(up[cur])))
    BY <1>2 DEF ServeOne
  <2>2. cur \in Conns /\ up[cur] \in Seq(Bytes)
    BY <1>2 DEF ServeOne, ServiceTypeOK
  <2>3. SubSeq(up[cur], 1, n) \in Seq(Bytes)
    BY <2>2, Pieces
  <2>4. Overwrite(buf, SubSeq(up[cur], 1, n)) \in [1 .. BufLen -> Bytes]
    BY <2>3, OverwriteType, Numbers DEF ServiceTypeOK
  <2> DEFINE b == Overwrite(buf, SubSeq(up[cur], 1, n))
             rest == SubSeq(up[cur], n + 1, Len(up[cur]))
  <2>5. b \in [1 .. BufLen -> Bytes] /\ AnswerAndClose(b, rest)
    BY <2>1, <2>4
  <2> HIDE DEF b, rest
  <2>6. QED
    BY <2>2, <2>5, AnswerTypes
<1>3. CASE ServeNobody
  <2>1. cur \in Conns /\ buf \in [1 .. BufLen -> Bytes]
    BY <1>3 DEF ServeNobody, ServiceTypeOK
  <2>2. QED
    BY <2>1, <1>3, AnswerTypes DEF ServeNobody
<1>4. CASE AcceptNew
  <2>1. Head(backlog) \in Conns /\ Tail(backlog) \in Seq(Conns)
    BY <1>4, HeadTailProperties DEF AcceptNew, ServiceTypeOK
  <2>2. /\ IsFiniteSet(table \cup {Head(backlog)})
        /\ Cardinality(table) \in Nat
        /\ Cardinality(table \cup {Head(backlog)}) <= Cardinality(table) + 1
    BY TableGrows DEF ServiceTypeOK
  <2>3. IsFiniteSet(table') /\ Cardinality(table') <= MaxClients /\ table' \in SUBSET Conns
    <3>1. CASE Cardinality(table) < MaxClients
      <4>1. table' = table \cup {Head(backlog)}
        BY <1>4, <3>1 DEF AcceptNew
      <4>2. Cardinality(table \cup {Head(backlog)}) \in Nat
        BY <2>2, FS_CardinalityType
      <4>3. QED
        BY <2>1, <2>2, <3>1, <4>1, <4>2, Numbers DEF ServiceTypeOK
    <3>2. CASE ~ (Cardinality(table) < MaxClients)
      BY <1>4, <3>2 DEF AcceptNew, ServiceTypeOK
    <3>3. QED
      BY <3>1, <3>2
  <2>4. QED
    BY <2>1, <2>3, <1>4 DEF AcceptNew, ServiceTypeOK, clientVars
<1>5. QED
  BY <1>1, <1>2, <1>3, <1>4

LEMMA SelectTypes ==
  ASSUME TypeInv, NEW k \in Conns, Serve(k) \/ Disconnected(k) \/ Broken(k)
  PROVE  TypeInv'
<1> USE DEF TypeInv
<1>1. CASE Serve(k)
  <2>1. PICK n \in 1 .. Len(up[k]) :
          /\ up' = [up EXCEPT ![k] = SubSeq(@, n + 1, Len(@))]
          /\ Deliver(k, Reply(Overwrite(buf, Append(SubSeq(up[k], 1, n), NUL))))
          /\ reset' \in {reset} \cup
                         (IF cend[k] = "closed" /\ n < Len(up[k]) THEN {reset \cup {k}} ELSE {})
    BY <1>1 DEF Serve
  <2>2. up[k] \in Seq(Bytes)
    BY DEF ServiceTypeOK
  <2>3. Append(SubSeq(up[k], 1, n), NUL) \in Seq(Bytes)
    <3>1. SubSeq(up[k], 1, n) \in Seq(Bytes)
      BY <2>2, Pieces
    <3>2. QED
      BY <3>1, ByteTypes, AppendProperties
  <2>4. Overwrite(buf, Append(SubSeq(up[k], 1, n), NUL)) \in [1 .. BufLen -> Bytes]
    BY <2>3, OverwriteType, Numbers DEF ServiceTypeOK
  <2>5. down' \in [Conns -> Seq(Bytes)]
    BY <2>1, <2>4, ReplyType, DeliverTypes
  <2>6. up' \in [Conns -> Seq(Bytes)]
    BY <2>1, <2>2, Pieces DEF ServiceTypeOK
  <2>7. reset' \in SUBSET Conns
    BY <2>1 DEF ServiceTypeOK
  <2>8. QED
    BY <2>5, <2>6, <2>7, <1>1 DEF Serve, ServiceTypeOK, clientVars
<1>2. CASE Disconnected(k)
  <2>1. /\ IsFiniteSet(table \ {k})
        /\ Cardinality(table) \in Nat
        /\ Cardinality(table \ {k}) <= Cardinality(table)
    BY TableShrinks
  <2>2. IsFiniteSet(table') /\ Cardinality(table') <= MaxClients /\ table' \in SUBSET Conns
    BY <2>1, <1>2, FS_CardinalityType, Numbers DEF Disconnected, ServiceTypeOK
  <2>3. QED
    BY <2>2, <1>2 DEF Disconnected, ServiceTypeOK, clientVars
<1>3. CASE Broken(k)
  <2>1. IsFiniteSet(table') /\ Cardinality(table') <= MaxClients /\ table' \in SUBSET Conns
    BY <1>3, FS_EmptySet, Numbers DEF Broken
  <2>2. up' \in [Conns -> Seq(Bytes)] /\ backlog' \in Seq(Conns)
    BY <1>3, EmptySeq DEF Broken
  <2>3. send' \in [Conns -> {"none", "open", "closed"}] /\ reset' \in SUBSET Conns
    BY <1>3 DEF Broken, ServiceTypeOK
  <2>4. QED
    BY <2>1, <2>2, <2>3, <1>3 DEF Broken, ServiceTypeOK, clientVars
<1>4. QED
  BY <1>1, <1>2, <1>3

LEMMA TypeStep ==
  ASSUME TypeInv, [ServiceNext]_serviceVars
  PROVE  TypeInv'
<1>1. CASE ServiceNext
  BY <1>1, ClientTypes, ServerTypes, SelectTypes DEF ServiceNext
<1>2. CASE UNCHANGED serviceVars
  BY <1>2 DEF serviceVars, tcp, clientVars, serverVars, TypeInv, ServiceTypeOK
<1>3. QED
  BY <1>1, <1>2

LEMMA TypeInit == ServiceInit => TypeInv
<1>1. SUFFICES ASSUME ServiceInit PROVE TypeInv
  OBVIOUS
<1>2. PICK unset \in SUBSET (FileClients \X {1}) :
        content = [k \in Conns |-> Text(k, IF k \in unset THEN Byte(k, MsgLen + 1) ELSE NUL)]
  BY <1>1 DEF ServiceInit
<1>3. ASSUME NEW k \in Conns, NEW last \in Bytes PROVE Text(k, last) \in [1 .. MsgLen + 1 -> Bytes]
  <2> DEFINE t == [j \in 1 .. MsgLen |-> Byte(k, j)]
  <2>1. t \in [1 .. MsgLen -> Bytes]
    BY ByteTypes, Numbers
  <2>2. Text(k, last) = Append(t, last)
    BY DEF Text
  <2> HIDE DEF t
  <2>3. Text(k, last) \in Seq(Bytes) /\ Len(Text(k, last)) = MsgLen + 1
    <3>1. t \in Seq(Bytes) /\ Len(t) = MsgLen
      BY <2>1, TupleSeq, Numbers
    <3>2. QED
      BY <3>1, <2>2, AppendProperties
  <2>4. QED
    BY <2>3, LenProperties
<1>4. content \in [Conns -> [1 .. MsgLen + 1 -> Bytes]]
  <2>1. \A k \in Conns : (IF k \in unset THEN Byte(k, MsgLen + 1) ELSE NUL) \in Bytes
    BY ByteTypes, Numbers
  <2>2. QED
    BY <1>2, <1>3, <2>1
<1>5. table = {} /\ IsFiniteSet(table) /\ Cardinality(table) = 0
  BY <1>1, FS_EmptySet DEF ServiceInit
<1>6. /\ up \in [Conns -> Seq(Bytes)] /\ down \in [Conns -> Seq(Bytes)] /\ backlog \in Seq(Conns)
  BY <1>1, EmptySeq DEF ServiceInit
<1>7. buf \in [1 .. BufLen -> Bytes]
  BY <1>1, ByteTypes DEF ServiceInit, Blank
<1>8. QED
  BY <1>1, <1>4, <1>5, <1>6, <1>7, Numbers DEF ServiceInit, TypeInv, ServiceTypeOK

-----------------------------------------------------------------------------
(* The invariant of the connections *)

\* The client has not written to the connection yet.
Before(k) ==
  \/ k[2] > round[k[1]]
  \/ k[2] = round[k[1]] /\ pc[k[1]] \in {"connect", "send"}

\* It has written, and waits for the answer.
Reading(k) == k[2] = round[k[1]] /\ pc[k[1]] = "recv"

\* The client's buffer holds its message as it was.
Raw(k) ==
  /\ \A j \in 1 .. MsgLen : content[k][j] = Byte(k, j)
  /\ content[k][MsgLen + 1] \in {NUL, Byte(k, MsgLen + 1)}

\* What was sent back is the beginning of the message in capitals, and what
\* the server has still to read, if anything, begins where the answer ends.
Answered(k) ==
  /\ Len(down[k]) <= MsgLen + 1
  /\ \A j \in 1 .. Len(down[k]) : down[k][j] = toupper(Byte(k, j))
  /\ up[k] # <<>> =>
       /\ Len(up[k]) = MsgLen + 1 - Len(down[k])
       /\ \A j \in 1 .. Len(up[k]) : up[k][j] = content[k][Len(down[k]) + j]

InStep(k) ==
  /\ Before(k) => up[k] = <<>> /\ down[k] = <<>> /\ Raw(k)
  /\ Reading(k) => Raw(k) /\ Answered(k)

\* Places of a client's buffer that hold its own bytes.
OwnAt(k) ==
  \A j \in 1 .. MsgLen : content[k][j] \in {Byte(k, j), toupper(Byte(k, j))}

SocketOpen ==
  \A c \in Clients : pc[c] \in {"send", "recv"} => cend[Cur(c)] = "open"

ConnInv ==
  server # "test/server.c" =>
    buf = Blank /\ \A k \in Conns : InStep(k) /\ OwnAt(k)

ServiceInv == TypeInv /\ SocketOpen /\ ConnInv

LEMMA ConnParts ==
  ASSUME NEW k \in Conns
  PROVE  k[1] \in Clients /\ k[2] \in Nat /\ k = <<k[1], k[2]>>
  BY Numbers DEF Conns, Clients

\* A connection whose bytes and whose client's buffer do not change.
LEMMA Frame ==
  ASSUME NEW k \in Conns, InStep(k), OwnAt(k),
         up'[k] = up[k], down'[k] = down[k], content'[k] = content[k],
         Before(k)' => Before(k), Reading(k)' => Reading(k)
  PROVE  InStep(k)' /\ OwnAt(k)'
<1>1. OwnAt(k)'
  BY DEF OwnAt
<1>2. Raw(k) => Raw(k)'
  BY DEF Raw
<1>3. Answered(k) => Answered(k)'
  BY DEF Answered
<1>4. QED
  BY <1>1, <1>2, <1>3 DEF InStep

\* What the server holds of the first n bytes that have arrived: these, and
\* perhaps a NUL behind them.
Received(p, k, n) ==
  /\ Len(p) >= n /\ Len(p) <= BufLen
  /\ \A j \in 1 .. n : p[j] = up[k][j]
  /\ Len(p) > n => p[n + 1] = NUL

\* Its answer r to these n bytes goes on where the last answer ended.
Capitals(r, k, n) ==
  /\ Len(r) \in Nat /\ Len(r) <= n
  /\ \A j \in 1 .. Len(r) : r[j] = toupper(Byte(k, Len(down[k]) + j))
  /\ n < Len(up[k]) => Len(r) = n

LEMMA AnswerIs ==
  ASSUME TypeInv, NEW k \in Conns, Raw(k), Answered(k), up[k] # <<>>,
         NEW n \in 1 .. Len(up[k]),
         NEW p \in Seq(Bytes), Received(p, k, n)
  PROVE  LET r == Reply(Overwrite(Blank, p)) IN
         r \in Seq(Bytes) /\ Capitals(r, k, n)
<1> DEFINE b == Overwrite(Blank, p)
           r == Reply(b)
           u == Len(up[k])
           d == Len(down[k])
           l == StrLen(b)
           q == Len(p)
<1>1. /\ r \in Seq(Bytes) /\ Len(r) = l /\ l \in Nat /\ l <= q
      /\ \A j \in 1 .. l : p[j] # NUL /\ r[j] = toupper(p[j])
      /\ l < q => p[l + 1] = NUL
  BY ReplyIs DEF Received
<1>2. /\ u \in Nat /\ d \in Nat /\ q \in Nat /\ MsgLen \in Nat
      /\ u = MsgLen + 1 - d
      /\ n \in 1 .. u /\ n <= q
      /\ q > n => p[n + 1] = NUL
  BY Numbers DEF TypeInv, ServiceTypeOK, Answered, Received
<1>3. ASSUME NEW j \in 1 .. n, d + j \in 1 .. MsgLen + 1
      PROVE  /\ d + j <= MsgLen => p[j] = Byte(k, d + j) /\ p[j] # NUL
             /\ p[j] # NUL => p[j] = Byte(k, d + j)
  <2>1. p[j] = content[k][d + j]
    BY <1>2 DEF Answered, Received
  <2>2. d + j <= MsgLen => content[k][d + j] = Byte(k, d + j)
    <3>1. d + j <= MsgLen => d + j \in 1 .. MsgLen
      BY <1>2, <1>3
    <3>2. QED
      BY <3>1 DEF Raw
  <2>3. d + j = MsgLen + 1 => content[k][d + j] \in {NUL, Byte(k, d + j)}
    BY DEF Raw
  <2>4. Byte(k, d + j) # NUL
    BY <1>2, <1>3, ByteTypes
  <2>5. d + j <= MsgLen \/ d + j = MsgLen + 1
    BY <1>2, <1>3
  <2>6. QED
    BY <2>1, <2>2, <2>3, <2>4, <2>5
<1> HIDE DEF b, r, u, d, l, q
<1>4. \A j \in 1 .. n : d + j \in 1 .. MsgLen + 1
  BY <1>2
<1>5. l <= n
  <2>1. SUFFICES ASSUME l > n PROVE FALSE
    BY <1>1, <1>2
  <2>2. n + 1 \in 1 .. l /\ q > n
    BY <1>1, <1>2, <2>1
  <2>3. QED
    BY <2>2, <1>1, <1>2
<1>6. ASSUME NEW j \in 1 .. l PROVE r[j] = toupper(Byte(k, d + j))
  <2>1. j \in 1 .. n
    BY <1>1, <1>2, <1>5
  <2>2. QED
    BY <2>1, <1>1, <1>3, <1>4
<1>7. ASSUME n < u PROVE l = n
  <2>1. SUFFICES ASSUME l < n PROVE FALSE
    BY <1>1, <1>2, <1>5
  <2>2. l + 1 \in 1 .. n /\ l < q
    BY <1>1, <1>2, <2>1
  <2>3. d + (l + 1) <= MsgLen
    BY <1>1, <1>2, <1>7, <2>1
  <2>4. p[l + 1] # NUL
    BY <2>2, <2>3, <1>3, <1>4
  <2>5. QED
    BY <2>2, <2>4, <1>1
<1>8. QED
  BY <1>1, <1>5, <1>6, <1>7 DEF Capitals, r, b, l, u, d

\* The answer r arrives at an open socket, and the rest is left to be read or
\* thrown away.
LEMMA AnswerArrives ==
  ASSUME TypeInv, NEW k \in Conns, Raw(k), Answered(k), up[k] # <<>>,
         NEW n \in 1 .. Len(up[k]),
         NEW r \in Seq(Bytes), Capitals(r, k, n),
         down'[k] = down[k] \o r, content'[k] = content[k],
         up'[k] \in {<<>>, SubSeq(up[k], n + 1, Len(up[k]))}
  PROVE  Answered(k)'
<1> DEFINE u == Len(up[k])
           d == Len(down[k])
           l == Len(r)
           d1 == Len(down'[k])
           u1 == Len(up'[k])
<1>1. /\ u \in Nat /\ d \in Nat /\ MsgLen \in Nat /\ l \in Nat
      /\ u = MsgLen + 1 - d
      /\ n \in 1 .. u /\ l <= n
      /\ n < u => l = n
  BY Numbers DEF TypeInv, ServiceTypeOK, Answered, Capitals
<1>2. /\ up[k] \in Seq(Bytes) /\ down[k] \in Seq(Bytes)
  BY DEF TypeInv, ServiceTypeOK
<1>3. /\ d1 = d + l
      /\ \A j \in 1 .. d + l :
           down'[k][j] = IF j <= d THEN down[k][j] ELSE r[j - d]
  BY <1>2, ConcatProperties
<1>4. \A j \in 1 .. d : down[k][j] = toupper(Byte(k, j))
  BY DEF Answered
<1>5. \A j \in 1 .. l : r[j] = toupper(Byte(k, d + j))
  BY DEF Capitals
<1>6. \A j \in 1 .. u : up[k][j] = content'[k][d + j]
  BY DEF Answered
<1>7. up'[k] # <<>> => /\ u1 = u - n
                       /\ \A j \in 1 .. u - n : up'[k][j] = up[k][n + j]
                       /\ n # u
  <2>1. SUFFICES ASSUME up'[k] = SubSeq(up[k], n + 1, Len(up[k])), up'[k] # <<>>
                 PROVE  /\ u1 = u - n
                        /\ \A j \in 1 .. u - n : up'[k][j] = up[k][n + j]
                        /\ n # u
    OBVIOUS
  <2>2. QED
    BY <2>1, <1>2, Pieces
<1>8. Answered(k)' <=>
        /\ d1 <= MsgLen + 1
        /\ \A j \in 1 .. d1 : down'[k][j] = toupper(Byte(k, j))
        /\ up'[k] # <<>> =>
             /\ u1 = MsgLen + 1 - d1
             /\ \A j \in 1 .. u1 : up'[k][j] = content'[k][d1 + j]
  BY DEF Answered
<1> HIDE DEF u, d, l, d1, u1
<1>9. d1 <= MsgLen + 1
  BY <1>1, <1>3
<1>10. ASSUME NEW j \in 1 .. d1 PROVE down'[k][j] = toupper(Byte(k, j))
  <2>1. CASE j <= d
    <3>1. j \in 1 .. d /\ j \in 1 .. d + l
      BY <2>1, <1>1, <1>3
    <3>2. QED
      BY <2>1, <3>1, <1>3, <1>4
  <2>2. CASE ~ (j <= d)
    <3>1. j - d \in 1 .. l /\ d + (j - d) = j /\ j \in 1 .. d + l
      BY <2>2, <1>1, <1>3
    <3>2. r[j - d] = toupper(Byte(k, j))
      BY <3>1, <1>5
    <3>3. QED
      BY <2>2, <3>1, <3>2, <1>3
  <2>3. QED
    BY <2>1, <2>2
<1>11. ASSUME up'[k] # <<>>
       PROVE  /\ u1 = MsgLen + 1 - d1
              /\ \A j \in 1 .. u1 : up'[k][j] = content'[k][d1 + j]
  <2>1. l = n /\ u1 = u - n /\ d1 = d + n
    BY <1>1, <1>3, <1>7, <1>11
  <2>2. u1 = MsgLen + 1 - d1
    BY <2>1, <1>1
  <2>3. ASSUME NEW j \in 1 .. u1 PROVE up'[k][j] = content'[k][d1 + j]
    <3>1. j \in 1 .. u - n /\ n + j \in 1 .. u /\ d + (n + j) = d1 + j
      BY <2>1, <1>1
    <3>2. up'[k][j] = up[k][n + j]
      BY <3>1, <1>7, <1>11
    <3>3. up[k][n + j] = content'[k][d + (n + j)]
      BY <3>1, <1>6
    <3>4. QED
      BY <3>1, <3>2, <3>3
  <2>4. QED
    BY <2>2, <2>3
<1>12. QED
  BY <1>8, <1>9, <1>10, <1>11

-----------------------------------------------------------------------------
(* Every step keeps the invariant *)

\* A step that leaves bytes and buffers alone and does not bring a client back.
LEMMA QuietStep ==
  ASSUME ConnInv, UNCHANGED <<up, down, content, buf, server>>,
         \A k \in Conns : Before(k)' => Before(k),
         \A k \in Conns : Reading(k)' => Reading(k)
  PROVE  ConnInv'
<1>1. SUFFICES ASSUME server # "test/server.c" PROVE buf' = Blank /\ \A k \in Conns : InStep(k)' /\ OwnAt(k)'
  BY DEF ConnInv, Blank
<1>2. \A k \in Conns : InStep(k) /\ OwnAt(k)
  BY <1>1 DEF ConnInv
<1>3. ASSUME NEW k \in Conns PROVE InStep(k)' /\ OwnAt(k)'
  BY <1>2, Frame
<1>4. QED
  BY <1>1, <1>3 DEF ConnInv

\* A client closes its sockets only when it comes to its end.
LEMMA CloseAllStep ==
  ASSUME ServiceInv, NEW c \in Clients, NEW end \in {"done", "killed"},
         pc' = [pc EXCEPT ![c] = end], CloseAll(c), UNCHANGED round
  PROVE  SocketOpen' /\ ConnInv'
<1>1. TypeInv /\ SocketOpen /\ ConnInv /\ pc \in [Clients -> {"connect", "send", "recv", "next", "done", "killed"}]
  BY DEF ServiceInv, TypeInv, ServiceTypeOK
<1>2. SocketOpen'
  <2>1. SUFFICES ASSUME NEW d \in Clients, pc'[d] \in {"send", "recv"} PROVE cend'[Cur(d)'] = "open"
    BY DEF SocketOpen
  <2>2. d # c /\ pc[d] \in {"send", "recv"}
    BY <1>1, <2>1
  <2>3. Cur(d)' = Cur(d) /\ Cur(d) \in Conns /\ Cur(d)[1] = d /\ cend[Cur(d)] = "open"
    BY <1>1, <2>2, CurConn DEF Cur, SocketOpen, TypeInv
  <2>4. Cur(d) \notin Sockets(c)
    BY <2>2, <2>3 DEF Sockets
  <2>5. QED
    BY <2>3, <2>4 DEF CloseAll
<1>3. ConnInv'
  <2>1. SUFFICES ASSUME server # "test/server.c", NEW k \in Conns PROVE InStep(k)' /\ OwnAt(k)'
    BY <1>1 DEF ConnInv, CloseAll, serverVars, Blank
  <2>2. InStep(k) /\ OwnAt(k)
    BY <1>1, <2>1 DEF ConnInv
  <2>3. k[1] \in Clients /\ k[2] \in Nat
    BY ConnParts
  <2>4. (Before(k)' => Before(k)) /\ (Reading(k)' => Reading(k))
    BY <1>1, <2>3 DEF Before, Reading
  <2>5. up' = up /\ content' = content
    BY DEF CloseAll
  <2>6. CASE k[1] # c
    <3>1. down'[k] = down[k]
      BY <2>6 DEF CloseAll
    <3>2. QED
      BY <3>1, <2>2, <2>4, <2>5, Frame
  <2>7. CASE k[1] = c
    <3>1. ~ Reading(k)'
      BY <1>1, <2>3, <2>7 DEF Reading
    <3>2. down'[k] = <<>>
      BY <2>7 DEF CloseAll
    <3>3. Raw(k)' <=> Raw(k)
      BY <2>5 DEF Raw
    <3>4. OwnAt(k)'
      BY <2>2, <2>5 DEF OwnAt
    <3>5. QED
      BY <3>1, <3>2, <3>3, <3>4, <2>2, <2>4, <2>5 DEF InStep
  <2>8. QED
    BY <2>6, <2>7
<1>4. QED
  BY <1>2, <1>3

\* In the steps of a client that does not close its sockets nobody's socket is
\* closed.
LEMMA StaysOpen ==
  ASSUME TypeInv, SocketOpen, NEW c \in Clients, NEW next,
         pc' = [pc EXCEPT ![c] = next],
         \A d \in Clients \ {c} : round'[d] = round[d],
         \A k \in Conns : cend[k] = "open" => cend'[k] = "open",
         next \in {"send", "recv"} => cend'[Cur(c)'] = "open"
  PROVE  SocketOpen'
<1>1. SUFFICES ASSUME NEW d \in Clients, pc'[d] \in {"send", "recv"} PROVE cend'[Cur(d)'] = "open"
  BY DEF SocketOpen
<1>2. pc \in [Clients -> {"connect", "send", "recv", "next", "done", "killed"}]
  BY DEF TypeInv, ServiceTypeOK
<1>3. CASE d = c
  BY <1>1, <1>2, <1>3
<1>4. CASE d # c
  <2>1. Cur(d)' = Cur(d) /\ pc'[d] = pc[d] /\ Cur(d) \in Conns
    BY <1>2, <1>4, CurConn DEF Cur, TypeInv
  <2>2. QED
    BY <1>1, <2>1 DEF SocketOpen
<1>5. QED
  BY <1>3, <1>4

LEMMA ClientKeeps ==
  ASSUME ServiceInv, NEW c \in Clients, ClientStep(c) \/ Killed(c)
  PROVE  SocketOpen' /\ ConnInv'
<1>1. /\ TypeInv /\ SocketOpen /\ ConnInv
      /\ pc \in [Clients -> {"connect", "send", "recv", "next", "done", "killed"}]
      /\ cend \in [Conns -> {"none", "open", "closed"}]
      /\ round \in [Clients -> 1 .. NumSocket]
  BY DEF ServiceInv, TypeInv, ServiceTypeOK
<1>2. Cur(c) \in Conns /\ Cur(c)[1] = c /\ Cur(c)[2] = round[c]
  BY <1>1, CurConn DEF TypeInv
<1>3. \A k \in Conns : k[1] \in Clients /\ k[2] \in Nat /\ k = <<k[1], k[2]>>
  BY ConnParts
<1>4. CASE Connect(c)
  <2>1. SocketOpen'
    BY <1>1, <1>2, <1>4, StaysOpen DEF Connect, Cur
  <2>2. \A k \in Conns : (Before(k)' => Before(k)) /\ (Reading(k)' => Reading(k))
    BY <1>1, <1>3, <1>4 DEF Connect, Before, Reading
  <2>3. UNCHANGED <<up, down, content, buf, server>>
    BY <1>4 DEF Connect, serverVars
  <2>4. QED
    BY <1>1, <2>1, <2>2, <2>3, QuietStep
<1>5. CASE ConnectFails(c) \/ WriteFails(c) \/ ReadFails(c)
  <2>1. /\ UNCHANGED <<up, down, content, buf, server, cend, round>>
        /\ \E next \in {"next", "killed"} : pc' = [pc EXCEPT ![c] = next]
    BY <1>5 DEF ConnectFails, WriteFails, ReadFails, serverVars, tcp
  <2>2. PICK next \in {"next", "killed"} : pc' = [pc EXCEPT ![c] = next]
    BY <2>1
  <2>3. SocketOpen'
    BY <1>1, <2>1, <2>2, StaysOpen
  <2>4. \A k \in Conns : (Before(k)' => Before(k)) /\ (Reading(k)' => Reading(k))
    BY <1>1, <1>3, <2>1, <2>2 DEF Before, Reading
  <2>5. QED
    BY <1>1, <2>1, <2>3, <2>4, QuietStep
<1>6. CASE Write(c)
  <2>1. SocketOpen'
    BY <1>1, <1>2, <1>6, StaysOpen DEF Write, Cur, SocketOpen
  <2>2. SUFFICES ASSUME server # "test/server.c", NEW k \in Conns PROVE InStep(k)' /\ OwnAt(k)'
    BY <1>1, <1>6, <2>1 DEF ConnInv, Write, serverVars, Blank
  <2>3. InStep(k) /\ OwnAt(k)
    BY <1>1, <2>2 DEF ConnInv
  <2>4. UNCHANGED <<down, content, round>> /\ up \in [Conns -> Seq(Bytes)]
    BY <1>1, <1>6 DEF Write, TypeInv, ServiceTypeOK
  <2>5. CASE k # Cur(c)
    <3>1. up'[k] = up[k]
      BY <1>6, <2>4, <2>5 DEF Write
    <3>2. (Before(k)' => Before(k)) /\ (Reading(k)' => Reading(k))
      BY <1>1, <1>3, <1>6, <2>4, <2>5 DEF Write, Before, Reading, Cur
    <3>3. QED
      BY <3>1, <3>2, <2>3, <2>4, Frame
  <2>6. CASE k = Cur(c)
    <3>1. Before(k) /\ ~ Before(k)'
      BY <1>1, <1>2, <1>6, <2>4, <2>6, Numbers DEF Write, Before
    <3>2. up[k] = <<>> /\ down[k] = <<>> /\ Raw(k)
      BY <3>1, <2>3 DEF InStep
    <3>3. content[k] \in Seq(Bytes) /\ Len(content[k]) = MsgLen + 1
      BY <1>1, TupleSeq, Numbers DEF TypeInv, ServiceTypeOK
    <3>4. up'[k] = content[k]
      <4>1. up'[k] = <<>> \o content[k]
        BY <1>6, <2>4, <2>6, <3>2 DEF Write
      <4>2. QED
        BY <4>1, <3>3, ConcatEmptySeq
    <3>5. Raw(k)' /\ OwnAt(k)'
      BY <3>2, <2>3, <2>4 DEF Raw, OwnAt
    <3>6. Answered(k)'
      <4>1. down'[k] = <<>> /\ Len(down'[k]) = 0
        BY <3>2, <2>4, EmptySeq
      <4>2. Len(up'[k]) = MsgLen + 1 - 0 /\ \A j \in 1 .. Len(up'[k]) : up'[k][j] = content'[k][0 + j]
        BY <3>3, <3>4, <2>4, Numbers
      <4>3. QED
        BY <4>1, <4>2, Numbers DEF Answered
    <3>7. QED
      BY <3>1, <3>5, <3>6 DEF InStep
  <2>7. QED
    BY <2>5, <2>6
<1>7. CASE Read(c)
  <2> DEFINE h == Cur(c)
  <2>1. SocketOpen'
    BY <1>1, <1>7, StaysOpen DEF Read
  <2>2. SUFFICES ASSUME server # "test/server.c", NEW k \in Conns PROVE InStep(k)' /\ OwnAt(k)'
    BY <1>1, <1>7, <2>1 DEF ConnInv, Read, serverVars, Blank
  <2>3. InStep(k) /\ OwnAt(k)
    BY <1>1, <2>2 DEF ConnInv
  <2>4. PICK n \in 1 .. Len(down[h]) :
           /\ content' = [content EXCEPT ![h] = Overwrite(@, SubSeq(down[h], 1, n))]
           /\ down' = [down EXCEPT ![h] = SubSeq(@, n + 1, Len(@))]
    BY <1>7 DEF Read
  <2>5. /\ UNCHANGED <<up, round>> /\ down \in [Conns -> Seq(Bytes)]
        /\ content \in [Conns -> [1 .. MsgLen + 1 -> Bytes]]
    BY <1>1, <1>7 DEF Read, TypeInv, ServiceTypeOK
  <2>6. CASE k # h
    <3>1. down'[k] = down[k] /\ content'[k] = content[k]
      BY <2>4, <2>5, <2>6
    <3>2. (Before(k)' => Before(k)) /\ (Reading(k)' => Reading(k))
      BY <1>1, <1>3, <1>7, <2>5, <2>6 DEF Read, Before, Reading, Cur
    <3>3. QED
      BY <3>1, <3>2, <2>3, <2>5, Frame
  <2>7. CASE k = h
    <3>1. Reading(k) /\ ~ Before(k)' /\ ~ Reading(k)'
      BY <1>1, <1>2, <1>7, <2>5, <2>7, Numbers DEF Read, Before, Reading
    <3>2. Raw(k) /\ Answered(k)
      BY <3>1, <2>3 DEF InStep
    <3> DEFINE p == SubSeq(down[k], 1, n)
    <3>3. n \in 1 .. Len(down[k]) /\ down[k] \in Seq(Bytes)
      BY <2>4, <2>5, <2>7
    <3>4. /\ p \in Seq(Bytes) /\ Len(p) = n /\ n \in Nat
          /\ \A j \in 1 .. n : p[j] = toupper(Byte(k, j))
      BY <3>2, <3>3, Pieces DEF Answered
    <3>5. content'[k] = Overwrite(content[k], p) /\ content[k] \in [1 .. MsgLen + 1 -> Bytes]
      BY <2>4, <2>5, <2>7
    <3> HIDE DEF p
    <3>6. MsgLen + 1 \in Nat
      BY Numbers
    <3>7. \A j \in 1 .. MsgLen + 1 : /\ j <= n => content'[k][j] = p[j]
                                     /\ j > n => content'[k][j] = content[k][j]
      BY <3>4, <3>5, <3>6, OverwriteType, SMTT(30)
    <3>8. ASSUME NEW j \in 1 .. MsgLen
          PROVE  content'[k][j] \in {Byte(k, j), toupper(Byte(k, j))}
      <4>1. j \in 1 .. MsgLen + 1 /\ (j > n \/ j \in 1 .. n)
        BY <3>4, Numbers
      <4>2. j \in 1 .. n => j <= n
        BY <3>4
      <4>3. content[k][j] = Byte(k, j)
        BY <3>2 DEF Raw
      <4>4. QED
        BY <4>1, <4>2, <4>3, <3>4, <3>7
    <3>9. QED
      BY <3>1, <3>8 DEF InStep, OwnAt
  <2>8. QED
    BY <2>6, <2>7
<1>8. CASE NextTurn(c)
  <2>1. /\ UNCHANGED <<up, down, content, buf, server, cend>>
        /\ pc' = [pc EXCEPT ![c] = "connect"] /\ round' = [round EXCEPT ![c] = @ + 1]
    BY <1>8 DEF NextTurn, serverVars, tcp
  <2>2. SocketOpen'
    BY <1>1, <2>1, StaysOpen
  <2>3. \A k \in Conns : (Before(k)' => Before(k)) /\ (Reading(k)' => Reading(k))
    BY <1>1, <1>3, <2>1, Numbers DEF Before, Reading
  <2>4. QED
    BY <1>1, <2>1, <2>2, <2>3, QuietStep
<1>9. CASE Finish(c)
  BY <1>9, CloseAllStep DEF Finish
<1>10. CASE Killed(c)
  BY <1>10, CloseAllStep DEF Killed
<1>11. QED
  BY <1>4, <1>5, <1>6, <1>7, <1>8, <1>9, <1>10 DEF ClientStep

\* In a step of the server clients and their sockets stay as they are.
LEMMA ServerFrame ==
  ASSUME SocketOpen, UNCHANGED <<clientVars, cend>>
  PROVE  /\ SocketOpen'
         /\ \A k \in Conns : /\ Before(k)' <=> Before(k)
                             /\ Reading(k)' <=> Reading(k)
                             /\ content'[k] = content[k]
<1>1. UNCHANGED <<pc, round, content, cend>>
  BY DEF clientVars
<1>2. SocketOpen'
  BY <1>1 DEF SocketOpen, Cur
<1>3. QED
  BY <1>1, <1>2 DEF Before, Reading

\* The socket of a client that waits for its answer is open.
LEMMA ReadingOpen ==
  ASSUME SocketOpen, NEW k \in Conns, Reading(k)
  PROVE  cend[k] = "open"
<1>1. k[1] \in Clients /\ k = Cur(k[1])
  BY ConnParts DEF Reading, Cur
<1>2. QED
  BY <1>1 DEF SocketOpen, Reading

\* The server answers n bytes of k that it has put into a clear buffer.
LEMMA ReplyStep ==
  ASSUME TypeInv, SocketOpen, NEW k \in Conns, InStep(k), OwnAt(k),
         up[k] # <<>>, NEW n \in 1 .. Len(up[k]),
         NEW p \in Seq(Bytes),
         Reading(k) => Received(p, k, n),
         Deliver(k, Reply(Overwrite(Blank, p))),
         up'[k] \in {<<>>, SubSeq(up[k], n + 1, Len(up[k]))},
         Before(k)' <=> Before(k), Reading(k)' <=> Reading(k), content'[k] = content[k]
  PROVE  InStep(k)' /\ OwnAt(k)'
<1>1. ~ Before(k)'
  BY DEF InStep
<1>2. OwnAt(k)'
  BY DEF OwnAt
<1>3. ASSUME Reading(k)' PROVE Raw(k)' /\ Answered(k)'
  <2>1. Raw(k) /\ Answered(k) /\ Reading(k)
    BY <1>3 DEF InStep
  <2>2. Raw(k)'
    BY <2>1 DEF Raw
  <2> DEFINE r == Reply(Overwrite(Blank, p))
  <2>3. r \in Seq(Bytes) /\ Capitals(r, k, n)
    BY <2>1, AnswerIs
  <2>4. down'[k] = down[k] \o r
    BY <2>1, ReadingOpen DEF Deliver, TypeInv, ServiceTypeOK
  <2> HIDE DEF r
  <2>5. Answered(k)'
    BY <2>1, <2>3, <2>4, AnswerArrives
  <2>6. QED
    BY <2>2, <2>5
<1>4. QED
  BY <1>1, <1>2, <1>3 DEF InStep

\* What has arrived of a message fits into the buffer, with a NUL behind it.
LEMMA Fits ==
  ASSUME TypeInv, NEW k \in Conns, Answered(k), up[k] # <<>>,
         NEW n \in 1 .. Len(up[k])
  PROVE  /\ Received(SubSeq(up[k], 1, n), k, n)
         /\ Received(Append(SubSeq(up[k], 1, n), NUL), k, n)
<1> DEFINE p == SubSeq(up[k], 1, n)
           q == Append(p, NUL)
           u == Len(up[k])
           d == Len(down[k])
<1>1. /\ u \in Nat /\ d \in Nat /\ MsgLen \in Nat /\ u = MsgLen + 1 - d /\ n \in 1 .. u
      /\ BufLen = MsgLen + 2 /\ up[k] \in Seq(Bytes)
  BY Numbers DEF TypeInv, ServiceTypeOK, Answered
<1>2. p \in Seq(Bytes) /\ Len(p) = n /\ \A j \in 1 .. n : p[j] = up[k][j]
  BY <1>1, Pieces
<1> HIDE DEF p
<1>3. Len(q) = n + 1 /\ q[n + 1] = NUL /\ \A j \in 1 .. n : q[j] = up[k][j]
  BY <1>2, ByteTypes, AppendProperties
<1> HIDE DEF q, u, d
<1>4. n \in Nat /\ n + 1 <= BufLen
  BY <1>1
<1>5. Received(p, k, n)
  BY <1>1, <1>2, <1>4 DEF Received
<1>6. Received(q, k, n)
  BY <1>1, <1>3, <1>4 DEF Received
<1>7. QED
  BY <1>5, <1>6 DEF p, q

LEMMA ServerKeeps ==
  ASSUME ServiceInv, Accept \/ ServeOne \/ ServeNobody \/ AcceptNew
  PROVE  SocketOpen' /\ ConnInv'
<1>1. TypeInv /\ SocketOpen /\ ConnInv
  BY DEF ServiceInv
<1>2. UNCHANGED <<clientVars, cend, server>>
  BY DEF Accept, ServeOne, ServeNobody, AcceptNew, AnswerAndClose
<1>3. /\ SocketOpen'
      /\ \A k \in Conns : /\ Before(k)' <=> Before(k)
                          /\ Reading(k)' <=> Reading(k)
                          /\ content'[k] = content[k]
  BY <1>1, <1>2, ServerFrame
<1>4. CASE Accept \/ AcceptNew
  <2>1. UNCHANGED <<up, down, content, buf, server>>
    BY <1>4 DEF Accept, AcceptNew, clientVars
  <2>2. QED
    BY <1>1, <1>3, <2>1, QuietStep
<1>5. SUFFICES ASSUME server # "test/server.c", ServeOne \/ ServeNobody
               PROVE  buf' = Blank /\ \A k \in Conns : InStep(k)' /\ OwnAt(k)'
  BY <1>2, <1>3, <1>4 DEF ConnInv, Blank
<1>6. buf = Blank /\ \A k \in Conns : InStep(k) /\ OwnAt(k)
  BY <1>1, <1>5 DEF ConnInv
<1>7. cur \in Conns /\ up \in [Conns -> Seq(Bytes)] /\ down \in [Conns -> Seq(Bytes)]
  BY <1>1, <1>5 DEF ServeOne, ServeNobody, TypeInv, ServiceTypeOK
<1>8. ASSUME NEW b, NEW rest, AnswerAndClose(b, rest)
      PROVE  /\ buf' = Blank /\ up'[cur] = <<>> /\ Deliver(cur, Reply(b))
             /\ \A k \in Conns : k # cur => InStep(k)' /\ OwnAt(k)'
  <2>1. buf' = Blank /\ up'[cur] = <<>> /\ Deliver(cur, Reply(b))
    BY <1>5, <1>7, <1>8 DEF AnswerAndClose, Left
  <2>2. ASSUME NEW k \in Conns, k # cur PROVE InStep(k)' /\ OwnAt(k)'
    <3>1. up'[k] = up[k] /\ down'[k] = down[k]
      BY <1>7, <1>8, <2>2 DEF AnswerAndClose, Deliver
    <3>2. QED
      BY <3>1, <1>3, <1>6, Frame
  <2>3. QED
    BY <2>1, <2>2
<1>9. CASE ServeOne
  <2>1. PICK n \in 1 .. Len(up[cur]) :
          AnswerAndClose(Overwrite(buf, SubSeq(up[cur], 1, n)),
                         SubSeq(up[cur], n + 1, Len(up[cur])))
    BY <1>9 DEF ServeOne
  <2> DEFINE p == SubSeq(up[cur], 1, n)
             rest == SubSeq(up[cur], n + 1, Len(up[cur]))
  <2>2. p \in Seq(Bytes)
    BY <1>7, Pieces
  <2>3. up[cur] # <<>> /\ AnswerAndClose(Overwrite(Blank, p), rest)
    BY <1>6, <1>9, <2>1 DEF ServeOne
  <2>4. Reading(cur) => Received(p, cur, n)
    BY <1>1, <1>6, <1>7, <2>3, Fits DEF InStep
  <2> HIDE DEF p, rest
  <2>5. ASSUME NEW h \in Conns, h = cur PROVE InStep(h)' /\ OwnAt(h)'
    <3>1. /\ up'[h] = <<>> /\ Deliver(h, Reply(Overwrite(Blank, p)))
          /\ up[h] # <<>> /\ n \in 1 .. Len(up[h])
          /\ Reading(h) => Received(p, h, n)
      BY <2>5, <1>8, <2>1, <2>3, <2>4
    <3>2. QED
      BY <3>1, <1>1, <1>3, <1>6, <2>2, ReplyStep
  <2>6. buf' = Blank /\ \A k \in Conns : k # cur => InStep(k)' /\ OwnAt(k)'
    BY <2>3, <1>8
  <2>7. QED
    BY <2>5, <2>6
<1>10. CASE ServeNobody
  <2>1. up[cur] = <<>> /\ cend[cur] = "closed" /\ AnswerAndClose(buf, <<>>)
    BY <1>10 DEF ServeNobody
  <2>2. ASSUME NEW h \in Conns, h = cur PROVE InStep(h)' /\ OwnAt(h)'
    <3>1. up'[h] = up[h] /\ down'[h] = down[h]
      BY <2>1, <2>2, <1>7, <1>8 DEF Deliver
    <3>2. QED
      BY <3>1, <1>3, <1>6, Frame
  <2>3. buf' = Blank /\ \A k \in Conns : k # cur => InStep(k)' /\ OwnAt(k)'
    BY <2>1, <1>8
  <2>4. QED
    BY <2>2, <2>3
<1>11. QED
  BY <1>5, <1>9, <1>10

LEMMA SelectKeeps ==
  ASSUME ServiceInv, NEW h \in Conns, Serve(h) \/ Disconnected(h) \/ Broken(h)
  PROVE  SocketOpen' /\ ConnInv'
<1>1. TypeInv /\ SocketOpen /\ ConnInv
  BY DEF ServiceInv
<1>2. UNCHANGED <<clientVars, cend, server, buf>>
  BY DEF Serve, Disconnected, Broken
<1>3. /\ SocketOpen'
      /\ \A k \in Conns : /\ Before(k)' <=> Before(k)
                          /\ Reading(k)' <=> Reading(k)
                          /\ content'[k] = content[k]
  BY <1>1, <1>2, ServerFrame
<1>4. SUFFICES ASSUME server # "test/server.c", NEW k \in Conns
               PROVE  InStep(k)' /\ OwnAt(k)'
  BY <1>1, <1>2, <1>3 DEF ConnInv, Blank
<1>5. buf = Blank /\ InStep(k) /\ OwnAt(k) /\ InStep(h) /\ OwnAt(h)
  BY <1>1, <1>4 DEF ConnInv
<1>6. up \in [Conns -> Seq(Bytes)] /\ down \in [Conns -> Seq(Bytes)]
  BY <1>1 DEF TypeInv, ServiceTypeOK
<1>7. CASE Serve(h)
  <2>1. PICK n \in 1 .. Len(up[h]) :
          /\ up' = [up EXCEPT ![h] = SubSeq(@, n + 1, Len(@))]
          /\ Deliver(h, Reply(Overwrite(buf, Append(SubSeq(up[h], 1, n), NUL))))
    BY <1>7 DEF Serve
  <2>2. CASE k # h
    <3>1. up'[k] = up[k] /\ down'[k] = down[k]
      BY <2>1, <2>2, <1>6 DEF Deliver
    <3>2. QED
      BY <3>1, <1>3, <1>5, Frame
  <2>3. CASE k = h
    <3> DEFINE p == Append(SubSeq(up[h], 1, n), NUL)
    <3>1. p \in Seq(Bytes)
      <4>1. SubSeq(up[h], 1, n) \in Seq(Bytes)
        BY <1>6, Pieces
      <4>2. QED
        BY <4>1, ByteTypes, AppendProperties
    <3>2. up[h] # <<>> /\ Deliver(h, Reply(Overwrite(Blank, p)))
      BY <1>5, <1>7, <2>1 DEF Serve
    <3>3. Reading(h) => Received(p, h, n)
      BY <1>1, <1>5, <3>2, Fits DEF InStep
    <3>4. up'[h] = SubSeq(up[h], n + 1, Len(up[h]))
      BY <2>1, <1>6
    <3> HIDE DEF p
    <3>5. InStep(h)' /\ OwnAt(h)'
      BY <1>1, <1>3, <1>5, <3>1, <3>2, <3>3, <3>4, ReplyStep
    <3>6. QED
      BY <2>3, <3>5
  <2>4. QED
    BY <2>2, <2>3
<1>8. CASE Disconnected(h)
  BY <1>3, <1>5, <1>8, Frame DEF Disconnected
<1>9. CASE Broken(h)
  <2>1. up'[k] = <<>> /\ down'[k] = down[k]
    BY <1>9 DEF Broken
  <2>2. Raw(k)' <=> Raw(k)
    BY <1>3 DEF Raw
  <2>3. Answered(k) => Answered(k)'
    BY <2>1 DEF Answered
  <2>4. OwnAt(k)'
    BY <1>3, <1>5 DEF OwnAt
  <2>5. QED
    BY <2>1, <2>2, <2>3, <2>4, <1>3, <1>5 DEF InStep
<1>10. QED
  BY <1>7, <1>8, <1>9

LEMMA InvStep ==
  ASSUME ServiceInv, [ServiceNext]_serviceVars
  PROVE  ServiceInv'
<1>1. TypeInv'
  BY TypeStep DEF ServiceInv
<1>2. CASE ServiceNext
  <2>1. SocketOpen' /\ ConnInv'
    BY <1>2, ClientKeeps, ServerKeeps, SelectKeeps DEF ServiceNext
  <2>2. QED
    BY <1>1, <2>1 DEF ServiceInv
<1>3. CASE UNCHANGED serviceVars
  <2>1. UNCHANGED <<up, down, content, buf, server, pc, round, cend>>
    BY <1>3 DEF serviceVars, tcp, clientVars, serverVars
  <2>2. SocketOpen'
    BY <2>1 DEF ServiceInv, SocketOpen, Cur
  <2>3. \A k \in Conns : (Before(k)' => Before(k)) /\ (Reading(k)' => Reading(k))
    BY <2>1 DEF Before, Reading
  <2>4. ConnInv'
    BY <2>1, <2>3, QuietStep DEF ServiceInv
  <2>5. QED
    BY <1>1, <2>2, <2>4 DEF ServiceInv
<1>4. QED
  BY <1>2, <1>3

LEMMA InvInit == ServiceInit => ServiceInv
<1>1. SUFFICES ASSUME ServiceInit PROVE ServiceInv
  OBVIOUS
<1>2. TypeInv
  BY <1>1, TypeInit
<1>3. SocketOpen
  BY <1>1 DEF ServiceInit, SocketOpen
<1>4. ASSUME NEW k \in Conns PROVE Raw(k)
  <2>1. PICK unset \in SUBSET (FileClients \X {1}) :
          content = [h \in Conns |-> Text(h, IF h \in unset THEN Byte(h, MsgLen + 1) ELSE NUL)]
    BY <1>1 DEF ServiceInit
  <2>2. PICK last \in {NUL, Byte(k, MsgLen + 1)} : content[k] = Text(k, last)
    BY <2>1
  <2> DEFINE t == [j \in 1 .. MsgLen |-> Byte(k, j)]
  <2>3. t \in [1 .. MsgLen -> Bytes] /\ last \in Bytes /\ \A j \in 1 .. MsgLen : t[j] = Byte(k, j)
    BY ByteTypes, Numbers
  <2>4. content[k] = Append(t, last)
    BY <2>2 DEF Text
  <2> HIDE DEF t
  <2>5. t \in Seq(Bytes) /\ Len(t) = MsgLen
    BY <2>3, TupleSeq, Numbers
  <2>6. content[k][MsgLen + 1] = last /\ \A j \in 1 .. MsgLen : content[k][j] = t[j]
    BY <2>3, <2>4, <2>5, AppendProperties
  <2>7. QED
    BY <2>3, <2>6 DEF Raw
<1>5. ASSUME NEW k \in Conns PROVE InStep(k) /\ OwnAt(k)
  <2>1. up[k] = <<>> /\ down[k] = <<>> /\ ~ Reading(k)
    BY <1>1, ConnParts DEF ServiceInit, Reading
  <2>2. OwnAt(k)
    BY <1>4 DEF Raw, OwnAt
  <2>3. QED
    BY <2>1, <2>2, <1>4 DEF InStep
<1>6. QED
  BY <1>1, <1>2, <1>3, <1>5 DEF ServiceInit, ServiceInv, ConnInv

LEMMA ServiceInvariant == ServiceSpec => []ServiceInv
<1>1. ServiceInv /\ [ServiceNext]_serviceVars => ServiceInv'
  BY InvStep
<1>2. QED
  BY <1>1, InvInit, PTL DEF ServiceSpec

\* Every variable of the service keeps its type, the table of server3.c never
\* holds more than MaxClients connections, and neither TCP nor a buffer holds
\* anything but bytes.
THEOREM ServiceTypeCorrect == ServiceSpec => []ServiceTypeOK
<1>1. ServiceInv => ServiceTypeOK
  BY DEF ServiceInv, TypeInv
<1>2. QED
  BY <1>1, ServiceInvariant, PTL

\* For any number of clients, any length of message and any way in which TCP
\* splits message and answer, what a client holds of the answer of
\* sockets/server.c or test/server3.c is its own text, every byte in its place.
THEOREM OwnReplyTheorem == ServiceSpec => []OwnReply
<1>1. ServiceInv => OwnReply
  BY DEF ServiceInv, ConnInv, OwnAt, OwnReply
<1>2. QED
  BY <1>1, ServiceInvariant, PTL
=============================================================================
