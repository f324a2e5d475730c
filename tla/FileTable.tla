------------------------------ MODULE FileTable ------------------------------
(***************************************************************************)
(* The table of open files and sockets that all processes share            *)
(* (FileSystem::fileSlot, filesys/filesys.h under FILESYS_STUB), the       *)
(* OpenFile of the stub (filesys/openfile.h) and the handlers of the file  *)
(* and socket system calls (userprog/exception.cc).  None of the handlers  *)
(* enables interrupts while it works on the table, so each is one step.    *)
(*                                                                         *)
(* Of a host file only its length is kept; host files are inodes, so that  *)
(* a file may be open after its name is gone.  A handler that follows a    *)
(* null or freed pointer sets fault; when it may survive that, it still    *)
(* does what the code goes on to do, but nothing is claimed from there on. *)
(***************************************************************************)
EXTENDS Integers, FiniteSets, FiniteSetsExt, Functions

CONSTANTS MaxFileOpen,  \* size of fileSlot
          Names,        \* file names of user programs
          NoIno,        \* no such file
          Inodes,       \* host files
          MaxLen        \* bound: length of a host file

reverseFD == 2
SC_Write == 8           \* number of the system call, left in register 2

ASSUME SizeAssumption == MaxFileOpen \in Nat /\ MaxFileOpen > reverseFD
ASSUME InodeAssumption == NoIno \notin Inodes
ASSUME LenAssumption == MaxLen \in Nat

Ids == 0 .. MaxFileOpen - 1
Types == {0, 1, 4}      \* read-write, read-only, write after clearing

\* FileSlot: a file or console, a socket, a FileSlot whose fileOpen is NULL
\* (the host open failed), one whose OpenFile is deleted, a deleted FileSlot.
File(ino, type) == [kind |-> "file", ino |-> ino, type |-> type, pos |-> 0]
Null == [kind |-> "null"]
Console == [kind |-> "console"]
OpenSocketInternet == [kind |-> "socket"]
NoFile == [kind |-> "nofile"]
DeadFile == [kind |-> "deadfile"]
Freed == [kind |-> "freed"]

FileSlots ==
  {Null, Console, OpenSocketInternet, NoFile, DeadFile, Freed}
    \cup [kind : {"file"}, ino : Inodes, type : Types, pos : 0 .. MaxLen]

VARIABLES
  fileSlot,  \* the table
  dir,       \* host directory: the inode of a name
  size,      \* length of each inode
  call,      \* last system call: the id it was about and register 2
  lent,      \* history: slots given to programs by Open and OpenSocketTCP and not
             \* given back by Close and CloseSocketTCP
  spent,     \* history: slots used up by Exec and CloseSocketTCP
  clean,     \* history: so far no failed Open, Exec or socket call, and no Remove
             \* with a file open
  fault      \* a null or freed pointer has been followed

vars == <<fileSlot, dir, size, call, lent, spent, clean, fault>>

Init ==
  /\ fileSlot = [i \in Ids |-> IF i < reverseFD THEN Console ELSE Null]
  /\ dir = [n \in Names |-> NoIno]
  /\ size = [f \in Inodes |-> 0]
  /\ call = [id |-> -1, r2 |-> 0]
  /\ lent = 0 /\ spent = 0
  /\ clean = TRUE
  /\ fault = FALSE

Return(id, r2) == call' = [id |-> id, r2 |-> r2]

Account(l, s) == lent' = lent + l /\ spent' = spent + s

\* A call that only returns a value.
Answer(id, r2) == Return(id, r2) /\ Account(0, 0) /\ UNCHANGED <<fileSlot, dir, size, fault>>

Kind(i) == fileSlot[i].kind
IsFile(i) == Kind(i) = "file"
Put(i, s) == fileSlot' = [fileSlot EXCEPT ![i] = s]

\* Mutant of FindFreeSlot: a slot is taken to be free when its fileOpen is NULL.
FindNoFile ==
  LET Empty == {i \in Ids : i >= reverseFD /\ Kind(i) \in {"null", "nofile", "socket"}}
  IN  IF Empty = {} THEN -1 ELSE Min(Empty)

FindFreeSlot ==
  LET Empty == {i \in Ids : i >= reverseFD /\ Kind(i) = "null"}
  IN  IF Empty = {} THEN -1 ELSE Min(Empty)

\* Following a null or freed pointer.
Fault == fault' = TRUE /\ UNCHANGED <<fileSlot, dir, size, call, lent, spent>>

\* open(2) with O_CREAT and O_TRUNC: inode f has the name and is empty.
FreshInode(f) == f \notin Range(dir) /\ \A i \in Ids : IsFile(i) => fileSlot[i].ino # f
OpenForWrite(n, f) ==
  /\ f = dir[n] \/ (dir[n] = NoIno /\ FreshInode(f))
  /\ dir' = [dir EXCEPT ![n] = f]
  /\ size' = [size EXCEPT ![f] = 0]

\* The host's descriptor, whose offset is the position.
Lseek(s, offset) == [s EXCEPT !.pos = offset]
Tell(s) == s.pos
ReadPartial(s, n) == Max({0, Min({n, size[s.ino] - Tell(s)})})
WriteFile(s, n) == size' = [size EXCEPT ![s.ino] = Max({@, Tell(s) + n})]

\* Close and Unlink: the host forgets a file that has neither a name nor a
\* descriptor.
Reclaim ==
  size' = [f \in Inodes |->
             IF f \in Range(dir') \/ \E i \in Ids : fileSlot'[i].kind = "file"
                                                   /\ fileSlot'[i].ino = f
             THEN size[f] ELSE 0]

handle_SC_Create(n) ==
  /\ \E f \in Inodes : OpenForWrite(n, f)
  /\ Return(-1, 0)
  /\ Account(0, 0)
  /\ UNCHANGED <<fileSlot, fault>>

-----------------------------------------------------------------------------
(* Open and Close *)

\* Open, or createTCP.
OpenFull ==
  /\ FindFreeSlot = -1
  /\ Answer(-1, -1)

\* Types 2 and 3 name the console; no slot is taken.
OpenConsole(id) ==
  /\ FindFreeSlot # -1
  /\ Answer(id, id)

\* The host open failed: fileOpen is NULL, the slot is kept and returned.
OpenMissing(n, type) ==
  /\ FindFreeSlot # -1
  /\ type \in {0, 1} /\ dir[n] = NoIno
  /\ Put(FindFreeSlot, NoFile)
  /\ Return(FindFreeSlot, FindFreeSlot)
  /\ Account(1, 0)
  /\ UNCHANGED <<dir, size, fault>>

OpenExisting(n, type) ==
  /\ FindFreeSlot # -1
  /\ type \in {0, 1} /\ dir[n] # NoIno
  /\ Put(FindFreeSlot, File(dir[n], type))
  /\ Return(FindFreeSlot, FindFreeSlot)
  /\ Account(1, 0)
  /\ UNCHANGED <<dir, size, fault>>

OpenNew(n) ==
  /\ FindFreeSlot # -1
  /\ \E f \in Inodes : OpenForWrite(n, f) /\ Put(FindFreeSlot, File(f, 4))
  /\ Return(FindFreeSlot, FindFreeSlot)
  /\ Account(1, 0)
  /\ UNCHANGED fault

\* An id outside the table, or of an empty slot: every call returns -1.
BadId(id) ==
  /\ id \in Ids => Kind(id) = "null"
  /\ Answer(id, -1)

\* FileSystem::closeTCP on a socket: the slot keeps the deleted FileSlot.
closeTCP(id) ==
  /\ Kind(id) = "socket"
  /\ Put(id, Freed)
  /\ Return(id, 0)
  /\ Account(-1, 1)
  /\ UNCHANGED <<dir, size, fault>>

\* Mutant of CloseFile: the slot is not set to NULL after the delete.
CloseKeeps(id) ==
  /\ id >= reverseFD
  /\ Kind(id) \in {"file", "nofile"}
  /\ Put(id, Freed)
  /\ Return(id, 0)
  /\ Account(-1, 0)
  /\ UNCHANGED <<dir, fault>>
  /\ Reclaim

CloseFile(id) ==
  /\ id >= reverseFD
  /\ Kind(id) \in {"file", "nofile"}
  /\ Put(id, Null)
  /\ Return(id, 0)
  /\ Account(-1, 0)
  /\ UNCHANGED <<dir, fault>>
  /\ Reclaim

\* Deleting what Exec or closeTCP has deleted: the slot is set to NULL after the
\* delete, except when the freed FileSlot still looks like a socket's.
CloseDeleted(id) ==
  /\ \/ Kind(id) \in {"deadfile", "freed"} /\ Put(id, Null)
     \/ Kind(id) = "freed" /\ UNCHANGED fileSlot
  /\ Return(id, 0)
  /\ Account(0, 0)
  /\ fault' = TRUE
  /\ UNCHANGED <<dir, size>>

handle_SC_Close(id) ==
  \/ BadId(id)
  \/ id \in Ids /\ id < reverseFD /\ Answer(id, -1)
  \/ id \in Ids /\ (CloseFile(id) \/ closeTCP(id) \/ CloseDeleted(id))

-----------------------------------------------------------------------------
(* Read, Write and Seek *)

\* OpenFile::Read from the host's offset; register 2 is how far it moved.
ReadFile(id, n) ==
  LET s == fileSlot[id]
      got == ReadPartial(s, n)
  IN  /\ Put(id, Lseek(s, Tell(s) + got))
      /\ Return(id, got)
      /\ Account(0, 0)
      /\ UNCHANGED <<dir, size, fault>>

\* receiveTCP: the peer sent nothing more, the call failed, or bytes came;
\* the result is how many of them System2User wrote (it stops at a zero byte).
ReadSocket(id, n) == \E r \in -1 .. n : Answer(id, r)

\* stdin: what GetChar gives (module Devices); stdout cannot be read.
ReadConsole(id, n) ==
  /\ \E k \in 0 .. n : Answer(id, IF id = 0 THEN k ELSE -1)

handle_SC_Read(id, n) ==
  \/ BadId(id)
  \/ id \in Ids /\ Kind(id) = "console" /\ ReadConsole(id, n)
  \/ id \in Ids /\ Kind(id) = "socket" /\ ReadSocket(id, n)
  \/ id \in Ids /\ IsFile(id) /\ ReadFile(id, n)
  \/ id \in Ids /\ Kind(id) \in {"nofile", "deadfile", "freed"} /\ Fault

WriteReadOnly(id) ==
  /\ fileSlot[id].type = 1
  /\ Answer(id, -1)

\* Mutant of WriteData: the new position is given to every OpenFile of the
\* file.
WriteSharedPos(id, n) ==
  LET s == fileSlot[id]
  IN  /\ s.type # 1 /\ n > 0 /\ Tell(s) + n <= MaxLen
      /\ WriteFile(s, n)
      /\ fileSlot' = [i \in Ids |-> IF IsFile(i) /\ fileSlot[i].ino = s.ino
                                    THEN Lseek(fileSlot[i], Tell(s) + n)
                                    ELSE fileSlot[i]]
      /\ Return(id, n)
      /\ Account(0, 0)
      /\ UNCHANGED <<dir, fault>>

\* OpenFile::Write; the bound is on the length of the file.
WriteData(id, n) ==
  LET s == fileSlot[id]
  IN  /\ s.type # 1 /\ n > 0 /\ Tell(s) + n <= MaxLen
      /\ WriteFile(s, n)
      /\ Put(id, Lseek(s, Tell(s) + n))
      /\ Return(id, n)
      /\ Account(0, 0)
      /\ UNCHANGED <<dir, fault>>

\* No bytes: register 2 is not written and still has the call's number.
WriteNothing(id, n) ==
  /\ fileSlot[id].type # 1 /\ n = 0
  /\ Answer(id, SC_Write)

\* stdout takes the bytes up to the first zero; stdin cannot be written.
WriteConsole(id, n) == \E k \in 0 .. n : Answer(id, IF id = 1 THEN k ELSE -1)

\* sendTCP: failed, closed or sent.
SendSocket(id, n) == \E r \in -1 .. n : Answer(id, r)

handle_SC_Write(id, n) ==
  \/ BadId(id)
  \/ id \in Ids /\ Kind(id) = "console" /\ WriteConsole(id, n)
  \/ id \in Ids /\ Kind(id) = "socket" /\ SendSocket(id, n)
  \/ id \in Ids /\ IsFile(id) /\ (WriteReadOnly(id) \/ WriteData(id, n)
                                    \/ WriteNothing(id, n))
  \/ id \in Ids /\ Kind(id) \in {"nofile", "deadfile", "freed"} /\ Fault

\* Length() moves the host offset to the end before the position is judged,
\* and a refused Seek leaves it there.
SeekFile(id, position) ==
  LET end == size[fileSlot[id].ino]
      to == IF position = -1 THEN end ELSE position
      ok == to >= 0 /\ to <= end
  IN  /\ Put(id, Lseek(fileSlot[id], IF ok THEN to ELSE end))
      /\ Return(id, IF ok THEN to ELSE -1)
      /\ Account(0, 0)
      /\ UNCHANGED <<dir, size, fault>>

handle_SC_Seek(id, position) ==
  \/ BadId(id)
  \/ id \in Ids /\ Kind(id) = "console" /\ Answer(id, -1)
  \/ id \in Ids /\ IsFile(id) /\ SeekFile(id, position)
  \/ id \in Ids /\ Kind(id) \in {"socket", "nofile", "deadfile", "freed"} /\ Fault

-----------------------------------------------------------------------------
(* Remove, sockets and Exec *)

\* handle_SC_Remove compares the name with fName of slot after slot, also of the
\* slots without OpenFile.  fName points to the buffer that the handler of Open
\* has freed: with a file open the comparison reads freed memory and may come
\* out either way.
NoOpenFile == {i \in Ids : Kind(i) \in {"socket", "nofile", "deadfile", "freed"}}
OpenIds == {i \in Ids : IsFile(i)}

RemoveRefused ==
  /\ \E i \in OpenIds : \A j \in NoOpenFile : j > i
  /\ Return(-1, -1)
  /\ Account(0, 0)
  /\ fault' = TRUE
  /\ UNCHANGED <<fileSlot, dir, size>>

RemoveUnlink(n) ==
  /\ NoOpenFile = {}
  /\ dir' = [dir EXCEPT ![n] = NoIno]
  /\ Return(-1, IF dir[n] = NoIno THEN -1 ELSE 0)
  /\ Account(0, 0)
  /\ fault' = (OpenIds # {})
  /\ UNCHANGED fileSlot
  /\ Reclaim

handle_SC_Remove(n) ==
  RemoveRefused \/ RemoveUnlink(n) \/ (NoOpenFile # {} /\ Fault)

createTCP ==
  /\ FindFreeSlot # -1
  /\ Put(FindFreeSlot, OpenSocketInternet)
  /\ Return(FindFreeSlot, FindFreeSlot)
  /\ Account(1, 0)
  /\ UNCHANGED <<dir, size, fault>>

\* connectTCP, sendTCP and receiveTCP on a slot that is not a socket follow a
\* null fileSocket; the console's ids are out of their range.
handle_SC_SocketTCP(id, none) ==
  \/ /\ id \notin Ids \/ id < reverseFD
     /\ Answer(id, -1)
  \/ /\ id \in Ids /\ Kind(id) = "null"
     /\ Answer(id, none)
  \/ /\ id \in Ids /\ id >= reverseFD
     /\ Kind(id) \in {"file", "nofile", "deadfile", "freed"}
     /\ Fault

ConnectTCP(id) == \E r \in {-1, 0} : Answer(id, r)

handle_SC_SocketTCP_Connect(id) ==
  \/ handle_SC_SocketTCP(id, -1)
  \/ id \in Ids /\ Kind(id) = "socket" /\ ConnectTCP(id)

\* The buffer is copied in with a length that is read only afterwards: an
\* uninitialised length may end in a fault.
handle_SC_SocketTCP_Send(id, n) ==
  \/ Fault
  \/ handle_SC_SocketTCP(id, 0)
  \/ id \in Ids /\ Kind(id) = "socket" /\ SendSocket(id, n)

handle_SC_SocketTCP_Receive(id, n) ==
  \/ handle_SC_SocketTCP(id, 0)
  \/ id \in Ids /\ Kind(id) = "socket" /\ ReadSocket(id, n)

handle_SC_SocketTCP_Close(id) ==
  handle_SC_SocketTCP(id, -1) \/ (id \in Ids /\ closeTCP(id))

\* Exec opens the program to see that it is there, which takes a slot, and
\* deletes the OpenFile; the slot stays.  What ExecUpdate then does is module
\* ProcessTable's.
ExecOpen(n) ==
  /\ dir[n] # NoIno /\ FindFreeSlot # -1
  /\ Put(FindFreeSlot, DeadFile)
  /\ Return(-1, 0)
  /\ Account(0, 1)
  /\ UNCHANGED <<dir, size, fault>>

ExecFails(n) ==
  /\ dir[n] = NoIno \/ FindFreeSlot = -1
  /\ Answer(-1, -1)

-----------------------------------------------------------------------------

FileCall ==
  \/ \E n \in Names : \/ handle_SC_Create(n)
                      \/ \E type \in Types : OpenExisting(n, type)
                      \/ OpenNew(n)
                      \/ ExecFails(n)
  \/ OpenFull
  \/ \E id \in {0, 1} : OpenConsole(id)
  \/ \E id \in -1 .. MaxFileOpen :
       \/ handle_SC_Close(id)
       \/ \E n \in 0 .. MaxLen : handle_SC_Read(id, n) \/ handle_SC_Write(id, n)
       \/ \E position \in -2 .. MaxLen + 1 : handle_SC_Seek(id, position)

SocketCall ==
  \/ createTCP \/ OpenFull
  \/ \E id \in -1 .. MaxFileOpen :
       \/ handle_SC_SocketTCP_Connect(id)
       \/ handle_SC_SocketTCP_Close(id)
       \/ \E n \in 0 .. MaxLen : \/ handle_SC_SocketTCP_Send(id, n)
                                 \/ handle_SC_SocketTCP_Receive(id, n)

FailedOpenOrExec ==
  \E n \in Names : ExecOpen(n) \/ \E type \in Types : OpenMissing(n, type)

Next ==
  /\ ~fault
  /\ \/ FileCall /\ clean' = clean
     \/ (\E n \in Names : handle_SC_Remove(n)) /\ clean' = (clean /\ OpenIds = {})
     \/ SocketCall /\ clean' = FALSE
     \/ FailedOpenOrExec /\ clean' = FALSE

Spec == Init /\ [][Next]_vars

-----------------------------------------------------------------------------
(* Properties. *)

TypeOK ==
  /\ fileSlot \in [Ids -> FileSlots]
  /\ dir \in [Names -> Inodes \cup {NoIno}]
  /\ size \in [Inodes -> 0 .. MaxLen]
  /\ call \in [id : -1 .. MaxFileOpen, r2 : Int]
  /\ lent \in Int /\ spent \in Nat
  /\ clean \in BOOLEAN /\ fault \in BOOLEAN

\* As long as no Open failed at the host, no program was executed, no socket
\* call was made and no Remove came while a file was open, no sequence of file
\* calls makes the kernel follow a null or freed pointer; every fault goes back
\* to one of those four.
CleanNeverFaults ==
  clean => ~fault /\ NoOpenFile = {}

\* Until a fault every slot above the console's is accounted for: it is lent to
\* the program that opened it and has not closed it, or used up, one by each Exec
\* of a program there is and one by each closed socket, or free.  No other call
\* takes, loses or shares one, also when the table is full.
SlotsAccounted ==
  ~fault =>
    /\ Cardinality({i \in Ids : Kind(i) \in {"file", "nofile", "socket"}}) = lent
    /\ Cardinality({i \in Ids : Kind(i) = "null"}) = MaxFileOpen - reverseFD - lent - spent

\* A call on one id never moves or replaces what another id has open, also
\* when both are open on the same file and also when the table is full.
IdsIndependent ==
  [][\A i \in Ids : IsFile(i) /\ fileSlot'[i] # fileSlot[i] => call'.id = i]_vars
=============================================================================
