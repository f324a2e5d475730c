------------------------------- MODULE Devices -------------------------------
(***************************************************************************)
(* The simulated devices and their synchronous front ends: interrupts and  *)
(* time (machine/interrupt.cc), the timer (machine/timer.cc), the console  *)
(* (machine/console.cc, userprog/synchconsole.cc) and the disk             *)
(* (machine/disk.cc, filesys/synchdisk.cc).                                *)
(*                                                                         *)
(* Locks and semaphores are the abstract ones that module Synch            *)
(* implements.  Threads may be switched wherever they enable interrupts,   *)
(* so they interleave freely; time passes when a thread runs, or jumps to  *)
(* the next interrupt when none can.                                       *)
(*                                                                         *)
(* Time is relative: pending holds how many ticks are left, clock is the   *)
(* time modulo one turn of the disk, and the age of the track buffer is    *)
(* counted up to the point from which it holds the whole track.            *)
(***************************************************************************)
EXTENDS Integers, Sequences, SequencesExt, FiniteSets

CONSTANTS Threads, NoThread,
          Chars, Inputs,    \* characters, and what the console's input may be
          ConsoleTime, SeekTime, RotationTime, SectorsPerTrack, NumTracks,
          TimerDelays,      \* delays of the timer: TimerTicks, or random ones
          TickLengths       \* UserTick and SystemTick

EOF == "EOF"                \* (char) -1
ASSUME ThreadsAssumption == NoThread \notin Threads
ASSUME TimesAssumption ==
  /\ {ConsoleTime, SeekTime, RotationTime, SectorsPerTrack, NumTracks} \subseteq Nat \ {0}
  /\ TimerDelays \subseteq Nat \ {0} /\ TickLengths \subseteq Nat \ {0}
ASSUME InputsAssumption == EOF \in Chars /\ Inputs \subseteq Seq(Chars)

Devs == {"in", "out", "disk"}
Sectors == 0 .. SectorsPerTrack * NumTracks - 1
Turn == RotationTime * SectorsPerTrack
Interrupts == {"timer", "read", "write", "disk"}

VARIABLES
  pending,     \* Interrupt::pending
  clock,       \* Statistics::totalTicks modulo Turn
  pc, dev,     \* where each thread is, and with which device
  lock, sem,   \* Lock and Semaphore of each front end
  busy,        \* ConsoleOutput::putBusy, Disk::active
  rest,        \* what the console's input still has
  incoming,    \* ConsoleInput::incoming
  got,         \* history: what SynchConsoleInput::GetChar has returned
  input,       \* the console's whole input; it may have the byte 255
  disk         \* the disk's lastSector, bufferInit and request

time == <<pending, clock>>
threads == <<pc, dev, lock, sem>>
console == <<rest, incoming, got, input>>
deviceVars == <<time, threads, busy, console, disk>>

-----------------------------------------------------------------------------
(* Interrupts *)

PendingInterrupt(when, kind) == [left |-> when, type |-> kind]
PendingCompare(x, y) == x.left - y.left

\* SortedList::Insert: after the interrupts that are not later.
Insert(q, i) ==
  LET k == CHOOSE k \in 1 .. Len(q) + 1 :
             /\ \A j \in 1 .. k - 1 : PendingCompare(i, q[j]) >= 0
             /\ k <= Len(q) => PendingCompare(i, q[k]) < 0
  IN  InsertAt(q, k, i)

Schedule(q, fromNow, type) == Insert(q, PendingInterrupt(fromNow, type))

Count(type) == Cardinality({n \in DOMAIN pending : pending[n].type = type})

Due == pending # <<>> /\ Head(pending).left <= 0

\* totalTicks += k.
Advance(k) ==
  /\ pending' = [n \in DOMAIN pending |-> [pending[n] EXCEPT !.left = @ - k]]
  /\ clock' = (clock + k) % Turn
  /\ disk' = IF disk.age + k < Turn THEN [disk EXCEPT !.age = @ + k]
             ELSE [disk EXCEPT !.age = Turn, !.buffer = 0]
  /\ UNCHANGED <<threads, busy, console>>

Blocked(t) ==
  \/ pc[t] = "want" /\ lock[dev[t]] # NoThread
  \/ pc[t] = "wait" /\ sem[dev[t]] = 0

\* Some thread runs: Interrupt::OneTick.
OneTick ==
  /\ ~Due /\ \E t \in Threads : ~Blocked(t)
  /\ \E k \in TickLengths : Advance(k)

\* No thread can run: Interrupt::Idle advances to the first interrupt.
Idle ==
  /\ ~Due /\ \A t \in Threads : Blocked(t)
  /\ pending # <<>>
  /\ Advance(Head(pending).left)

\* CallBack of a front end.
V(d) == sem' = [sem EXCEPT ![d] = @ + 1]

\* Timer::SetInterrupt: what the list may be afterwards.
SetInterrupt(q) == {Schedule(q, delay, "timer") : delay \in TimerDelays}

\* Timer::CallBack and Alarm::CallBack.  That the handler asks for a Yield adds
\* nothing to threads that interleave freely.
TimerCallBack ==
  /\ Head(pending).type = "timer"
  /\ pending' \in SetInterrupt(Tail(pending))
  /\ UNCHANGED <<clock, threads, busy, console, disk>>

-----------------------------------------------------------------------------
(* Console *)

\* ConsoleInput::CallBack: nothing typed yet, or a character, or, when the
\* input is at its end, neither a character nor another interrupt.
PollAgain ==
  /\ Head(pending).type = "read"
  /\ pending' = Schedule(Tail(pending), ConsoleTime, "read")
  /\ UNCHANGED <<clock, threads, busy, console, disk>>

CharArrives ==
  /\ Head(pending).type = "read" /\ rest # <<>>
  /\ incoming' = Head(rest)
  /\ rest' = Tail(rest)
  /\ V("in")
  /\ pending' = Tail(pending)
  /\ UNCHANGED <<clock, pc, dev, lock, busy, got, input, disk>>

InputEnds ==
  /\ Head(pending).type = "read" /\ rest = <<>>
  /\ V("in")
  /\ pending' = Tail(pending)
  /\ UNCHANGED <<clock, pc, dev, lock, busy, console, disk>>

\* Mutant of GetChar: the next read is scheduled also when no character is
\* there.
GetCharAlways ==
  /\ got' = Append(got, incoming)
  /\ incoming' = EOF
  /\ pending' = Schedule(pending, ConsoleTime, "read")
  /\ UNCHANGED <<clock, rest, input>>

\* ConsoleInput::GetChar.  The byte 255 is taken for no character.
GetChar ==
  /\ got' = Append(got, incoming)
  /\ incoming' = EOF
  /\ pending' = IF incoming # EOF THEN Schedule(pending, ConsoleTime, "read") ELSE pending
  /\ UNCHANGED <<clock, rest, input>>

\* ConsoleOutput::PutChar.
PutChar ==
  /\ pending' = Schedule(pending, ConsoleTime, "write")
  /\ UNCHANGED disk

\* Mutant of Completion: the front end's handler is not called.
CompletionSilent(type, d) ==
  /\ Head(pending).type = type
  /\ busy' = [busy EXCEPT ![d] = FALSE]
  /\ pending' = Tail(pending)
  /\ UNCHANGED <<clock, threads, console, disk>>

\* A device is done: its CallBack, with the front end's.
Completion(type, d) ==
  /\ Head(pending).type = type
  /\ busy' = [busy EXCEPT ![d] = FALSE]
  /\ V(d)
  /\ pending' = Tail(pending)
  /\ UNCHANGED <<clock, pc, dev, lock, console, disk>>

\* ConsoleOutput::CallBack.
PutDone == Completion("write", "out")

\* ConsoleInput::ConsoleInput.
InitConsole ==
  /\ input \in Inputs
  /\ rest = input
  /\ incoming = EOF
  /\ got = <<>>

-----------------------------------------------------------------------------
(* Disk *)

\* Disk::Disk.
InitDisk == disk = [lastSector |-> 0, buffer |-> 0, age |-> 0, cached |-> FALSE]

Track(s) == s \div SectorsPerTrack
AbsDiff(a, b) == IF a < b THEN b - a ELSE a - b

\* Disk::TimeToSeek: the seek, and then the wait for a sector boundary.
TimeToSeek(s) == AbsDiff(Track(s), Track(disk.lastSector)) * SeekTime
Rotate(s) == (-(clock + TimeToSeek(s))) % RotationTime

\* Disk::ModuloDiff: sectors from one place on the track to another.
ModuloDiff(to, from) == (to - from) % SectorsPerTrack

\* The head has read the sector into the track buffer.  buffer is bufferInit
\* modulo Turn, age the time since then.
InTrackBuffer(s) ==
  /\ TimeToSeek(s) = 0
  /\ (disk.age + Rotate(s)) \div RotationTime > ModuloDiff(s, disk.buffer \div RotationTime)

\* Mutant of ComputeLatency: the rotation starts at the time of the request.
LatencyNow(s, writing) ==
  IF ~writing /\ InTrackBuffer(s) THEN RotationTime
  ELSE TimeToSeek(s) + Rotate(s) + RotationTime
         + ModuloDiff(s, clock \div RotationTime) * RotationTime

\* Disk::ComputeLatency.
ComputeLatency(s, writing) ==
  LET after == clock + TimeToSeek(s) + Rotate(s)
  IN  IF ~writing /\ InTrackBuffer(s) THEN RotationTime
      ELSE TimeToSeek(s) + Rotate(s) + RotationTime
             + ModuloDiff(s, after \div RotationTime) * RotationTime

\* Disk::UpdateLast: a seek starts a new track buffer, when the head arrives.
UpdateLast(s, writing) ==
  LET ahead == TimeToSeek(s) + Rotate(s)
  IN  disk' = [lastSector |-> s,
               buffer |-> IF TimeToSeek(s) # 0 THEN (clock + ahead) % Turn ELSE disk.buffer,
               age |-> IF TimeToSeek(s) # 0 THEN -ahead ELSE disk.age,
               cached |-> ~writing /\ InTrackBuffer(s)]

\* Disk::ReadRequest and WriteRequest.
DiskRequest ==
  \E s \in Sectors, writing \in BOOLEAN :
    /\ pending' = Schedule(pending, ComputeLatency(s, writing), "disk")
    /\ UpdateLast(s, writing)

\* Disk::CallBack.
DiskDone == Completion("disk", "disk")

-----------------------------------------------------------------------------
(* The front ends, as threads go through them *)

\* Mutant of Acquire: the front end takes no lock.
AcquireNothing(t) ==
  /\ pc[t] = "want"
  /\ lock' = [lock EXCEPT ![dev[t]] = t]
  /\ pc' = [pc EXCEPT ![t] = IF dev[t] = "in" THEN "wait" ELSE "request"]
  /\ UNCHANGED <<time, dev, sem, busy, console, disk>>

\* lock->Acquire; the console's input comes without being asked for.
Acquire(t) ==
  /\ pc[t] = "want" /\ lock[dev[t]] = NoThread
  /\ lock' = [lock EXCEPT ![dev[t]] = t]
  /\ pc' = [pc EXCEPT ![t] = IF dev[t] = "in" THEN "wait" ELSE "request"]
  /\ UNCHANGED <<time, dev, sem, busy, console, disk>>

Request(t) ==
  /\ pc[t] = "request"
  /\ IF dev[t] = "out" THEN PutChar ELSE DiskRequest
  /\ busy' = [busy EXCEPT ![dev[t]] = TRUE]
  /\ pc' = [pc EXCEPT ![t] = "wait"]
  /\ UNCHANGED <<clock, dev, lock, sem, console>>

P(t) ==
  /\ pc[t] = "wait" /\ sem[dev[t]] > 0
  /\ sem' = [sem EXCEPT ![dev[t]] = @ - 1]
  /\ pc' = [pc EXCEPT ![t] = "release"]
  /\ UNCHANGED <<time, dev, lock, busy, console, disk>>

\* SynchConsoleInput takes its character on the way out.  The thread's next
\* device is any.
Release(t) ==
  /\ pc[t] = "release"
  /\ IF dev[t] = "in" THEN GetChar ELSE UNCHANGED <<time, console>>
  /\ lock' = [lock EXCEPT ![dev[t]] = NoThread]
  /\ pc' = [pc EXCEPT ![t] = "want"]
  /\ \E d \in Devs : dev' = [dev EXCEPT ![t] = d]
  /\ UNCHANGED <<sem, busy, disk>>

-----------------------------------------------------------------------------

\* SynchConsoleInput::SynchConsoleInput and its like: a lock and a semaphore.
InitSynch ==
  /\ lock = [d \in Devs |-> NoThread]
  /\ sem = [d \in Devs |-> 0]

\* ConsoleOutput::ConsoleOutput and its like: putBusy, active.
InitOutput == busy = [d \in Devs |-> FALSE]

DevicesInit ==
  /\ \E q \in SetInterrupt(<<>>) : pending = Schedule(q, ConsoleTime, "read")
  /\ clock = 0
  /\ pc = [t \in Threads |-> "want"]
  /\ dev \in [Threads -> Devs]
  /\ InitSynch
  /\ InitOutput
  /\ InitConsole
  /\ InitDisk

\* One handler of the loop in Interrupt::CheckIfDue.
Handle ==
  /\ Due
  /\ \/ TimerCallBack \/ PollAgain \/ CharArrives \/ InputEnds
     \/ PutDone \/ DiskDone

Step(t) ==
  /\ ~Due
  /\ Acquire(t) \/ Request(t) \/ P(t) \/ Release(t)

DevicesNext == OneTick \/ Idle \/ Handle \/ \E t \in Threads : Step(t)

\* The scheduler is round robin and the timer preempts: a thread that can go on
\* gets the CPU again and again between interrupts, and time passes.  Nobody has
\* to type.
Fairness ==
  /\ WF_deviceVars(OneTick \/ Idle)
  /\ WF_deviceVars(Handle)
  /\ \A t \in Threads : SF_deviceVars(~Due /\ P(t))

DevicesSpec == DevicesInit /\ [][DevicesNext]_deviceVars /\ Fairness

-----------------------------------------------------------------------------
(* Properties. *)

DevicesTypeOK ==
  /\ pending \in Seq([left : Int, type : Interrupts])
  /\ clock \in 0 .. Turn - 1
  /\ pc \in [Threads -> {"want", "request", "wait", "release"}]
  /\ dev \in [Threads -> Devs]
  /\ lock \in [Devs -> Threads \cup {NoThread}]
  /\ sem \in [Devs -> Nat]
  /\ busy \in [Devs -> BOOLEAN]
  /\ rest \in Seq(Chars) /\ incoming \in Chars /\ got \in Seq(Chars) /\ input \in Inputs
  /\ disk \in [lastSector : Sectors, buffer : 0 .. Turn - 1, age : Int, cached : BOOLEAN]

\* One request, one interrupt, one wake-up, one thread: the disk and the display
\* are never given a request while they are busy (their ASSERTs) and no
\* completion is left behind for a thread that did not ask for it.
OneCompletion ==
  \A d \in {"out", "disk"} :
    LET waiting == {t \in Threads : dev[t] = d /\ pc[t] = "wait"}
        ints == Count(IF d = "out" THEN "write" ELSE "disk")
    IN  /\ \A t, u \in waiting : t = u
        /\ ints + sem[d] = (IF waiting = {} THEN 0 ELSE 1)
        /\ busy[d] <=> ints = 1
        /\ \A t \in Threads : dev[t] = d /\ pc[t] = "request" => ~busy[d] /\ sem[d] = 0

\* Characters are neither lost, doubled nor reordered between the keyboard, the
\* device and the threads, and no read interrupt finds the last character
\* uncollected (the ASSERT in ConsoleInput::CallBack).  EOF ends the input for
\* good: it is delivered once, as the last thing GetChar ever returns.
InputInOrder ==
  /\ IsPrefix(got \o (IF incoming = EOF THEN <<>> ELSE <<incoming>>), Append(input, EOF))
  /\ Count("read") > 0 => incoming = EOF /\ sem["in"] = 0
  /\ \A n \in 1 .. Len(got) - 1 : got[n] # EOF
  /\ got # <<>> /\ got[Len(got)] = EOF => Count("read") = 0 /\ sem["in"] = 0

\* A disk request that is not served by the track buffer completes when the head
\* has just passed the end of its sector.
HeadPasses ==
  \A n \in DOMAIN pending :
    pending[n].type = "disk" /\ ~disk.cached =>
      (clock + pending[n].left) % Turn
        = (((disk.lastSector % SectorsPerTrack) + 1) * RotationTime) % Turn

\* A thread that waits for the disk or the display goes on, however the timer
\* and the other devices interfere.
IoCompletes ==
  \A t \in Threads : (pc[t] = "wait" /\ dev[t] # "in") ~> pc[t] = "release"
=============================================================================
