--------------------------- MODULE PostOfficeProofs ---------------------------
(***************************************************************************)
(* Proofs about PostOffice, for any number of machines, senders, boxes,    *)
(* packets and restarts.                                                   *)
(*                                                                         *)
(* A packet moves from the socket to the buffer, to the postal worker, to  *)
(* a box and to a reader.  The inductive invariant says that each of these *)
(* places has older packets of a sender than the ones before it, that the  *)
(* places with room for several keep them in order, and that all packets   *)
(* are older than the next one of their sender.  What a place has is       *)
(* treated as a set, so that a move is an element leaving one set for      *)
(* another.                                                                *)
(***************************************************************************)
EXTENDS PostOffice, SequenceTheorems, TLAPS

Letters ==
  /\ letter = [t \in Threads |-> letter[t]]
  /\ \A t \in Threads : pc[t] # "idle" => letter[t].to \in Machines /\ letter[t].box \in Int

\* What the postal worker does is what the buffer and its hand allow.
Worker ==
  /\ BufferedOnce
  /\ \A m \in Machines : worker[m] = "put" => hand[m] \in Mail

\* What is in each place of machine m.
Got(m, b) == ToSet(received[m][b])
Boxed(m, b) == ToSet(boxes[m][b])
Held(m) == {hand[m]} \ {None}
Buffered(m) == {inHdr[m]} \ {None}
Wired(m) == ToSet(wire[m])

\* The packets of a sender in A are older than those in B.
Before(A, B) == \A x \in A, y \in B : x.from = y.from => x.id < y.id

\* A sequence has the packets of each sender in their order.
Ordered(s) ==
  \A i, j \in 1 .. Len(s) : i < j /\ s[i].from = s[j].from => s[i].id < s[j].id

Addressed(m, A) == \A x \in A : x.to = m /\ x.id <= sent[x.from]

Places(m, b) ==
  /\ Addressed(m, Got(m, b)) /\ Addressed(m, Boxed(m, b))
  /\ Addressed(m, Held(m)) /\ Addressed(m, Buffered(m)) /\ Addressed(m, Wired(m))
  /\ \A x \in Got(m, b) \cup Boxed(m, b) : x.box = b
  /\ Ordered(received[m][b]) /\ Ordered(boxes[m][b]) /\ Ordered(wire[m])
  /\ Before(Got(m, b), Boxed(m, b)) /\ Before(Got(m, b), Held(m))
  /\ Before(Got(m, b), Buffered(m)) /\ Before(Got(m, b), Wired(m))
  /\ Before(Boxed(m, b), Held(m)) /\ Before(Boxed(m, b), Buffered(m))
  /\ Before(Boxed(m, b), Wired(m))
  /\ Before(Held(m), Buffered(m)) /\ Before(Held(m), Wired(m))
  /\ Before(Buffered(m), Wired(m))

IInv ==
  /\ TypeOK /\ Letters /\ Worker
  /\ \A m \in Machines, b \in Boxes : Places(m, b)

-----------------------------------------------------------------------------
(* Sequences of packets *)

\* A packet younger than all in a sequence may be appended to it.
LEMMA AppendOrdered ==
  ASSUME NEW s \in Seq(Mail), NEW x \in Mail
  PROVE  /\ Append(s, x) \in Seq(Mail)
         /\ ToSet(Append(s, x)) = ToSet(s) \cup {x}
         /\ Ordered(s) /\ Before(ToSet(s), {x}) => Ordered(Append(s, x))
<1> DEFINE a == Append(s, x)
<1>1. /\ a \in Seq(Mail) /\ Len(a) = Len(s) + 1 /\ a[Len(s) + 1] = x
      /\ \A i \in 1 .. Len(s) : a[i] = s[i]
      /\ Len(s) \in Nat /\ DOMAIN a = 1 .. Len(s) + 1 /\ DOMAIN s = 1 .. Len(s)
  OBVIOUS
<1> HIDE DEF a
<1>2. ToSet(a) = ToSet(s) \cup {x}
  BY <1>1 DEF ToSet
<1>3. ASSUME Ordered(s), Before(ToSet(s), {x}),
             NEW i \in 1 .. Len(a), NEW j \in 1 .. Len(a), i < j, a[i].from = a[j].from
      PROVE  a[i].id < a[j].id
  <2>1. i \in 1 .. Len(s) /\ a[i] = s[i] /\ s[i] \in ToSet(s)
    BY <1>1, <1>3 DEF ToSet
  <2>2. CASE j \in 1 .. Len(s)
    BY <1>1, <1>3, <2>1, <2>2 DEF Ordered
  <2>3. CASE j = Len(s) + 1
    BY <1>1, <1>3, <2>1, <2>3 DEF Before
  <2>4. QED
    BY <1>1, <2>2, <2>3
<1>4. QED
  BY <1>1, <1>2, <1>3 DEF a, Ordered

\* The first packet of an ordered sequence is older than the others.
LEMMA TailOrdered ==
  ASSUME NEW s \in Seq(Mail), s # <<>>
  PROVE  /\ Tail(s) \in Seq(Mail) /\ Head(s) \in Mail
         /\ Head(s) \in ToSet(s) /\ ToSet(Tail(s)) \subseteq ToSet(s)
         /\ Ordered(s) => Ordered(Tail(s)) /\ Before({Head(s)}, ToSet(Tail(s)))
<1> DEFINE u == Tail(s)
           h == Head(s)
<1>1. /\ u \in Seq(Mail) /\ Len(s) \in Nat /\ Len(s) > 0 /\ Len(u) = Len(s) - 1
      /\ \A i \in 1 .. Len(u) : u[i] = s[i + 1]
      /\ h = s[1] /\ h \in Mail /\ DOMAIN u = 1 .. Len(s) - 1 /\ DOMAIN s = 1 .. Len(s)
  OBVIOUS
<1> HIDE DEF u, h
<1>2. h \in ToSet(s)
  BY <1>1 DEF ToSet
<1>3. ToSet(u) \subseteq ToSet(s)
  BY <1>1 DEF ToSet
<1>4. ASSUME Ordered(s) PROVE Ordered(u)
  <2>1. SUFFICES ASSUME NEW i \in 1 .. Len(u), NEW j \in 1 .. Len(u), i < j, u[i].from = u[j].from
                 PROVE  u[i].id < u[j].id
    BY DEF Ordered
  <2>2. i + 1 \in 1 .. Len(s) /\ j + 1 \in 1 .. Len(s) /\ i + 1 < j + 1
    BY <1>1, <2>1
  <2>3. u[i] = s[i + 1] /\ u[j] = s[j + 1]
    BY <1>1
  <2>4. QED
    BY <1>4, <2>1, <2>2, <2>3 DEF Ordered
<1>5. ASSUME Ordered(s) PROVE Before({h}, ToSet(u))
  <2>1. SUFFICES ASSUME NEW i \in 1 .. Len(s) - 1, h.from = u[i].from PROVE h.id < u[i].id
    BY <1>1 DEF Before, ToSet
  <2>2. u[i] = s[i + 1] /\ 1 \in 1 .. Len(s) /\ i + 1 \in 1 .. Len(s) /\ 1 < i + 1
    BY <1>1
  <2>3. QED
    BY <1>1, <1>5, <2>1, <2>2 DEF Ordered
<1>6. QED
  BY <1>1, <1>2, <1>3, <1>4, <1>5 DEF u, h

\* Two ordered sequences, the first with the older packets, make one.
LEMMA ConcatOrdered ==
  ASSUME NEW s \in Seq(Mail), NEW u \in Seq(Mail)
  PROVE  /\ s \o u \in Seq(Mail)
         /\ ToSet(s \o u) = ToSet(s) \cup ToSet(u)
         /\ Ordered(s) /\ Ordered(u) /\ Before(ToSet(s), ToSet(u)) => Ordered(s \o u)
<1> DEFINE c == s \o u
<1>1. /\ c \in Seq(Mail) /\ Len(c) = Len(s) + Len(u) /\ Len(s) \in Nat /\ Len(u) \in Nat
      /\ \A i \in 1 .. Len(s) + Len(u) : c[i] = IF i <= Len(s) THEN s[i] ELSE u[i - Len(s)]
      /\ DOMAIN s = 1 .. Len(s) /\ DOMAIN u = 1 .. Len(u)
      /\ DOMAIN c = 1 .. Len(s) + Len(u)
  <2>1. /\ c \in Seq(Mail) /\ Len(c) = Len(s) + Len(u)
        /\ \A i \in 1 .. Len(s) + Len(u) : c[i] = IF i <= Len(s) THEN s[i] ELSE u[i - Len(s)]
    BY ConcatProperties
  <2> HIDE DEF c
  <2>2. QED
    BY <2>1
<1> HIDE DEF c
<1>2. /\ \A i \in 1 .. Len(s) : i \in 1 .. Len(c) /\ c[i] = s[i]
      /\ \A i \in 1 .. Len(u) : Len(s) + i \in 1 .. Len(c) /\ c[Len(s) + i] = u[i]
      /\ \A i \in 1 .. Len(c) : i \in 1 .. Len(s) \/ i - Len(s) \in 1 .. Len(u)
  BY <1>1
<1>3. ToSet(c) = ToSet(s) \cup ToSet(u)
  <2>1. ASSUME NEW i \in 1 .. Len(c) PROVE c[i] \in ToSet(s) \cup ToSet(u)
    <3>1. CASE i <= Len(s)
      BY <1>1, <3>1 DEF ToSet
    <3>2. CASE i > Len(s)
      <4>1. i - Len(s) \in 1 .. Len(u) /\ c[i] = u[i - Len(s)]
        BY <1>1, <3>2
      <4>2. QED
        BY <1>1, <4>1 DEF ToSet
    <3>3. QED
      BY <1>1, <3>1, <3>2
  <2>2. ToSet(s) \subseteq ToSet(c)
    BY <1>1, <1>2 DEF ToSet
  <2>3. ASSUME NEW i \in 1 .. Len(u) PROVE u[i] \in ToSet(c)
    <3>1. Len(s) + i \in DOMAIN c /\ c[Len(s) + i] = u[i]
      BY <1>1, <1>2
    <3>2. QED
      BY <3>1 DEF ToSet
  <2>4. ToSet(u) \subseteq ToSet(c)
    BY <1>1, <2>3 DEF ToSet
  <2>5. ToSet(c) \subseteq ToSet(s) \cup ToSet(u)
    BY <1>1, <2>1 DEF ToSet
  <2>6. QED
    BY <2>2, <2>4, <2>5
<1>4. ASSUME Ordered(s), Ordered(u), Before(ToSet(s), ToSet(u)),
             NEW i \in 1 .. Len(c), NEW j \in 1 .. Len(c), i < j, c[i].from = c[j].from
      PROVE  c[i].id < c[j].id
  <2>1. CASE i <= Len(s) /\ j <= Len(s)
    BY <1>1, <1>4, <2>1 DEF Ordered
  <2>2. CASE i <= Len(s) /\ j > Len(s)
    <3>1. i \in 1 .. Len(s) /\ c[i] = s[i] /\ j - Len(s) \in 1 .. Len(u) /\ c[j] = u[j - Len(s)]
      BY <1>1, <2>2
    <3>2. s[i] \in ToSet(s) /\ u[j - Len(s)] \in ToSet(u)
      BY <1>1, <3>1 DEF ToSet
    <3>3. QED
      BY <1>4, <3>1, <3>2 DEF Before
  <2>3. CASE i > Len(s)
    <3>1. /\ i - Len(s) \in 1 .. Len(u) /\ c[i] = u[i - Len(s)]
          /\ j - Len(s) \in 1 .. Len(u) /\ c[j] = u[j - Len(s)]
          /\ i - Len(s) < j - Len(s)
      BY <1>1, <1>4, <2>3
    <3>2. QED
      BY <1>4, <3>1 DEF Ordered
  <2>4. QED
    BY <1>1, <2>1, <2>2, <2>3
<1>5. QED
  BY <1>1, <1>3, <1>4 DEF c, Ordered

\* No packet, or one.
LEMMA OptOrdered ==
  ASSUME NEW x \in Mail \cup {None}
  PROVE  Opt(x) \in Seq(Mail) /\ ToSet(Opt(x)) = {x} \ {None} /\ Ordered(Opt(x))
<1>1. CASE x = None
  BY <1>1 DEF Opt, ToSet, Ordered
<1>2. CASE x # None
  <2> DEFINE o == <<x>>
  <2>1. o \in Seq(Mail) /\ Len(o) = 1 /\ DOMAIN o = {1} /\ o[1] = x
    BY <1>2
  <2>2. Opt(x) = o
    BY <1>2 DEF Opt
  <2> HIDE DEF o
  <2>3. ToSet(o) = {x}
    BY <2>1 DEF ToSet
  <2>4. Ordered(o)
    BY <2>1 DEF Ordered
  <2>5. QED
    BY <1>2, <2>1, <2>2, <2>3, <2>4
<1>3. QED
  BY <1>1, <1>2

-----------------------------------------------------------------------------
(* Types *)

\* The initial state.
LEMMA InitIInv == Init => IInv
<1> SUFFICES ASSUME Init PROVE IInv
  OBVIOUS
<1> USE DEF Init, InitInput, InitOutput
<1>1. 0 \in 0 .. MaxBoots /\ 0 \in 0 .. MaxMail
  BY BoundsAssumption
<1>2. /\ wire \in [Machines -> Seq(Mail)]
      /\ boxes \in [Machines -> [Boxes -> Seq(Mail)]]
      /\ received \in [Machines -> [Boxes -> Seq(Mail)]]
  OBVIOUS
<1>3. TypeOK
  BY <1>1, <1>2 DEF TypeOK
<1>4. Letters /\ Worker
  BY DEF Letters, Worker, BufferedOnce
<1>5. ASSUME NEW m \in Machines, NEW b \in Boxes PROVE Places(m, b)
  <2>1. /\ Got(m, b) = {} /\ Boxed(m, b) = {} /\ Wired(m) = {}
        /\ Held(m) = {} /\ Buffered(m) = {}
    BY DEF Got, Boxed, Wired, Held, Buffered, ToSet
  <2>2. Ordered(received[m][b]) /\ Ordered(boxes[m][b]) /\ Ordered(wire[m])
    BY DEF Ordered
  <2>3. QED
    BY <2>1, <2>2 DEF Places, Addressed, Before
<1>6. QED
  BY <1>3, <1>4, <1>5 DEF IInv

\* The steps of a machine keep the types.
LEMMA MachineTypes ==
  ASSUME TypeOK, Worker, NEW m \in Machines,
         \/ Boot(m) \/ Halt(m) \/ PollInput(m) \/ WorkerP(m) \/ NetworkReceive(m) \/ PutMail(m)
         \/ IllegalMail(m) \/ SendCallBack(m) \/ \E b \in Boxes : Receive(m, b)
  PROVE  TypeOK'
<1>1. CASE Boot(m)
  <2>1. boots[m] + 1 \in 0 .. MaxBoots
    BY <1>1, BoundsAssumption DEF Boot, TypeOK
  <2>2. QED
    BY <1>1, <2>1 DEF Boot, AssignNameToSocket, input, output, TypeOK
<1>2. CASE Halt(m) \/ IllegalMail(m)
  <2>1. Stop(m)
    BY <1>2 DEF Halt, IllegalMail
  <2>2. /\ wire' \in [Machines -> Seq(Mail)]
        /\ boxes' \in [Machines -> [Boxes -> Seq(Mail)]]
    BY <2>1 DEF Stop, DeleteInput, DeAssignNameToSocket, TypeOK
  <2>3. QED
    BY <2>1, <2>2 DEF Stop, DeleteInput, DeleteOutput, DeAssignNameToSocket, TypeOK
<1>3. CASE PollInput(m)
  <2>1. Head(wire[m]) \in Mail /\ Tail(wire[m]) \in Seq(Mail)
    BY <1>3, TailOrdered DEF PollInput, PollSocket, TypeOK
  <2>2. QED
    BY <1>3, <2>1 DEF PollInput, ReadFromSocket, InputCallBack, down, output, TypeOK
<1>4. CASE WorkerP(m)
  BY <1>4 DEF WorkerP, down, output, TypeOK
<1>5. CASE NetworkReceive(m)
  BY <1>5 DEF NetworkReceive, down, output, TypeOK
<1>6. CASE PutMail(m)
  <2> DEFINE b == hand[m].box
  <2>1. b \in Boxes /\ hand[m] \in Mail
    BY <1>6 DEF PutMail, Worker
  <2>2. Append(boxes[m][b], hand[m]) \in Seq(Mail)
    BY <2>1, AppendOrdered DEF TypeOK
  <2>3. boxes' = [boxes EXCEPT ![m][b] = Append(boxes[m][b], hand[m])]
    BY <1>6 DEF PutMail
  <2> HIDE DEF b
  <2>4. boxes' \in [Machines -> [Boxes -> Seq(Mail)]]
    BY <2>1, <2>2, <2>3 DEF TypeOK
  <2>5. QED
    BY <1>6, <2>4 DEF PutMail, down, output, TypeOK
<1>7. ASSUME NEW b \in Boxes, Receive(m, b) PROVE TypeOK'
  <2>1. boxes[m][b] \in Seq(Mail) /\ received[m][b] \in Seq(Mail) /\ boxes[m][b] # <<>>
    BY <1>7 DEF Receive, Get, TypeOK
  <2>2. /\ Append(received[m][b], Head(boxes[m][b])) \in Seq(Mail)
        /\ Tail(boxes[m][b]) \in Seq(Mail)
    BY <2>1, AppendOrdered, TailOrdered
  <2>3. /\ boxes' \in [Machines -> [Boxes -> Seq(Mail)]]
        /\ received' \in [Machines -> [Boxes -> Seq(Mail)]]
    BY <1>7, <2>2 DEF Receive, Get, TypeOK
  <2>4. QED
    BY <1>7, <2>3 DEF Receive, down, output, TypeOK
<1>8. CASE SendCallBack(m)
  BY <1>8 DEF SendCallBack, OutputCallBack, down, input, TypeOK
<1>9. QED
  BY <1>1, <1>2, <1>3, <1>4, <1>5, <1>6, <1>7, <1>8

\* The packet that Send makes up.
Packet(t) ==
  [from |-> Host(t), to |-> letter[t].to, box |-> letter[t].box, id |-> sent[Host(t)] + 1]

\* It is a packet, the youngest of its sender.
LEMMA PacketType ==
  ASSUME TypeOK, Letters, NEW t \in Threads, NetworkSend(t)
  PROVE  /\ Packet(t) \in Mail /\ letter[t].to \in Machines
         /\ Packet(t).id = sent[Host(t)] + 1 /\ Packet(t).from = Host(t)
         /\ Packet(t).to = letter[t].to
         /\ sent' = [sent EXCEPT ![Host(t)] = @ + 1]
         /\ \/ wire' = wire
            \/ wire' = [wire EXCEPT ![letter[t].to] = Append(@, Packet(t))]
<1>1. Host(t) \in Machines /\ sent[Host(t)] \in 0 .. MaxMail /\ sent[Host(t)] < MaxMail
  BY HostAssumption DEF TypeOK, NetworkSend
<1>2. sent[Host(t)] + 1 \in 1 .. MaxMail
  BY <1>1, BoundsAssumption
<1>3. letter[t].to \in Machines /\ letter[t].box \in Int
  BY DEF Letters, NetworkSend
<1>4. QED
  BY <1>1, <1>2, <1>3 DEF Packet, Mail, NetworkSend, SendToSocket

\* The steps of a sender keep the types.
LEMMA SenderTypes ==
  ASSUME TypeOK, Letters, NEW t \in Threads, Write(t) \/ Send(t)
  PROVE  TypeOK'
<1>0. Host(t) \in Machines
  BY HostAssumption
<1>1. CASE Write(t)
  BY <1>1 DEF Write, down, input, TypeOK
<1>2. CASE Acquire(t)
  BY <1>0, <1>2 DEF Acquire, down, input, TypeOK
<1>3. CASE NetworkSend(t)
  <2>1. wire' \in [Machines -> Seq(Mail)]
    <3>1. Append(wire[letter[t].to], Packet(t)) \in Seq(Mail)
      BY <1>3, PacketType, AppendOrdered DEF TypeOK
    <3>2. QED
      BY <1>3, <3>1, PacketType DEF TypeOK
  <2>2. sent' \in [Machines -> 0 .. MaxMail]
    <3>1. sent[Host(t)] + 1 \in 0 .. MaxMail
      BY <1>0, <1>3, BoundsAssumption DEF NetworkSend, TypeOK
    <3>2. QED
      BY <1>3, <3>1, PacketType DEF TypeOK
  <2>3. /\ sendInt' = [sendInt EXCEPT ![Host(t)] = @ + 1]
        /\ pc' = [pc EXCEPT ![t] = "wait"]
        /\ UNCHANGED <<down, input, sendLock, messageSent>>
    BY <1>3 DEF NetworkSend
  <2>4. sendInt' \in [Machines -> Nat]
    BY <1>0, <2>3 DEF TypeOK
  <2>5. QED
    BY <2>1, <2>2, <2>3, <2>4 DEF down, input, TypeOK
<1>4. CASE SendP(t)
  <2>1. messageSent[Host(t)] - 1 \in Nat
    BY <1>0, <1>4 DEF SendP, TypeOK
  <2>2. QED
    BY <1>0, <1>4, <2>1 DEF SendP, down, input, TypeOK
<1>5. CASE Release(t)
  BY <1>0, <1>5 DEF Release, down, input, TypeOK
<1>6. QED
  BY <1>1, <1>2, <1>3, <1>4, <1>5 DEF Send

\* A sender that is not idle has a letter.
LEMMA LettersStep ==
  ASSUME TypeOK, Letters, Next
  PROVE  Letters'
<1>1. ASSUME NEW m \in Machines,
             \/ Boot(m) \/ PollInput(m) \/ WorkerP(m) \/ NetworkReceive(m) \/ PutMail(m)
             \/ SendCallBack(m) \/ \E b \in Boxes : Receive(m, b)
      PROVE  Letters'
  BY <1>1 DEF Boot, PollInput, WorkerP, NetworkReceive, PutMail, SendCallBack, Receive, output,
              Letters
<1>2. ASSUME NEW m \in Machines, Halt(m) \/ IllegalMail(m) PROVE Letters'
  <2>1. /\ pc' = [u \in Threads |-> IF Host(u) = m THEN "idle" ELSE pc[u]]
        /\ letter' = [u \in Threads |-> IF Host(u) = m THEN None ELSE letter[u]]
    BY <1>2 DEF Halt, IllegalMail, Stop
  <2>2. QED
    BY <2>1 DEF Letters
<1>3. ASSUME NEW t \in Threads, Acquire(t) \/ NetworkSend(t) \/ SendP(t) PROVE Letters'
  BY <1>3 DEF Acquire, NetworkSend, SendP, Letters, TypeOK
<1>4. ASSUME NEW t \in Threads, Release(t) PROVE Letters'
  BY <1>4 DEF Release, Letters, TypeOK
<1>5. ASSUME NEW t \in Threads, Write(t) PROVE Letters'
  <2>1. PICK to \in Machines, c \in 0 .. NumBoxes :
          letter' = [letter EXCEPT ![t] = [to |-> to, box |-> c]]
    BY <1>5 DEF Write
  <2>2. c \in Int
    BY BoundsAssumption
  <2>3. pc' = [pc EXCEPT ![t] = "acquire"]
    BY <1>5 DEF Write
  <2>4. QED
    BY <2>1, <2>2, <2>3 DEF Letters, TypeOK
<1>6. QED
  BY <1>1, <1>2, <1>3, <1>4, <1>5 DEF Next, PostalDelivery, Send

-----------------------------------------------------------------------------
(* The buffer and the postal worker *)

\* A packet is put into the buffer with one wake-up, and taken out by the one
\* who took the wake-up.
LEMMA WorkerStep ==
  ASSUME TypeOK, Worker, Next
  PROVE  Worker'
<1> DEFINE Once(n) == messageAvailable[n] + (IF worker[n] = "receive" THEN 1 ELSE 0)
                        = (IF inHdr[n] = None THEN 0 ELSE 1)
<1>0. /\ \A n \in Machines : Once(n)
      /\ \A n \in Machines : messageAvailable[n] \in Nat /\ inHdr[n] \in Mail \cup {None}
      /\ None \notin Mail
  BY NoneAssumption DEF TypeOK, Worker, BufferedOnce
<1>1. CASE \/ \E m \in Machines :
                Boot(m) \/ SendCallBack(m) \/ \E b \in Boxes : Receive(m, b)
           \/ \E t \in Threads : Write(t) \/ Send(t)
  <2>1. UNCHANGED <<inHdr, messageAvailable, worker, hand>>
    BY <1>1 DEF Boot, SendCallBack, Receive, Write, Acquire, NetworkSend, SendP, Release, Send,
                input
  <2>2. QED
    BY <2>1 DEF Worker, BufferedOnce
<1>2. ASSUME NEW m \in Machines, Halt(m) \/ IllegalMail(m) PROVE Worker'
  <2>1. /\ inHdr' = [inHdr EXCEPT ![m] = None]
        /\ messageAvailable' = [messageAvailable EXCEPT ![m] = 0]
        /\ worker' = [worker EXCEPT ![m] = "wait"]
        /\ hand' = [hand EXCEPT ![m] = None]
    BY <1>2 DEF Halt, IllegalMail, Stop, DeleteInput
  <2>2. QED
    BY <1>0, <2>1 DEF Worker, BufferedOnce, TypeOK
<1>3. ASSUME NEW m \in Machines, PollInput(m) PROVE Worker'
  <2>1. Head(wire[m]) \in Mail
    BY <1>3, TailOrdered DEF PollInput, PollSocket, TypeOK
  <2>2. /\ inHdr' = [inHdr EXCEPT ![m] = Head(wire[m])] /\ inHdr[m] = None
        /\ messageAvailable' = [messageAvailable EXCEPT ![m] = @ + 1]
        /\ worker' = worker /\ hand' = hand
    BY <1>3 DEF PollInput, ReadFromSocket, InputCallBack
  <2>3. messageAvailable[m] = 0 /\ worker[m] # "receive"
    BY <1>0, <2>2
  <2>4. messageAvailable'[m] = 1 /\ inHdr'[m] # None
    <3>1. DOMAIN messageAvailable = Machines /\ DOMAIN inHdr = Machines
      BY DEF TypeOK
    <3>2. messageAvailable'[m] = 1
      BY <2>2, <2>3, <3>1
    <3>3. inHdr'[m] = Head(wire[m])
      BY <2>2, <3>1
    <3>4. inHdr'[m] # None
      BY <1>0, <2>1, <3>3, Zenon
    <3>5. QED
      BY <3>2, <3>4
  <2>5. \A n \in Machines : n # m => Once(n)'
    BY <1>0, <2>2 DEF TypeOK
  <2>6. QED
    BY <2>2, <2>3, <2>4, <2>5 DEF Worker, BufferedOnce
<1>4. ASSUME NEW m \in Machines, WorkerP(m) PROVE Worker'
  <2>1. /\ messageAvailable' = [messageAvailable EXCEPT ![m] = @ - 1]
        /\ worker' = [worker EXCEPT ![m] = "receive"] /\ worker[m] = "wait"
        /\ UNCHANGED <<inHdr, hand>>
    BY <1>4 DEF WorkerP
  <2>2. messageAvailable'[m] = messageAvailable[m] - 1 /\ worker'[m] = "receive"
    BY <2>1 DEF TypeOK
  <2>3. Once(m)'
    <3>1. Once(m) /\ messageAvailable[m] \in Nat
      BY <1>0
    <3>2. QED
      BY <2>1, <2>2, <3>1
  <2>4. \A n \in Machines : n # m => Once(n)'
    BY <1>0, <2>1 DEF TypeOK
  <2>5. QED
    BY <2>1, <2>3, <2>4 DEF Worker, BufferedOnce, TypeOK
<1>5. ASSUME NEW m \in Machines, NetworkReceive(m) PROVE Worker'
  <2>1. /\ hand' = [hand EXCEPT ![m] = inHdr[m]]
        /\ inHdr' = [inHdr EXCEPT ![m] = None]
        /\ worker' = [worker EXCEPT ![m] = "put"] /\ worker[m] = "receive"
        /\ messageAvailable' = messageAvailable
    BY <1>5 DEF NetworkReceive
  <2>2. inHdr[m] \in Mail /\ messageAvailable[m] = 0
    BY <1>0, <2>1
  <2>3. QED
    BY <1>0, <2>1, <2>2 DEF Worker, BufferedOnce, TypeOK
<1>6. ASSUME NEW m \in Machines, PutMail(m) PROVE Worker'
  <2>1. /\ hand' = [hand EXCEPT ![m] = None]
        /\ worker' = [worker EXCEPT ![m] = "wait"] /\ worker[m] = "put"
        /\ UNCHANGED <<inHdr, messageAvailable>>
    BY <1>6 DEF PutMail
  <2>2. QED
    BY <1>0, <2>1 DEF Worker, BufferedOnce, TypeOK
<1>7. QED
  BY <1>1, <1>2, <1>3, <1>4, <1>5, <1>6 DEF Next, PostalDelivery

-----------------------------------------------------------------------------
(* The way of a packet *)

\* Nothing moves.
LEMMA PlacesSame ==
  ASSUME NEW n \in Machines, NEW c \in Boxes, Places(n, c),
         wire'[n] = wire[n], inHdr'[n] = inHdr[n], hand'[n] = hand[n],
         boxes'[n][c] = boxes[n][c], received'[n][c] = received[n][c],
         sent' = sent
  PROVE  Places(n, c)'
<1>1. /\ Got(n, c)' = Got(n, c) /\ Boxed(n, c)' = Boxed(n, c) /\ Wired(n)' = Wired(n)
      /\ Held(n)' = Held(n) /\ Buffered(n)' = Buffered(n)
  BY DEF Got, Boxed, Wired, Held, Buffered, ToSet
<1>2. Ordered(wire[n])' /\ Ordered(boxes[n][c])' /\ Ordered(received[n][c])'
  BY DEF Places, Ordered
<1>3. QED
  BY <1>1, <1>2 DEF Places, Addressed

\* The machine stops: what Receive has returned stays.
LEMMA PlacesStop ==
  ASSUME TypeOK, NEW m \in Machines, NEW c \in Boxes, Places(m, c), Stop(m)
  PROVE  Places(m, c)'
<1>1. /\ wire'[m] = <<>> /\ boxes'[m][c] = <<>> /\ inHdr'[m] = None /\ hand'[m] = None
      /\ received'[m][c] = received[m][c] /\ sent' = sent
  BY DEF Stop, DeleteInput, DeAssignNameToSocket, TypeOK
<1>2. /\ Got(m, c)' = Got(m, c) /\ Boxed(m, c)' = {} /\ Wired(m)' = {}
      /\ Held(m)' = {} /\ Buffered(m)' = {}
  BY <1>1 DEF Got, Boxed, Wired, Held, Buffered, ToSet
<1>3. Ordered(wire[m])' /\ Ordered(boxes[m][c])' /\ Ordered(received[m][c])'
  BY <1>1 DEF Places, Ordered
<1>4. QED
  BY <1>1, <1>2, <1>3 DEF Places, Addressed, Before

\* From the socket to the buffer.
LEMMA PlacesPoll ==
  ASSUME TypeOK, NEW m \in Machines, NEW c \in Boxes, Places(m, c), PollInput(m)
  PROVE  Places(m, c)'
<1> DEFINE h == Head(wire[m])
<1>1. /\ wire[m] \in Seq(Mail) /\ wire[m] # <<>>
      /\ wire'[m] = Tail(wire[m]) /\ inHdr'[m] = h /\ inHdr[m] = None
      /\ UNCHANGED <<boxes, received, hand, sent>>
  BY DEF PollInput, PollSocket, ReadFromSocket, output, TypeOK
<1>2. /\ h \in Mail /\ h \in Wired(m) /\ Wired(m)' \subseteq Wired(m)
      /\ Ordered(wire[m])' /\ Before({h}, Wired(m)')
  <2>1. Ordered(wire[m])
    BY DEF Places
  <2>2. /\ Head(wire[m]) \in ToSet(wire[m]) /\ ToSet(Tail(wire[m])) \subseteq ToSet(wire[m])
        /\ Ordered(Tail(wire[m])) /\ Before({Head(wire[m])}, ToSet(Tail(wire[m])))
        /\ Head(wire[m]) \in Mail
    BY <1>1, <2>1, TailOrdered
  <2>3. Ordered(wire[m])' <=> Ordered(Tail(wire[m]))
    BY <1>1 DEF Ordered
  <2>4. QED
    BY <1>1, <2>2, <2>3 DEF Wired
<1> HIDE DEF h
<1>3. /\ Got(m, c)' = Got(m, c) /\ Boxed(m, c)' = Boxed(m, c)
      /\ Held(m)' = Held(m) /\ Buffered(m)' = {h}
  <2>1. h # None
    BY <1>2, NoneAssumption, Zenon
  <2>2. QED
    BY <1>1, <2>1 DEF Got, Boxed, Held, Buffered, ToSet
<1>4. Ordered(boxes[m][c])' /\ Ordered(received[m][c])'
  BY <1>1 DEF Places, Ordered
<1>5. QED
  BY <1>1, <1>2, <1>3, <1>4 DEF Places, Addressed, Before

\* From the buffer to the postal worker.
LEMMA PlacesReceive ==
  ASSUME TypeOK, NEW m \in Machines, NEW c \in Boxes, Places(m, c), NetworkReceive(m)
  PROVE  Places(m, c)'
<1>1. /\ hand'[m] = inHdr[m] /\ inHdr'[m] = None
      /\ UNCHANGED <<boxes, received, wire, sent>>
  BY DEF NetworkReceive, output, TypeOK
<1>2. /\ Got(m, c)' = Got(m, c) /\ Boxed(m, c)' = Boxed(m, c) /\ Wired(m)' = Wired(m)
      /\ Held(m)' = Buffered(m) /\ Buffered(m)' = {}
  BY <1>1 DEF Got, Boxed, Wired, Held, Buffered, ToSet
<1>3. Ordered(wire[m])' /\ Ordered(boxes[m][c])' /\ Ordered(received[m][c])'
  BY <1>1 DEF Places, Ordered
<1>4. QED
  BY <1>1, <1>2, <1>3 DEF Places, Addressed, Before

\* From the postal worker to a box: for that box and for the others.
LEMMA PlacesPut ==
  ASSUME TypeOK, Worker, NEW m \in Machines, NEW c \in Boxes, Places(m, c), PutMail(m)
  PROVE  Places(m, c)'
<1> DEFINE x == hand[m]
<1>1. /\ x \in Mail /\ hand'[m] = None /\ UNCHANGED <<inHdr, received, wire, sent>>
      /\ boxes'[m][c] = IF c = x.box THEN Append(boxes[m][c], x) ELSE boxes[m][c]
  <2>1. x \in Mail /\ x.box \in Boxes
    BY DEF PutMail, Worker
  <2>2. boxes' = [boxes EXCEPT ![m][x.box] = Append(boxes[m][x.box], x)]
    BY DEF PutMail
  <2>3. hand'[m] = None /\ UNCHANGED <<inHdr, received, wire, sent>>
    BY DEF PutMail, output, TypeOK
  <2> HIDE DEF x
  <2>4. boxes'[m][c] = IF c = x.box THEN Append(boxes[m][c], x) ELSE boxes[m][c]
    BY <2>1, <2>2 DEF TypeOK
  <2>5. QED
    BY <2>1, <2>3, <2>4
<1>2. Held(m) = {x}
  <2>1. x # None
    BY <1>1, NoneAssumption, Zenon
  <2>2. QED
    BY <2>1 DEF Held
<1> HIDE DEF x
<1>3. /\ Got(m, c)' = Got(m, c) /\ Wired(m)' = Wired(m)
      /\ Held(m)' = {} /\ Buffered(m)' = Buffered(m)
  BY <1>1 DEF Got, Wired, Held, Buffered, ToSet
<1>4. Ordered(wire[m])' /\ Ordered(received[m][c])'
  BY <1>1 DEF Places, Ordered
<1>5. CASE c = x.box
  <2>1. /\ Boxed(m, c)' = Boxed(m, c) \cup {x}
        /\ Ordered(boxes[m][c])'
    <3>1. boxes[m][c] \in Seq(Mail) /\ Ordered(boxes[m][c]) /\ Before(ToSet(boxes[m][c]), {x})
      BY <1>2 DEF TypeOK, Places, Boxed
    <3>2. /\ ToSet(Append(boxes[m][c], x)) = ToSet(boxes[m][c]) \cup {x}
          /\ Ordered(Append(boxes[m][c], x))
      BY <1>1, <3>1, AppendOrdered
    <3>3. Ordered(boxes[m][c])' <=> Ordered(Append(boxes[m][c], x))
      BY <1>1, <1>5 DEF Ordered
    <3>4. QED
      BY <1>1, <1>5, <3>2, <3>3 DEF Boxed
  <2>2. QED
    BY <1>1, <1>2, <1>3, <1>4, <1>5, <2>1 DEF Places, Addressed, Before
<1>6. CASE c # x.box
  <2>1. Boxed(m, c)' = Boxed(m, c) /\ Ordered(boxes[m][c])'
    BY <1>1, <1>6 DEF Boxed, ToSet, Places, Ordered
  <2>2. QED
    BY <1>1, <1>2, <1>3, <1>4, <2>1 DEF Places, Addressed, Before
<1>7. QED
  BY <1>5, <1>6

\* From a box to a reader.
LEMMA PlacesGet ==
  ASSUME TypeOK, NEW m \in Machines, NEW c \in Boxes, Places(m, c), Receive(m, c)
  PROVE  Places(m, c)'
<1> DEFINE h == Head(boxes[m][c])
<1>1. /\ boxes[m][c] \in Seq(Mail) /\ boxes[m][c] # <<>> /\ received[m][c] \in Seq(Mail)
      /\ boxes'[m][c] = Tail(boxes[m][c])
      /\ received'[m][c] = Append(received[m][c], h)
      /\ UNCHANGED <<inHdr, hand, wire, sent>>
  BY DEF Receive, Get, output, TypeOK
<1>2. Ordered(boxes[m][c]) /\ Ordered(received[m][c]) /\ Before(Got(m, c), Boxed(m, c))
  BY DEF Places
<1>3. /\ h \in Mail /\ h \in Boxed(m, c) /\ Boxed(m, c)' \subseteq Boxed(m, c)
      /\ Ordered(boxes[m][c])' /\ Before({h}, Boxed(m, c)')
  <2>1. /\ Head(boxes[m][c]) \in ToSet(boxes[m][c])
        /\ ToSet(Tail(boxes[m][c])) \subseteq ToSet(boxes[m][c])
        /\ Ordered(Tail(boxes[m][c])) /\ Before({Head(boxes[m][c])}, ToSet(Tail(boxes[m][c])))
        /\ Head(boxes[m][c]) \in Mail
    BY <1>1, <1>2, TailOrdered
  <2>2. Ordered(boxes[m][c])' <=> Ordered(Tail(boxes[m][c]))
    BY <1>1 DEF Ordered
  <2>3. QED
    BY <1>1, <2>1, <2>2 DEF Boxed
<1> HIDE DEF h
<1>4. Got(m, c)' = Got(m, c) \cup {h} /\ Ordered(received[m][c])'
  <2>1. Before(ToSet(received[m][c]), {h})
    BY <1>2, <1>3 DEF Before, Got
  <2>2. /\ ToSet(Append(received[m][c], h)) = ToSet(received[m][c]) \cup {h}
        /\ Ordered(Append(received[m][c], h))
    BY <1>1, <1>2, <1>3, <2>1, AppendOrdered
  <2>3. Ordered(received[m][c])' <=> Ordered(Append(received[m][c], h))
    BY <1>1 DEF Ordered
  <2>4. QED
    BY <1>1, <2>2, <2>3 DEF Got
<1>5. Wired(m)' = Wired(m) /\ Held(m)' = Held(m) /\ Buffered(m)' = Buffered(m)
  BY <1>1 DEF Wired, Held, Buffered, ToSet
<1>6. Ordered(wire[m])'
  BY <1>1 DEF Places, Ordered
<1>7. QED
  BY <1>1, <1>3, <1>4, <1>5, <1>6 DEF Places, Addressed, Before

\* To the socket of the receiver, or of nobody.
LEMMA PlacesSend ==
  ASSUME TypeOK, Letters, NEW t \in Threads, NetworkSend(t),
         NEW n \in Machines, NEW c \in Boxes, Places(n, c)
  PROVE  Places(n, c)'
<1> DEFINE x == Packet(t)
           m == Host(t)
<1>1. /\ x \in Mail /\ x.id = sent[m] + 1 /\ x.from = m /\ x.to = letter[t].to
      /\ sent' = [sent EXCEPT ![m] = @ + 1] /\ letter[t].to \in Machines
      /\ \/ wire' = wire
         \/ wire' = [wire EXCEPT ![letter[t].to] = Append(@, x)]
      /\ UNCHANGED <<inHdr, hand, boxes, received>> /\ m \in Machines
  BY PacketType, HostAssumption DEF NetworkSend, input
<1>2. \A y \in Mail : y.from \in Machines /\ y.id \in Nat
  BY BoundsAssumption DEF Mail
<1> HIDE DEF x, m
<1>3. \A i \in Machines : sent[i] \in Nat /\ sent'[i] \in Nat /\ sent[i] <= sent'[i]
  <2>1. DOMAIN sent = Machines /\ \A i \in Machines : sent[i] \in Nat
    BY BoundsAssumption DEF TypeOK
  <2>2. QED
    BY <1>1, <2>1
<1>4. /\ Got(n, c) \subseteq Mail /\ Boxed(n, c) \subseteq Mail /\ Wired(n) \subseteq Mail
      /\ Held(n) \subseteq Mail /\ Buffered(n) \subseteq Mail
  BY DEF TypeOK, Got, Boxed, Wired, Held, Buffered, ToSet
<1>5. ASSUME NEW A \in SUBSET Mail, Addressed(n, A)
      PROVE  /\ \A y \in A : y.to = n /\ y.id <= sent'[y.from]
             /\ Before(A, {x})
  <2>1. ASSUME NEW y \in A PROVE y.to = n /\ y.id <= sent'[y.from]
    <3>1. /\ y.from \in Machines /\ y.id \in Nat /\ y.to = n /\ y.id <= sent[y.from]
      BY <1>2, <1>5 DEF Addressed
    <3>2. QED
      BY <1>3, <3>1
  <2>2. ASSUME NEW y \in A, y.from = x.from PROVE y.id < x.id
    <3>1. /\ y.id \in Nat /\ y.id <= sent[m] /\ sent[m] \in Nat
      BY <1>1, <1>2, <1>3, <1>5, <2>2 DEF Addressed
    <3>2. QED
      BY <1>1, <3>1
  <2>3. QED
    BY <2>1, <2>2 DEF Before
<1>6. /\ Got(n, c)' = Got(n, c) /\ Boxed(n, c)' = Boxed(n, c)
      /\ Held(n)' = Held(n) /\ Buffered(n)' = Buffered(n)
  BY <1>1 DEF Got, Boxed, Held, Buffered, ToSet
<1>7. Ordered(boxes[n][c])' /\ Ordered(received[n][c])'
  BY <1>1 DEF Places, Ordered
<1>8. /\ Addressed(n, Got(n, c))' /\ Addressed(n, Boxed(n, c))'
      /\ Addressed(n, Held(n))' /\ Addressed(n, Buffered(n))'
  <2>1. /\ \A y \in Got(n, c) : y.to = n /\ y.id <= sent'[y.from]
        /\ \A y \in Boxed(n, c) : y.to = n /\ y.id <= sent'[y.from]
        /\ \A y \in Held(n) : y.to = n /\ y.id <= sent'[y.from]
        /\ \A y \in Buffered(n) : y.to = n /\ y.id <= sent'[y.from]
    BY <1>4, <1>5 DEF Places
  <2>2. QED
    BY <1>6, <2>1 DEF Addressed
<1>9. CASE wire'[n] = wire[n]
  <2>1. Wired(n)' = Wired(n) /\ Ordered(wire[n])'
    BY <1>9 DEF Wired, ToSet, Places, Ordered
  <2>2. Addressed(n, Wired(n))'
    <3>1. \A y \in Wired(n) : y.to = n /\ y.id <= sent'[y.from]
      BY <1>4, <1>5 DEF Places
    <3>2. QED
      BY <2>1, <3>1 DEF Addressed
  <2>3. QED
    BY <1>6, <1>7, <1>8, <2>1, <2>2 DEF Places
<1>10. CASE n = letter[t].to /\ wire'[n] = Append(wire[n], x)
  <2>1. wire[n] \in Seq(Mail) /\ Ordered(wire[n]) /\ Before(ToSet(wire[n]), {x})
    BY <1>4, <1>5 DEF TypeOK, Places, Wired
  <2>2. /\ ToSet(Append(wire[n], x)) = ToSet(wire[n]) \cup {x}
        /\ Ordered(Append(wire[n], x))
    BY <1>1, <2>1, AppendOrdered
  <2>3. Ordered(wire[n])' <=> Ordered(Append(wire[n], x))
    BY <1>10 DEF Ordered
  <2>4. Wired(n)' = Wired(n) \cup {x} /\ Ordered(wire[n])'
    BY <1>10, <2>2, <2>3 DEF Wired
  <2>5. Addressed(n, Wired(n))'
    <3>1. \A y \in Wired(n) : y.to = n /\ y.id <= sent'[y.from]
      BY <1>4, <1>5 DEF Places
    <3>2. x.to = n /\ x.id <= sent'[x.from]
      BY <1>1, <1>3, <1>10 DEF TypeOK
    <3>3. QED
      BY <2>4, <3>1, <3>2 DEF Addressed
  <2>6. /\ Before(Got(n, c), {x}) /\ Before(Boxed(n, c), {x})
        /\ Before(Held(n), {x}) /\ Before(Buffered(n), {x})
    BY <1>4, <1>5 DEF Places
  <2>7. /\ Before(Got(n, c), Wired(n)') /\ Before(Boxed(n, c), Wired(n)')
        /\ Before(Held(n), Wired(n)') /\ Before(Buffered(n), Wired(n)')
    BY <2>4, <2>6 DEF Before, Places
  <2>8. QED
    BY <1>6, <1>7, <1>8, <2>4, <2>5, <2>7 DEF Places
<1>11. QED
  BY <1>1, <1>9, <1>10 DEF TypeOK

-----------------------------------------------------------------------------
(* Theorems *)

\* The invariant is inductive.
LEMMA NextIInv == IInv /\ [Next]_vars => IInv'
<1> SUFFICES ASSUME IInv, [Next]_vars PROVE IInv'
  OBVIOUS
<1>0. TypeOK /\ Letters /\ Worker /\ \A m \in Machines, b \in Boxes : Places(m, b)
  BY DEF IInv
<1>1. CASE UNCHANGED vars
  <2>1. TypeOK' /\ Letters' /\ Worker'
    BY <1>0, <1>1 DEF vars, down, input, output, TypeOK, Letters, Worker, BufferedOnce
  <2>2. ASSUME NEW n \in Machines, NEW c \in Boxes PROVE Places(n, c)'
    BY <1>0, <1>1, PlacesSame DEF vars, input, output
  <2>3. QED
    BY <2>1, <2>2 DEF IInv
<1>2. CASE Next
  <2>1. TypeOK'
    BY <1>0, <1>2, MachineTypes, SenderTypes DEF Next, PostalDelivery
  <2>2. Letters' /\ Worker'
    BY <1>0, <1>2, LettersStep, WorkerStep
  <2>3. ASSUME NEW n \in Machines, NEW c \in Boxes PROVE Places(n, c)'
    <3>0. TypeOK /\ Letters /\ Worker /\ Places(n, c)
      BY <1>0
    <3>1. CASE \/ \E m \in Machines : Boot(m) \/ WorkerP(m) \/ SendCallBack(m)
               \/ \E t \in Threads : Write(t) \/ Acquire(t) \/ SendP(t) \/ Release(t)
      <4>1. UNCHANGED <<inHdr, hand, boxes, received, wire, sent>>
        BY <3>1 DEF Boot, AssignNameToSocket, WorkerP, SendCallBack, Write, Acquire, SendP,
                    Release, input, output
      <4>2. QED
        BY <3>0, <4>1, PlacesSame
    <3>2. ASSUME NEW m \in Machines, m # n, PollInput(m) \/ NetworkReceive(m) \/ PutMail(m)
          PROVE  Places(n, c)'
      <4>1. /\ wire'[n] = wire[n] /\ inHdr'[n] = inHdr[n] /\ hand'[n] = hand[n]
            /\ boxes'[n][c] = boxes[n][c] /\ received'[n][c] = received[n][c]
            /\ sent' = sent
        BY <3>0, <3>2 DEF PollInput, ReadFromSocket, NetworkReceive, PutMail, output, TypeOK
      <4>2. QED
        BY <3>0, <4>1, PlacesSame
    <3>3. ASSUME NEW m \in Machines, Stop(m) PROVE Places(n, c)'
      <4>1. CASE m = n
        BY <3>0, <3>3, <4>1, PlacesStop
      <4>2. CASE m # n
        <5>1. /\ wire'[n] = wire[n] /\ inHdr'[n] = inHdr[n] /\ hand'[n] = hand[n]
              /\ boxes'[n][c] = boxes[n][c] /\ received' = received /\ sent' = sent
          BY <3>0, <3>3, <4>2 DEF Stop, DeleteInput, DeAssignNameToSocket, TypeOK
        <5>2. QED
          BY <3>0, <5>1, PlacesSame
      <4>3. QED
        BY <4>1, <4>2
    <3>4. ASSUME NEW m \in Machines, NEW b \in Boxes, Receive(m, b) PROVE Places(n, c)'
      <4>1. CASE m = n /\ b = c
        BY <3>0, <3>4, <4>1, PlacesGet
      <4>2. CASE m # n \/ b # c
        <5>1. /\ boxes'[n][c] = boxes[n][c] /\ received'[n][c] = received[n][c]
              /\ UNCHANGED <<inHdr, hand, wire, sent>>
          BY <3>0, <3>4, <4>2 DEF Receive, Get, output, TypeOK
        <5>2. QED
          BY <3>0, <5>1, PlacesSame
      <4>3. QED
        BY <4>1, <4>2
    <3>5. CASE PollInput(n)
      BY <3>0, <3>5, PlacesPoll
    <3>6. CASE NetworkReceive(n)
      BY <3>0, <3>6, PlacesReceive
    <3>7. CASE PutMail(n)
      BY <3>0, <3>7, PlacesPut
    <3>8. CASE \E t \in Threads : NetworkSend(t)
      BY <3>0, <3>8, PlacesSend
    <3>9. QED
      BY <1>2, <3>1, <3>2, <3>3, <3>4, <3>5, <3>6, <3>7, <3>8
         DEF Next, PostalDelivery, Send, Halt, IllegalMail
  <2>4. QED
    BY <2>1, <2>2, <2>3 DEF IInv
<1>3. QED
  BY <1>1, <1>2

\* The invariant holds in every reachable state.
LEMMA AlwaysIInv == Spec => []IInv
  BY InitIInv, NextIInv, PTL DEF Spec

\* The types, for any number of machines and senders.
THEOREM MailTypeTheorem == Spec => []TypeOK
<1>1. IInv => TypeOK
  BY DEF IInv
<1>2. QED
  BY <1>1, AlwaysIInv, PTL

\* A packet is in the buffer exactly while one wake-up for it is on its way to
\* the postal worker: NetworkInput::Receive never returns an empty header, and
\* the interrupt handler never overwrites a packet.
THEOREM BufferedOnceTheorem == Spec => []BufferedOnce
<1>1. IInv => BufferedOnce
  BY DEF IInv, Worker
<1>2. QED
  BY <1>1, AlwaysIInv, PTL

\* Mail of a sender arrives in its order, once, at the right machine and in the
\* right box, whatever is lost and however often machines stop and start.
THEOREM InOrderOnceTheorem == Spec => []InOrderOnce
<1>1. ASSUME IInv PROVE InOrderOnce
  <2>1. SUFFICES ASSUME NEW m \in Machines, NEW b \in Boxes
                 PROVE  LET s == Stream(m, b)
                        IN  /\ \A i \in DOMAIN s : s[i].to = m /\ s[i].id <= sent[s[i].from]
                            /\ \A i, j \in DOMAIN s :
                                 i < j /\ s[i].from = s[j].from => s[i].id < s[j].id
                            /\ \A i \in DOMAIN InBox(m, b) : InBox(m, b)[i].box = b
    BY DEF InOrderOnce
  <2> DEFINE r == received[m][b]
             x == boxes[m][b]
             h == Opt(hand[m])
             i == Opt(inHdr[m])
             w == wire[m]
  <2>2. /\ r \in Seq(Mail) /\ x \in Seq(Mail) /\ w \in Seq(Mail)
        /\ hand[m] \in Mail \cup {None} /\ inHdr[m] \in Mail \cup {None} /\ Places(m, b)
    BY <1>1 DEF IInv, TypeOK
  <2>3. /\ h \in Seq(Mail) /\ ToSet(h) = Held(m) /\ Ordered(h)
        /\ i \in Seq(Mail) /\ ToSet(i) = Buffered(m) /\ Ordered(i)
    BY <2>2, OptOrdered DEF Held, Buffered
  <2>4. ToSet(r) = Got(m, b) /\ ToSet(x) = Boxed(m, b) /\ ToSet(w) = Wired(m)
    BY DEF Got, Boxed, Wired
  <2>5. Ordered(r) /\ Ordered(x) /\ Ordered(w)
    BY <2>2 DEF Places
  <2> HIDE DEF r, x, h, i, w
  <2>6. r \o x \in Seq(Mail) /\ ToSet(r \o x) = Got(m, b) \cup Boxed(m, b) /\ Ordered(r \o x)
    BY <2>2, <2>4, <2>5, ConcatOrdered DEF Places
  <2> DEFINE c == r \o x
             d == c \o h
             e == d \o i
             s == e \o w
  <2> HIDE DEF c
  <2>7. d \in Seq(Mail) /\ ToSet(d) = ToSet(c) \cup Held(m) /\ Ordered(d)
    <3>1. Before(ToSet(c), ToSet(h))
      BY <2>2, <2>3, <2>6 DEF Places, Before, c
    <3>2. QED
      BY <2>3, <2>6, <3>1, ConcatOrdered DEF c
  <2> HIDE DEF d
  <2>8. e \in Seq(Mail) /\ ToSet(e) = ToSet(d) \cup Buffered(m) /\ Ordered(e)
    <3>1. Before(ToSet(d), ToSet(i))
      BY <2>2, <2>3, <2>6, <2>7 DEF Places, Before, c
    <3>2. QED
      BY <2>3, <2>7, <3>1, ConcatOrdered
  <2> HIDE DEF e
  <2>9. s \in Seq(Mail) /\ ToSet(s) = ToSet(e) \cup Wired(m) /\ Ordered(s)
    <3>1. Before(ToSet(e), ToSet(w))
      BY <2>2, <2>4, <2>6, <2>7, <2>8 DEF Places, Before, c
    <3>2. e \in Seq(Mail) /\ Ordered(e) /\ w \in Seq(Mail) /\ Ordered(w)
      BY <2>2, <2>5, <2>8
    <3>3. s \in Seq(Mail) /\ ToSet(s) = ToSet(e) \cup ToSet(w) /\ Ordered(s)
      BY <3>1, <3>2, ConcatOrdered
    <3>4. QED
      BY <2>4, <3>3
  <2> HIDE DEF s
  <2>10. Addressed(m, ToSet(s))
    BY <2>2, <2>6, <2>7, <2>8, <2>9 DEF Places, Addressed, c
  <2>11. \A k \in DOMAIN s : s[k] \in ToSet(s)
    BY DEF ToSet
  <2>12. DOMAIN s = 1 .. Len(s)
    BY <2>9
  <2>13. Stream(m, b) = s /\ InBox(m, b) = c
    BY DEF Stream, InBox, s, e, d, c, r, x, h, i, w
  <2>14. \A k \in DOMAIN c : c[k].box = b
    <3>1. \A k \in DOMAIN c : c[k] \in ToSet(c)
      BY DEF ToSet
    <3>2. QED
      BY <2>2, <2>6, <3>1 DEF Places, c
  <2>15. QED
    BY <2>10, <2>11, <2>12, <2>9, <2>13, <2>14 DEF Addressed, Ordered
<1>2. QED
  BY <1>1, AlwaysIInv, PTL
=============================================================================
