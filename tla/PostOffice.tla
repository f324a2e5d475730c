----------------------------- MODULE PostOffice ------------------------------
(***************************************************************************)
(* Mail between machines: PostOfficeInput and PostOfficeOutput             *)
(* (network/post.cc) on top of NetworkInput and NetworkOutput              *)
(* (machine/network.cc), which use a host datagram socket per machine      *)
(* (lib/sysdep.cc).  Packets may be lost, the socket of a machine that is  *)
(* not running does not exist, and a machine may halt, die in an ASSERT    *)
(* and be started again.                                                   *)
(*                                                                         *)
(* Locks, semaphores and the synchronised lists of the mailboxes are       *)
(* abstract (modules Synch and SynchList).  A polling interrupt is always  *)
(* pending while a machine is up, so a poll may come at any time.          *)
(***************************************************************************)
EXTENDS Integers, Sequences, SequencesExt

CONSTANTS Machines,
          Threads,      \* threads that send mail
          Host(_),      \* the machine of a thread
          None,         \* no packet, no thread
          NumBoxes,     \* mailboxes of a machine
          MaxMail,      \* bound: packets a machine sends
          MaxBoots      \* bound: times a machine is started

ASSUME HostAssumption == \A t \in Threads : Host(t) \in Machines
ASSUME BoundsAssumption == {NumBoxes, MaxMail, MaxBoots} \subseteq Nat

Boxes == 0 .. NumBoxes - 1
\* Sender, receiver, mailbox, and history: how manieth packet of the sender.
Mail == [from : Machines, to : Machines, box : Int, id : 1 .. MaxMail]

ASSUME NoneAssumption == None \notin Threads \cup Mail

VARIABLES
  boots, up,         \* how often each machine was started; whether it runs
  wire,              \* packets in the socket of each machine
  inHdr,             \* NetworkInput: the packet that is buffered
  messageAvailable,  \* its semaphore
  worker, hand,      \* the postal worker, and the packet it has received
  boxes,             \* the mail of each box
  received,          \* history: the mail Receive has returned
  sendLock, sendInt, messageSent,  \* lock, pending interrupts, semaphore
  sent,              \* history: packets given to the network
  pc, letter         \* senders

down == <<boots, up>>
input == <<inHdr, messageAvailable, worker, hand, boxes, received>>
output == <<sendLock, sendInt, messageSent, sent, pc, letter>>
vars == <<down, wire, input, output>>

\* PostOfficeInput::PostOfficeInput, and the mailboxes' constructors.
InitInput ==
  /\ inHdr = [m \in Machines |-> None]
  /\ messageAvailable = [m \in Machines |-> 0]
  /\ worker = [m \in Machines |-> "wait"]
  /\ hand = [m \in Machines |-> None]
  /\ boxes = [m \in Machines |-> [b \in Boxes |-> <<>>]]
  /\ received = [m \in Machines |-> [b \in Boxes |-> <<>>]]

\* PostOfficeOutput::PostOfficeOutput.
InitOutput ==
  /\ sendLock = [m \in Machines |-> None]
  /\ sendInt = [m \in Machines |-> 0]
  /\ messageSent = [m \in Machines |-> 0]
  /\ sent = [m \in Machines |-> 0]
  /\ pc = [t \in Threads |-> "idle"]
  /\ letter = [t \in Threads |-> None]

Init ==
  /\ boots = [m \in Machines |-> 0]
  /\ up = [m \in Machines |-> FALSE]
  /\ wire = [m \in Machines |-> <<>>]
  /\ InitInput /\ InitOutput

-----------------------------------------------------------------------------
(* Machines *)

\* AssignNameToSocket: from now on the machine can be sent to, at an empty
\* socket; a name that a dead machine left is removed first.
AssignNameToSocket(m) == up' = [up EXCEPT ![m] = TRUE] /\ UNCHANGED wire

\* The constructors: an empty post office on a new socket.
Boot(m) ==
  /\ ~up[m] /\ boots[m] < MaxBoots
  /\ AssignNameToSocket(m)
  /\ boots' = [boots EXCEPT ![m] = @ + 1]
  /\ UNCHANGED <<input, output>>

\* DeAssignNameToSocket, or the death of the process: nothing more gets there,
\* and what the socket held is gone.
DeAssignNameToSocket(m) ==
  /\ up' = [up EXCEPT ![m] = FALSE]
  /\ wire' = [wire EXCEPT ![m] = <<>>]

\* NetworkInput::~NetworkInput, and the receiving side of the post office.
DeleteInput(m) ==
  /\ DeAssignNameToSocket(m)
  /\ inHdr' = [inHdr EXCEPT ![m] = None]
  /\ messageAvailable' = [messageAvailable EXCEPT ![m] = 0]
  /\ boxes' = [boxes EXCEPT ![m] = [b \in Boxes |-> <<>>]]

\* PostOfficeOutput::~PostOfficeOutput.
DeleteOutput(m) ==
  /\ sendLock' = [sendLock EXCEPT ![m] = None]
  /\ sendInt' = [sendInt EXCEPT ![m] = 0]
  /\ messageSent' = [messageSent EXCEPT ![m] = 0]

\* Kernel::~Kernel, which exits, or an ASSERT: everything in memory is gone,
\* the threads with it.
Stop(m) ==
  /\ DeleteInput(m) /\ DeleteOutput(m)
  /\ worker' = [worker EXCEPT ![m] = "wait"]
  /\ hand' = [hand EXCEPT ![m] = None]
  /\ pc' = [t \in Threads |-> IF Host(t) = m THEN "idle" ELSE pc[t]]
  /\ letter' = [t \in Threads |-> IF Host(t) = m THEN None ELSE letter[t]]
  /\ UNCHANGED <<boots, received, sent>>

Halt(m) == up[m] /\ Stop(m)

-----------------------------------------------------------------------------
(* Receiving *)

PollSocket(m) == wire[m] # <<>>

\* ReadFromSocket, into the buffer.
ReadFromSocket(m) ==
  /\ inHdr' = [inHdr EXCEPT ![m] = Head(wire[m])]
  /\ wire' = [wire EXCEPT ![m] = Tail(@)]

\* PostOfficeInput::CallBack.
InputCallBack(m) == messageAvailable' = [messageAvailable EXCEPT ![m] = @ + 1]

\* Mutant of PollInput: the callback does not see that a packet is buffered.
PollOver(m) ==
  /\ up[m] /\ PollSocket(m)
  /\ ReadFromSocket(m)
  /\ InputCallBack(m)
  /\ UNCHANGED <<down, worker, hand, boxes, received, output>>

\* NetworkInput::CallBack when it finds room and a packet.
PollInput(m) ==
  /\ up[m] /\ inHdr[m] = None /\ PollSocket(m)
  /\ ReadFromSocket(m)
  /\ InputCallBack(m)
  /\ UNCHANGED <<down, worker, hand, boxes, received, output>>

\* PostalDelivery: messageAvailable->P.
WorkerP(m) ==
  /\ up[m] /\ worker[m] = "wait" /\ messageAvailable[m] > 0
  /\ messageAvailable' = [messageAvailable EXCEPT ![m] = @ - 1]
  /\ worker' = [worker EXCEPT ![m] = "receive"]
  /\ UNCHANGED <<down, wire, inHdr, hand, boxes, received, output>>

\* NetworkInput::Receive frees the buffer; a header without a packet would be
\* taken for mail.
NetworkReceive(m) ==
  /\ up[m] /\ worker[m] = "receive"
  /\ hand' = [hand EXCEPT ![m] = inHdr[m]]
  /\ inHdr' = [inHdr EXCEPT ![m] = None]
  /\ worker' = [worker EXCEPT ![m] = "put"]
  /\ UNCHANGED <<down, wire, messageAvailable, boxes, received, output>>

\* Mutant of PutMail: the mail goes in front of what is there.
PutFront(m) ==
  /\ up[m] /\ worker[m] = "put" /\ hand[m].box \in Boxes
  /\ boxes' = [boxes EXCEPT ![m][hand[m].box] = <<hand[m]>> \o @]
  /\ hand' = [hand EXCEPT ![m] = None]
  /\ worker' = [worker EXCEPT ![m] = "wait"]
  /\ UNCHANGED <<down, wire, inHdr, messageAvailable, received, output>>

\* MailBox::Put.
PutMail(m) ==
  /\ up[m] /\ worker[m] = "put" /\ hand[m].box \in Boxes
  /\ boxes' = [boxes EXCEPT ![m][hand[m].box] = Append(@, hand[m])]
  /\ hand' = [hand EXCEPT ![m] = None]
  /\ worker' = [worker EXCEPT ![m] = "wait"]
  /\ UNCHANGED <<down, wire, inHdr, messageAvailable, received, output>>

\* "check that arriving message is legal!": the machine stops in the ASSERT.
IllegalMail(m) ==
  /\ up[m] /\ worker[m] = "put" /\ hand[m].box \notin Boxes
  /\ Stop(m)

\* MailBox::Get.
Get(m, b) ==
  /\ boxes[m][b] # <<>>
  /\ received' = [received EXCEPT ![m][b] = Append(@, Head(boxes[m][b]))]
  /\ boxes' = [boxes EXCEPT ![m][b] = Tail(@)]

\* PostOfficeInput::Receive by some thread.
Receive(m, b) ==
  /\ up[m]
  /\ Get(m, b)
  /\ UNCHANGED <<down, wire, inHdr, messageAvailable, worker, hand, output>>

-----------------------------------------------------------------------------
(* Sending: PostOfficeOutput::Send *)

\* Send only checks that the number of the box is not negative.
Write(t) ==
  /\ up[Host(t)] /\ pc[t] = "idle"
  /\ \E to \in Machines, b \in 0 .. NumBoxes :
       letter' = [letter EXCEPT ![t] = [to |-> to, box |-> b]]
  /\ pc' = [pc EXCEPT ![t] = "acquire"]
  /\ UNCHANGED <<down, wire, input, sendLock, sendInt, messageSent, sent>>

Acquire(t) ==
  /\ up[Host(t)] /\ pc[t] = "acquire" /\ sendLock[Host(t)] = None
  /\ sendLock' = [sendLock EXCEPT ![Host(t)] = t]
  /\ pc' = [pc EXCEPT ![t] = "send"]
  /\ UNCHANGED <<down, wire, input, sendInt, messageSent, sent, letter>>

\* SendToSocket: a machine that is not there gets nothing, however often the
\* host is asked.
SendToSocket(to, packet) ==
  wire' = IF up[to] THEN [wire EXCEPT ![to] = Append(@, packet)] ELSE wire

\* NetworkOutput::Send: the packet goes to the socket, or chance has it lost.
NetworkSend(t) ==
  LET m == Host(t)
      to == letter[t].to
      packet == [from |-> m, to |-> to, box |-> letter[t].box, id |-> sent[m] + 1]
  IN  /\ up[m] /\ pc[t] = "send" /\ sent[m] < MaxMail
      /\ sendInt' = [sendInt EXCEPT ![m] = @ + 1]
      /\ sent' = [sent EXCEPT ![m] = @ + 1]
      /\ pc' = [pc EXCEPT ![t] = "wait"]
      /\ SendToSocket(to, packet) \/ UNCHANGED wire
      /\ UNCHANGED <<down, input, sendLock, messageSent, letter>>

\* Mutant of SendCallBack: the post office is not told.
SendCallBackSilent(m) ==
  /\ up[m] /\ sendInt[m] > 0
  /\ sendInt' = [sendInt EXCEPT ![m] = @ - 1]
  /\ UNCHANGED <<down, wire, input, sendLock, sent, pc, letter, messageSent>>

\* PostOfficeOutput::CallBack.
OutputCallBack(m) == messageSent' = [messageSent EXCEPT ![m] = @ + 1]

\* NetworkOutput::CallBack.
SendCallBack(m) ==
  /\ up[m] /\ sendInt[m] > 0
  /\ sendInt' = [sendInt EXCEPT ![m] = @ - 1]
  /\ OutputCallBack(m)
  /\ UNCHANGED <<down, wire, input, sendLock, sent, pc, letter>>

SendP(t) ==
  /\ up[Host(t)] /\ pc[t] = "wait" /\ messageSent[Host(t)] > 0
  /\ messageSent' = [messageSent EXCEPT ![Host(t)] = @ - 1]
  /\ pc' = [pc EXCEPT ![t] = "release"]
  /\ UNCHANGED <<down, wire, input, sendLock, sendInt, sent, letter>>

Release(t) ==
  /\ up[Host(t)] /\ pc[t] = "release"
  /\ sendLock' = [sendLock EXCEPT ![Host(t)] = None]
  /\ pc' = [pc EXCEPT ![t] = "idle"]
  /\ letter' = [letter EXCEPT ![t] = None]
  /\ UNCHANGED <<down, wire, input, sendInt, messageSent, sent>>

-----------------------------------------------------------------------------

PostalDelivery(m) == WorkerP(m) \/ NetworkReceive(m) \/ PutMail(m) \/ IllegalMail(m)
Send(t) == Acquire(t) \/ NetworkSend(t) \/ SendP(t) \/ Release(t)

Next ==
  \/ \E m \in Machines : \/ Boot(m) \/ Halt(m) \/ PollInput(m) \/ PostalDelivery(m)
                         \/ SendCallBack(m) \/ \E b \in Boxes : Receive(m, b)
  \/ \E t \in Threads : Write(t) \/ Send(t)

\* Interrupts fire and a thread that can go on does; nobody has to send, to
\* receive, or to start a machine.
Fairness ==
  /\ \A m \in Machines : /\ WF_vars(PollInput(m))
                         /\ WF_vars(PostalDelivery(m))
                         /\ WF_vars(SendCallBack(m))
  /\ \A t \in Threads : WF_vars(Send(t))

Spec == Init /\ [][Next]_vars /\ Fairness

-----------------------------------------------------------------------------
(* Properties. *)

TypeOK ==
  /\ boots \in [Machines -> 0 .. MaxBoots] /\ up \in [Machines -> BOOLEAN]
  /\ wire \in [Machines -> Seq(Mail)]
  /\ inHdr \in [Machines -> Mail \cup {None}]
  /\ messageAvailable \in [Machines -> Nat]
  /\ worker \in [Machines -> {"wait", "receive", "put"}]
  /\ hand \in [Machines -> Mail \cup {None}]
  /\ boxes \in [Machines -> [Boxes -> Seq(Mail)]]
  /\ received \in [Machines -> [Boxes -> Seq(Mail)]]
  /\ sendLock \in [Machines -> Threads \cup {None}]
  /\ sendInt \in [Machines -> Nat] /\ messageSent \in [Machines -> Nat]
  /\ sent \in [Machines -> 0 .. MaxMail]
  /\ pc \in [Threads -> {"idle", "acquire", "send", "wait", "release"}]

Opt(x) == IF x = None THEN <<>> ELSE <<x>>

\* All mail a box has seen, from the first taken to the last in the socket; of
\* what is still on its way some may be for another box.
InBox(m, b) == received[m][b] \o boxes[m][b]
Stream(m, b) == InBox(m, b) \o Opt(hand[m]) \o Opt(inHdr[m]) \o wire[m]

\* Mail may be lost, but what arrives comes in the order it was sent, once, at
\* the machine and in the box it was sent to, also across restarts of either
\* machine; only what was sent arrives.
InOrderOnce ==
  \A m \in Machines, b \in Boxes :
    LET s == Stream(m, b)
    IN  /\ \A i \in DOMAIN s : s[i].to = m /\ s[i].id <= sent[s[i].from]
        /\ \A i, j \in DOMAIN s : i < j /\ s[i].from = s[j].from => s[i].id < s[j].id
        /\ \A i \in DOMAIN InBox(m, b) : InBox(m, b)[i].box = b

\* The buffer has a packet exactly when the postal worker has been or is about
\* to be told of it: Receive never returns an empty header, and a packet never
\* stays in the buffer without a wake-up.
BufferedOnce ==
  \A m \in Machines :
    messageAvailable[m] + (IF worker[m] = "receive" THEN 1 ELSE 0)
      = (IF inHdr[m] = None THEN 0 ELSE 1)

InBoxes(m, from, id) ==
  \E b \in Boxes : \E p \in ToSet(boxes[m][b] \o received[m][b]) :
    p.from = from /\ p.id = id

\* A mail that has reached the socket of a machine gets into its mailbox, unless
\* the machine stops; and Send returns, whether the packet was lost or not.
Delivered ==
  /\ \A m \in Machines, from \in {Host(t) : t \in Threads}, id \in 1 .. MaxMail :
       (\E p \in ToSet(wire[m]) : p.from = from /\ p.id = id)
         ~> (InBoxes(m, from, id) \/ ~up[m])
  /\ \A t \in Threads : (pc[t] = "wait") ~> (pc[t] # "wait")
=============================================================================
