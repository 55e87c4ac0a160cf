----------------------------- MODULE EventLoop -----------------------------
(***************************************************************************)
(* The program nettool (nettool/src/main_nettool.c): main() opens a socket *)
(* bound to the link and address multicast groups, and "nettool evloop"    *)
(* then waits in select(), reads one datagram with read_event() and prints *)
(* what it says.  The kernel notifies of every change; it drops what does  *)
(* not fit the socket's receive buffer, marks the socket congested until   *)
(* the buffer is empty, and lets one recvmsg() fail with ENOBUFS.          *)
(***************************************************************************)
EXTENDS Naturals, Sequences, Functions

CONSTANTS
    Devices,     \* the network devices
    Flags,       \* bits of ifi_flags that are told apart
    Commands,    \* what argv[1] may be: "none", "evloop" or "other"
    Room,        \* datagrams the receive buffer has room for
    PerDatagram, \* messages the kernel may put in one datagram
    MaxChanges   \* bound: changes of devices in one run

ASSUME LoopAssumption ==
    /\ Commands \subseteq {"none", "evloop", "other"}
    /\ Room \in Nat \ {0}
    /\ PerDatagram \in Nat \ {0}
    /\ MaxChanges \in Nat

VARIABLES
    present,    \* kernel: the devices there are
    flags,      \* kernel: the flags of every device
    changes,    \* kernel: changes so far
    queue,      \* the socket's receive queue, datagrams of messages
    congested,  \* the socket drops notifications until its queue is empty
    soerr,      \* the next recvmsg() fails with ENOBUFS
    pc,         \* where the program is
    buf,        \* messages of vBuf that are still to be handled
    vIfi_flags, \* the static variable of RTM_NEWLINK_Check, one for all devices
    shown,      \* history: flags last printed for every device
    touched,    \* history: devices with an RTM_NEWLINK since the socket was bound
    announced   \* history: how many errors of recvmsg() were printed

kernelVars == <<present, flags, changes>>
socketVars == <<queue, congested, soerr>>
history    == <<shown, touched, announced>>
vars == <<kernelVars, socketVars, pc, buf, vIfi_flags, history>>

\* at is history: the number of the change that the message tells of.
Messages == [type : {"NEWLINK", "DELLINK", "NEWADDR"},
             dev : Devices, flags : SUBSET Flags, at : 1 .. MaxChanges]

Init ==
    /\ present \in SUBSET Devices
    /\ flags \in [Devices -> SUBSET Flags]
    /\ changes = 0
    /\ queue = <<>>
    /\ congested = FALSE
    /\ soerr = FALSE
    /\ pc = "start"
    /\ buf = <<>>
    /\ vIfi_flags = {}
    /\ shown = [d \in Devices |-> {}]
    /\ touched = {}
    /\ announced = 0

-----------------------------------------------------------------------------
(* The kernel.                                                               *)

Bound == pc \in {"select", "read", "parse", "command"}

\* Message m goes to the socket: into the last datagram or a new one.
Queued(m) ==
    \/ /\ Len(queue) < Room
       /\ queue' = Append(queue, <<m>>)
    \/ /\ queue # <<>>
       /\ Len(queue[Len(queue)]) < PerDatagram
       /\ queue' = [queue EXCEPT ![Len(queue)] = Append(@, m)]

Notify(m) ==
    /\ touched' = IF Bound /\ m.type = "NEWLINK" THEN touched \cup {m.dev}
                                                 ELSE touched
    /\ IF ~Bound \/ congested
       THEN UNCHANGED socketVars
       ELSE \/ Queued(m) /\ UNCHANGED <<congested, soerr>>
            \/ /\ Len(queue) = Room
               /\ congested' = TRUE
               /\ soerr' = TRUE
               /\ UNCHANGED queue

Notice(type, d, f) == [type |-> type, dev |-> d, flags |-> f, at |-> changes + 1]

\* A device comes, goes, changes its flags or gets an address.
KernelChange(d) ==
    /\ changes < MaxChanges
    /\ changes' = changes + 1
    /\ \/ \E f \in SUBSET Flags :
             /\ f # flags[d] \/ d \notin present
             /\ present' = present \cup {d}
             /\ flags' = [flags EXCEPT ![d] = f]
             /\ Notify(Notice("NEWLINK", d, f))
       \/ /\ d \in present
          /\ present' = present \ {d}
          /\ UNCHANGED flags
          /\ Notify(Notice("DELLINK", d, flags[d]))
       \/ /\ d \in present
          /\ UNCHANGED <<present, flags>>
          /\ Notify(Notice("NEWADDR", d, flags[d]))
    /\ UNCHANGED <<pc, buf, vIfi_flags, shown, announced>>

-----------------------------------------------------------------------------
(* main().                                                                   *)

\* Without an argument main() only prints the usage; else it opens the socket,
\* before it looks at the command, and exits when socket() or bind() fails.
util_OpenSocket ==
    /\ pc = "start"
    /\ \/ \E a \in Commands :
             pc' = CASE a = "none"   -> "exited"
                     [] a = "evloop" -> "select"
                     [] a = "other"  -> "command"
       \/ pc' = "exited"
    /\ UNCHANGED <<kernelVars, socketVars, buf, vIfi_flags, history>>

\* Mutant: the socket is not closed.
CloseSocketForgotten ==
    /\ pc = "command"
    /\ pc' = "exited"
    /\ UNCHANGED <<kernelVars, socketVars, buf, vIfi_flags, history>>

\* The other commands never read the socket; main() closes it at the end.
CloseSocket ==
    /\ pc = "command"
    /\ pc' = "exited"
    /\ queue' = <<>>
    /\ congested' = FALSE
    /\ soerr' = FALSE
    /\ UNCHANGED <<kernelVars, buf, vIfi_flags, history>>

-----------------------------------------------------------------------------
(* LoopEvent() and read_event().                                             *)

\* Mutant: a timeout of select() is taken for an event.
LoopEventOnTimeout ==
    /\ pc = "select"
    /\ pc' = "read"
    /\ UNCHANGED <<kernelVars, socketVars, buf, vIfi_flags, history>>

\* select() returns because the socket is readable, as it is with an error
\* pending.  When it times out or fails, the loop only comes round again.
LoopEvent ==
    /\ pc = "select"
    /\ queue # <<>> \/ soerr
    /\ pc' = "read"
    /\ UNCHANGED <<kernelVars, socketVars, buf, vIfi_flags, history>>

\* Mutant: LoopEvent() ends when read_event() returns an error.
ReadFailsAndStops ==
    /\ pc = "read"
    /\ soerr
    /\ soerr' = FALSE
    /\ announced' = announced + 1
    /\ pc' = "exited"
    /\ UNCHANGED <<kernelVars, queue, congested, buf, vIfi_flags, shown, touched>>

\* Mutant: ENOBUFS is taken for EAGAIN.
ReadFailsQuietly ==
    /\ pc = "read"
    /\ soerr
    /\ soerr' = FALSE
    /\ pc' = "select"
    /\ UNCHANGED <<kernelVars, queue, congested, buf, vIfi_flags, history>>

\* recvmsg() reports the pending error first: read_event() prints and returns
\* it, and LoopEvent() ignores what read_event() returns.
ReadFails ==
    /\ pc = "read"
    /\ soerr
    /\ soerr' = FALSE
    /\ announced' = announced + 1
    /\ pc' = "select"
    /\ UNCHANGED <<kernelVars, queue, congested, buf, vIfi_flags, shown, touched>>

\* recvmsg() takes one datagram.  vBuf holds 4096 bytes: that a longer one would
\* be cut off is left out, for PerDatagram notifications are taken to fit.
ReadDatagram ==
    /\ pc = "read"
    /\ ~soerr
    /\ queue # <<>>
    /\ buf' = Head(queue)
    /\ queue' = Tail(queue)
    /\ congested' = (congested /\ Tail(queue) # <<>>)
    /\ pc' = "parse"
    /\ UNCHANGED <<kernelVars, soerr, vIfi_flags, history>>

\* The flags are always printed as a number.  vIfi_flags, that of the last
\* RTM_NEWLINK of any device, only selects which of them are printed by name.
RTM_NEWLINK_Check ==
    /\ pc = "parse"
    /\ buf # <<>>
    /\ Head(buf).type = "NEWLINK"
    /\ LET m == Head(buf) IN
       /\ vIfi_flags' = m.flags
       /\ shown' = [shown EXCEPT ![m.dev] = m.flags]
    /\ buf' = Tail(buf)
    /\ UNCHANGED <<kernelVars, socketVars, pc, touched, announced>>

\* The handlers of the other messages print and keep nothing.
OtherMessage ==
    /\ pc = "parse"
    /\ buf # <<>>
    /\ Head(buf).type # "NEWLINK"
    /\ buf' = Tail(buf)
    /\ UNCHANGED <<kernelVars, socketVars, pc, vIfi_flags, history>>

\* Mutant: read_event() returns after the first message of a datagram.
EndOfDatagramEarly ==
    /\ pc = "parse"
    /\ pc' = "select"
    /\ buf' = <<>>
    /\ UNCHANGED <<kernelVars, socketVars, vIfi_flags, history>>

\* At the end of the datagram read_event() returns 0.
EndOfDatagram ==
    /\ pc = "parse"
    /\ buf = <<>>
    /\ pc' = "select"
    /\ UNCHANGED <<kernelVars, socketVars, buf, vIfi_flags, history>>

read_event ==
    \/ ReadFails
    \/ ReadDatagram
    \/ RTM_NEWLINK_Check
    \/ OtherMessage
    \/ EndOfDatagram

Program ==
    \/ util_OpenSocket
    \/ CloseSocket
    \/ LoopEvent
    \/ read_event

Next == Program \/ \E d \in Devices : KernelChange(d)

Spec == Init /\ [][Next]_vars

\* The one thread of the program runs whenever it can.
FairSpec == Spec /\ WF_vars(LoopEvent \/ read_event)

-----------------------------------------------------------------------------
(* Invariants.                                                               *)

\* Type invariant; a socket has messages only while it is bound.
TypeOK ==
    /\ present \in SUBSET Devices
    /\ flags \in [Devices -> SUBSET Flags]
    /\ changes \in 0 .. MaxChanges
    /\ queue \in Seq(Seq(Messages))
    /\ Len(queue) <= Room
    /\ queue # <<>> => Bound
    /\ congested \in BOOLEAN
    /\ soerr \in BOOLEAN
    /\ pc \in {"start", "select", "read", "parse", "command", "exited"}
    /\ buf \in Seq(Messages)
    /\ vIfi_flags \in SUBSET Flags
    /\ shown \in [Devices -> SUBSET Flags]
    /\ touched \in SUBSET Devices
    /\ announced \in Nat

\* A change is lost only behind a printed error: when the loop waits with nothing
\* queued and recvmsg() has never failed, the flags last printed for a device are
\* the flags it has.
LossWasAnnounced ==
    pc = "select" /\ queue = <<>> /\ ~soerr /\ announced = 0 =>
        \A d \in touched \cap present : shown[d] = flags[d]

\* The socket is blocking and select() the only guard: read_event() never calls
\* recvmsg() with nothing to return.
NeverBlocks == pc = "read" => queue # <<>> \/ soerr

-----------------------------------------------------------------------------
(* Action properties.                                                        *)

\* main_nettool.c:411 "bail out once we have read everything": when read_event()
\* returns 0, nothing is left in the queue.
ReadEventDrains ==
    [][pc = "parse" /\ pc' = "select" => queue = <<>>]_vars

-----------------------------------------------------------------------------
(* Liveness.                                                                 *)

\* Once the changes pause, the loop handles everything that is queued, also after
\* an overrun, and waits again in select(), never in recvmsg().
CaughtUp ==
    pc \in {"select", "read", "parse"}
        ~> pc = "select" /\ queue = <<>> /\ ~soerr

-----------------------------------------------------------------------------
(* What the loop promises.                                                   *)

\* The notices that are to be shown stand in the queue and in vBuf.
Pending == (UNION {Range(queue[i]) : i \in DOMAIN queue}) \cup Range(buf)

Feed == INSTANCE ChangeFeed
    WITH time      <- changes,
         listening <- Bound,
         pending   <- Pending,
         overrun   <- congested,
         unsaid    <- soerr,
         warnings  <- announced,
         view      <- shown

\* Every notice is shown once and in the order of the changes, across datagrams,
\* errors and pauses; after a drop, nothing later is shown before the error of
\* recvmsg() was printed.
ImplementsChangeFeed == Feed!Spec
=============================================================================
