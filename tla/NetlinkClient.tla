--------------------------- MODULE NetlinkClient ---------------------------
(***************************************************************************)
(* The rtnetlink operations of libnettool, called by several threads of    *)
(* one process: ip_add.c, ip_del.c, ip_show.c, gateway_add.c,              *)
(* gateway_del.c, gateway_show.c and the link operations of ip_link.c.     *)
(* Every operation opens a netlink socket, sends one request and reads the *)
(* answer; each system call is one step, so that calls interleave.  None   *)
(* of the calls checks what socket() or sendmsg() return, and a failed     *)
(* recvmsg() leaves the receive buffer as it was: what the parser then     *)
(* sees is what the buffer held, which at first is uninitialised stack.    *)
(***************************************************************************)
EXTENDS RtnlKernel, Integers, Sequences, FiniteSets

CONSTANTS
    Callers,    \* threads of the process
    MaxFd,      \* size of the descriptor table (RLIMIT_NOFILE)
    Inherited,  \* descriptors open before the first call
    Ops,        \* the operations the callers use
    Faults,     \* system calls that may fail, and "dump" (a refused dump)
    NoDev       \* the device of an operation without one

Fds == 0 .. MaxFd - 1

AckOps  == {"ip_add", "ip_del", "gateway_add", "gateway_del"}
ShowOps == {"ip_show", "gateway_show"}
SetOps  == {"link_up", "link_down"}
LinkOps == SetOps \cup {"link_info"}

ASSUME ClientAssumption ==
    /\ MaxFd \in Nat
    /\ Inherited \subseteq Fds
    /\ Ops \subseteq AckOps \cup ShowOps \cup LinkOps
    /\ Faults \subseteq {"socket", "sendmsg", "recvmsg", "dump"}
    /\ NoDev \notin Devices
    /\ IsFiniteSet(Callers)

VARIABLES
    link,     \* kernel: state of every device
    config,   \* kernel: the addresses and routes that are set
    open,     \* the process's open descriptors
    queue,    \* receive queue of every descriptor
    rest,     \* what a dump still has to walk
    dumping,  \* the descriptors with an unfinished dump
    pc,       \* where a caller is
    op,       \* its current or last operation
    dev,      \* and the device it names
    fd,       \* its local variable fd (vSocketFD), -1 after a failed socket()
    buf,      \* first header of its receive buffer
    out,      \* what the call printed or returned
    verdict,  \* history: what the kernel decided on its request
    heard,    \* history: whether it parsed an answer of the kernel
    seen,     \* history: states of its device since the call began
    leaked    \* history: descriptors left open by calls that returned

kernelVars == <<link, config>>
socketVars == <<open, queue, rest, dumping>>
callVars   == <<pc, op, dev, fd, buf, out>>
history    == <<heard, verdict, seen, leaked>>
vars == <<kernelVars, socketVars, callVars, history>>

\* First header of a buffer: nothing the parser knows, or an entry ("entry"),
\* NLMSG_DONE, or NLMSG_ERROR with its error.  "stack" is a buffer that no
\* recvmsg() has filled yet.
Headers == {"entry", "DONE"} \cup Verdicts
Texts == {"none", "Success", "Failed", "Permission denied", "errno",
          "no device", "zero", "up", "down"}

Init ==
    /\ link \in [Devices -> LinkStates]
    /\ config = {DelIp}
    /\ open = Inherited
    /\ queue = [f \in Fds |-> <<>>]
    /\ rest = [f \in Fds |-> {}]
    /\ dumping = {}
    /\ pc = [c \in Callers |-> "idle"]
    /\ op = [c \in Callers |-> "none"]
    /\ dev = [c \in Callers |-> NoDev]
    /\ fd = [c \in Callers |-> -1]
    /\ buf = [c \in Callers |-> "stack"]
    /\ out = [c \in Callers |-> "none"]
    /\ verdict = [c \in Callers |-> "unsent"]
    /\ heard = [c \in Callers |-> FALSE]
    /\ seen = [c \in Callers |-> {}]
    /\ leaked = {}

-----------------------------------------------------------------------------
(* History: every call in progress watches its device.                       *)

Observe(newLink) ==
    seen' = [c \in Callers |-> IF pc[c] # "idle" /\ dev[c] # NoDev
                               THEN seen[c] \cup {newLink[dev[c]]}
                               ELSE seen[c]]

\* Somebody else (a cable, an administrator, a driver) changes a device.
LinkChange(d) ==
    \E s \in LinkStates \ {link[d]} :
        /\ link' = [link EXCEPT ![d] = s]
        /\ Observe([link EXCEPT ![d] = s])
        /\ UNCHANGED <<config, socketVars, callVars, verdict, heard, leaked>>

-----------------------------------------------------------------------------
(* The requests.                                                             *)

add_ip      == [type |-> "NEWADDR", target |-> NewIp]
del_ip      == [type |-> "DELADDR", target |-> DelIp]
add_gateway == [type |-> "NEWROUTE", target |-> Gateway]
del_gateway == [type |-> "DELROUTE", target |-> Gateway]
\* Mutant: the flags of up and down are exchanged.
link_up_swapped(c) == [type |-> "NEWLINK", target |-> dev[c],
                       flags |-> IF op[c] = "link_up" THEN "down" ELSE "up"]
link_up(c)  == [type |-> "NEWLINK", target |-> dev[c],
                flags |-> IF op[c] = "link_up" THEN "up" ELSE "down"]

-----------------------------------------------------------------------------
(* The steps the operations are made of.                                     *)

\* A call begins.  link_info's caller has zeroed the structure to be filled.
Call(c, o, d) ==
    /\ pc[c] = "idle"
    /\ pc' = [pc EXCEPT ![c] = IF o \in LinkOps THEN "lookup" ELSE "socket"]
    /\ op' = [op EXCEPT ![c] = o]
    /\ dev' = [dev EXCEPT ![c] = IF o \in LinkOps THEN d ELSE NoDev]
    /\ out' = [out EXCEPT ![c] = IF o = "link_info" THEN "zero" ELSE "none"]
    /\ verdict' = [verdict EXCEPT ![c] = "unsent"]
    /\ heard' = [heard EXCEPT ![c] = FALSE]
    /\ seen' = [seen EXCEPT ![c] = IF o \in LinkOps THEN {link[d]} ELSE {}]
    /\ UNCHANGED <<kernelVars, socketVars, fd, buf, leaked>>

\* if_nametoindex() opens a socket of its own for the time of the call: with no
\* descriptor free it returns 0, as it does for a name that is not there.  A
\* device that is made again under its name keeps its index here; the kernel may
\* give it another, and then answers as for a device that is away.
Lookup(c) ==
    /\ pc[c] = "lookup"
    /\ IF link[dev[c]] = "absent" \/ open = Fds
       THEN /\ pc' = [pc EXCEPT ![c] = "idle"]
            /\ out' = [out EXCEPT ![c] = "no device"]
       ELSE /\ pc' = [pc EXCEPT ![c] = "socket"]
            /\ UNCHANGED out
    /\ UNCHANGED <<kernelVars, socketVars, op, dev, fd, buf, history>>

\* Mutant: the descriptor an earlier call left open is used again.
SocketReused(c) ==
    /\ pc[c] = "socket"
    /\ IF leaked # {}
       THEN /\ \E f \in leaked :
                  /\ fd' = [fd EXCEPT ![c] = f]
                  /\ leaked' = leaked \ {f}
            /\ UNCHANGED open
       ELSE /\ \E f \in Fds \ open :
                  /\ fd' = [fd EXCEPT ![c] = f]
                  /\ open' = open \cup {f}
            /\ UNCHANGED leaked
    /\ pc' = [pc EXCEPT ![c] = "send"]
    /\ UNCHANGED <<kernelVars, queue, rest, dumping, op, dev, buf, out,
                   verdict, heard, seen>>

\* socket() takes the lowest free number; its result is not checked.
Socket(c) ==
    /\ pc[c] = "socket"
    /\ \/ \E f \in Fds \ open :
            /\ \A g \in Fds \ open : f <= g
            /\ fd' = [fd EXCEPT ![c] = f]
            /\ open' = open \cup {f}
       \/ /\ open = Fds \/ "socket" \in Faults
          /\ fd' = [fd EXCEPT ![c] = -1]
          /\ UNCHANGED open
    /\ pc' = [pc EXCEPT ![c] = "send"]
    /\ UNCHANGED <<kernelVars, queue, rest, dumping, op, dev, buf, out, history>>

\* sendmsg() fails, on a bad descriptor always: the result is dropped.
SendFails(c) ==
    /\ pc[c] = "send"
    /\ fd[c] = -1 \/ "sendmsg" \in Faults
    /\ pc' = [pc EXCEPT ![c] = "recv"]
    /\ UNCHANGED <<kernelVars, socketVars, op, dev, fd, buf, out, history>>

\* sendmsg() of a change: the kernel decides, acts and acknowledges.
SendChange(c, r) ==
    /\ pc[c] = "send"
    /\ fd[c] # -1
    /\ \E v \in {Judge(r, link, config)} \cup Refusals :
        /\ link' = IF v = "OK" THEN NewLink(r, link) ELSE link
        /\ config' = IF v = "OK" THEN NewConfig(r, config) ELSE config
        /\ verdict' = [verdict EXCEPT ![c] = v]
        /\ queue' = [queue EXCEPT ![fd[c]] = Append(@, Ack(v))]
        /\ Observe(IF v = "OK" THEN NewLink(r, link) ELSE link)
    /\ pc' = [pc EXCEPT ![c] = "recv"]
    /\ UNCHANGED <<open, rest, dumping, op, dev, fd, buf, out, heard, leaked>>

\* Part S of the rest of a dump goes to the end of the queue q of socket f.
Generate(f, q, left, S) ==
    /\ queue' = [queue EXCEPT ![f] = Append(q, Chunk(link, left, S))]
    /\ rest' = [rest EXCEPT ![f] = left \ S]
    /\ dumping' = IF Chunk(link, left, S).tail = "DONE"
                  THEN dumping \ {f} ELSE dumping \cup {f}

\* sendmsg() of a dump request: the first datagram is there on return.
SendDump(c) ==
    /\ pc[c] = "send"
    /\ fd[c] # -1
    /\ \/ \E S \in Parts(link, Devices) :
            /\ Generate(fd[c], queue[fd[c]], Devices, S)
            /\ verdict' = [verdict EXCEPT ![c] = "OK"]
       \/ /\ "dump" \in Faults
          /\ \E v \in Refusals :
                /\ queue' = [queue EXCEPT ![fd[c]] = Append(@, Ack(v))]
                /\ verdict' = [verdict EXCEPT ![c] = v]
          /\ UNCHANGED <<rest, dumping>>
    /\ pc' = [pc EXCEPT ![c] = "recv"]
    /\ UNCHANGED <<kernelVars, open, op, dev, fd, buf, out, heard, seen, leaked>>

\* recvmsg() takes the next datagram; the kernel goes on with a dump.
Take(c) ==
    LET f == fd[c] IN
    /\ f # -1
    /\ queue[f] # <<>>
    /\ IF f \in dumping
       THEN \E S \in Parts(link, rest[f]) :
                Generate(f, Tail(queue[f]), rest[f], S)
       ELSE /\ queue' = [queue EXCEPT ![f] = Tail(@)]
            /\ UNCHANGED <<rest, dumping>>

RecvMayFail(c) == fd[c] = -1 \/ "recvmsg" \in Faults

\* Mutant: any NLMSG_ERROR counts as the acknowledgement.
FirstHeaderAnyError(dg) == CASE dg.news # {}          -> "entry"
                             [] dg.tail = "none"      -> "entry"
                             [] dg.tail = "DONE"      -> "DONE"
                             [] dg.tail \in Verdicts  -> "OK"

FirstHeader(dg) == CASE dg.news # {}     -> "entry"
                     [] dg.tail = "none" -> "entry"
                     [] OTHER            -> dg.tail

\* util_get_msg() and util_parse_nl_msg_OK(): h is the type of the first header
\* the buffer holds then.  A length of -1 becomes the largest size_t, so the
\* parser takes an unfilled buffer for a message; an uninitialised one may hold
\* anything.  Only the first header is looked at.
util_get_msg(c, h) ==
    \/ /\ Take(c)
       /\ h = FirstHeader(Head(queue[fd[c]]))
       /\ heard' = [heard EXCEPT ![c] = TRUE]
    \/ /\ RecvMayFail(c)
       /\ buf[c] \in {"stack", h}
       /\ heard' = [heard EXCEPT ![c] = FALSE]
       /\ UNCHANGED <<queue, rest, dumping>>

\* The switch over nlmsgerr.error; another message prints nothing.
Printed(h) == CASE h = "OK"                -> "Success"
                [] h = "EADDRNOTAVAIL"     -> "Failed"
                [] h = "EPERM"             -> "Permission denied"
                [] h \in {"entry", "DONE"} -> "none"
                [] OTHER                   -> "errno"

\* Mutant: -1 is taken for a descriptor.
ReturnUnchecked(c) ==
    /\ pc' = [pc EXCEPT ![c] = "idle"]
    /\ fd' = [fd EXCEPT ![c] = -1]
    /\ buf' = [buf EXCEPT ![c] = "stack"]
    /\ leaked' = leaked \cup {fd[c]}

\* Return without close(): the descriptor stays open and nothing names it.
ReturnLeaking(c) ==
    /\ pc' = [pc EXCEPT ![c] = "idle"]
    /\ fd' = [fd EXCEPT ![c] = -1]
    /\ buf' = [buf EXCEPT ![c] = "stack"]
    /\ leaked' = leaked \cup ({fd[c]} \ {-1})

\* One read of the answer to a change.
RecvAck(c) ==
    /\ pc[c] = "recv"
    /\ \E h \in Headers :
        /\ util_get_msg(c, h)
        /\ out' = [out EXCEPT ![c] = Printed(h)]
    /\ IF op[c] \in SetOps
       THEN pc' = [pc EXCEPT ![c] = "close"] /\ UNCHANGED <<fd, buf, leaked>>
       ELSE ReturnLeaking(c)
    /\ UNCHANGED <<kernelVars, open, op, dev, verdict, seen>>

\* The loop of the show operations: read until the first header of a datagram
\* is NLMSG_DONE or NLMSG_ERROR.
RecvShow(c) ==
    /\ pc[c] = "recv"
    /\ \E h \in Headers :
        /\ util_get_msg(c, h)
        /\ IF h = "entry"
           THEN buf' = [buf EXCEPT ![c] = h] /\ UNCHANGED <<pc, fd, leaked>>
           ELSE ReturnLeaking(c)
    /\ UNCHANGED <<kernelVars, open, op, dev, out, verdict, seen>>

\* Mutant: the first entry is taken for the device's.
link_info_receive_first(c) ==
    /\ pc[c] = "recv"
    /\ Take(c)
    /\ LET dg == Head(queue[fd[c]])
       IN  \/ /\ dg.news # {}
              /\ \E n \in dg.news : out' = [out EXCEPT ![c] = n[2]]
              /\ pc' = [pc EXCEPT ![c] = "close"]
           \/ /\ dg.news = {}
              /\ pc' = [pc EXCEPT ![c] = IF dg.tail = "DONE" THEN "close"
                                                             ELSE "recv"]
              /\ UNCHANGED out
    /\ heard' = [heard EXCEPT ![c] = TRUE]
    /\ UNCHANGED <<kernelVars, open, op, dev, fd, buf, verdict, seen, leaked>>

\* Mutant: the end of the dump does not end the loop.
link_info_receive_endless(c) ==
    /\ pc[c] = "recv"
    /\ Take(c)
    /\ LET mine == {n \in Head(queue[fd[c]]).news : n[1] = dev[c]}
       IN  \/ /\ \E n \in mine : out' = [out EXCEPT ![c] = n[2]]
              /\ pc' = [pc EXCEPT ![c] = "close"]
           \/ mine = {} /\ UNCHANGED <<pc, out>>
    /\ heard' = [heard EXCEPT ![c] = TRUE]
    /\ UNCHANGED <<kernelVars, open, op, dev, fd, buf, verdict, seen, leaked>>

\* The loop of link_info: look through every message of each datagram for the
\* device.  An NLMSG_ERROR is only printed and the loop goes on.
link_info_receive(c) ==
    /\ pc[c] = "recv"
    /\ Take(c)
    /\ LET dg == Head(queue[fd[c]])
           mine == {n \in dg.news : n[1] = dev[c]}
       IN  \/ /\ mine # {}
              /\ \E n \in mine : out' = [out EXCEPT ![c] = n[2]]
              /\ pc' = [pc EXCEPT ![c] = "close"]
           \/ /\ mine = {}
              /\ pc' = [pc EXCEPT ![c] = IF dg.tail = "DONE" THEN "close"
                                                             ELSE "recv"]
              /\ UNCHANGED out
    /\ heard' = [heard EXCEPT ![c] = TRUE]
    /\ UNCHANGED <<kernelVars, open, op, dev, fd, buf, verdict, seen, leaked>>

\* ... and a failed recvmsg() makes it try again at once.
Spin(c) ==
    /\ pc[c] = "recv"
    /\ RecvMayFail(c)
    /\ UNCHANGED vars

\* Mutant: the close() is missing.
CloseForgotten(c) ==
    /\ pc[c] = "close"
    /\ pc' = [pc EXCEPT ![c] = "idle"]
    /\ fd' = [fd EXCEPT ![c] = -1]
    /\ UNCHANGED <<kernelVars, socketVars, op, dev, buf, out, history>>

\* Mutant: if( vSocketFD > 1 ).
CloseAboveOne(c) ==
    /\ pc[c] = "close"
    /\ IF fd[c] \in {0, 1, -1}
       THEN /\ leaked' = leaked \cup ({fd[c]} \ {-1})
            /\ UNCHANGED socketVars
       ELSE /\ open' = open \ {fd[c]}
            /\ queue' = [queue EXCEPT ![fd[c]] = <<>>]
            /\ rest' = [rest EXCEPT ![fd[c]] = {}]
            /\ dumping' = dumping \ {fd[c]}
            /\ UNCHANGED leaked
    /\ pc' = [pc EXCEPT ![c] = "idle"]
    /\ fd' = [fd EXCEPT ![c] = -1]
    /\ UNCHANGED <<kernelVars, op, dev, buf, out, verdict, heard, seen>>

\* if( vSocketFD ) close( vSocketFD ): descriptor 0 is taken for "no socket".
\* The kernel drops what the socket still had queued.
Close(c) ==
    /\ pc[c] = "close"
    /\ IF fd[c] \in {0, -1}
       THEN /\ leaked' = leaked \cup ({fd[c]} \ {-1})
            /\ UNCHANGED socketVars
       ELSE /\ open' = open \ {fd[c]}
            /\ queue' = [queue EXCEPT ![fd[c]] = <<>>]
            /\ rest' = [rest EXCEPT ![fd[c]] = {}]
            /\ dumping' = dumping \ {fd[c]}
            /\ UNCHANGED leaked
    /\ pc' = [pc EXCEPT ![c] = "idle"]
    /\ fd' = [fd EXCEPT ![c] = -1]
    /\ UNCHANGED <<kernelVars, op, dev, buf, out, verdict, heard, seen>>

-----------------------------------------------------------------------------
(* The operations of the library.                                            *)

ChangeCall(c, r) ==
    \/ Socket(c)
    \/ SendFails(c)
    \/ SendChange(c, r)
    \/ RecvAck(c)

ShowCall(c) ==
    \/ Socket(c)
    \/ SendFails(c)
    \/ SendDump(c)
    \/ RecvShow(c)

nettool_ip_add(c) == op[c] = "ip_add" /\ ChangeCall(c, add_ip)
ip_del(c)         == op[c] = "ip_del" /\ ChangeCall(c, del_ip)
gateway_add(c)    == op[c] = "gateway_add" /\ ChangeCall(c, add_gateway)
gateway_del(c)    == op[c] = "gateway_del" /\ ChangeCall(c, del_gateway)
nettool_ip_show(c) == op[c] = "ip_show" /\ ShowCall(c)
gateway_show(c)    == op[c] = "gateway_show" /\ ShowCall(c)

nettool_link_up(c) ==
    /\ op[c] \in SetOps
    /\ \/ Lookup(c)
       \/ ChangeCall(c, link_up(c))
       \/ Close(c)

nettool_link_info(c) ==
    /\ op[c] = "link_info"
    /\ \/ Lookup(c)
       \/ Socket(c)
       \/ SendFails(c)
       \/ SendDump(c)
       \/ link_info_receive(c)
       \/ Spin(c)
       \/ Close(c)

\* A caller goes on with the call it is in.
Step(c) ==
    \/ nettool_ip_add(c)
    \/ ip_del(c)
    \/ gateway_add(c)
    \/ gateway_del(c)
    \/ nettool_ip_show(c)
    \/ gateway_show(c)
    \/ nettool_link_up(c)
    \/ nettool_link_info(c)

Next ==
    \/ \E c \in Callers : Step(c)
    \/ \E c \in Callers, o \in Ops, d \in Devices : Call(c, o, d)
    \/ \E d \in Devices : LinkChange(d)

Spec == Init /\ [][Next]_vars

\* Threads that are inside a call are scheduled again and again; nobody has to
\* call, and no device has to change.
FairSpec == Spec /\ \A c \in Callers : WF_vars(Step(c))
-----------------------------------------------------------------------------
(* Type invariant.                                                           *)

TypeOK ==
    /\ link \in [Devices -> LinkStates]
    /\ config \in SUBSET Objects
    /\ open \in SUBSET Fds
    /\ queue \in [Fds -> Seq(Datagrams)]
    /\ rest \in [Fds -> SUBSET Devices]
    /\ dumping \in SUBSET Fds
    /\ pc \in [Callers -> {"idle", "lookup", "socket", "send", "recv", "close"}]
    /\ op \in [Callers -> AckOps \cup ShowOps \cup LinkOps \cup {"none"}]
    /\ dev \in [Callers -> Devices \cup {NoDev}]
    /\ fd \in [Callers -> Fds \cup {-1}]
    /\ buf \in [Callers -> Headers \cup {"stack"}]
    /\ out \in [Callers -> Texts]
    /\ verdict \in [Callers -> Verdicts \cup {"unsent"}]
    /\ heard \in [Callers -> BOOLEAN]
    /\ seen \in [Callers -> SUBSET LinkStates]
    /\ leaked \in SUBSET Fds

-----------------------------------------------------------------------------
(* Safety.                                                                   *)

Held == {fd[c] : c \in Callers} \ {-1}

\* Every open descriptor was inherited, is held by exactly one call in progress
\* or was left behind by a call that returned; no call uses a descriptor that
\* another call has closed or opened.
DescriptorsAccounted ==
    /\ open = Inherited \cup Held \cup leaked
    /\ Inherited \cap Held = {}
    /\ Inherited \cap leaked = {}
    /\ Held \cap leaked = {}
    /\ \A c, e \in Callers : c # e /\ fd[c] # -1 => fd[c] # fd[e]

\* Descriptor numbers are reused, answers are not: a socket that a call has just
\* opened holds nothing of the socket that had its number before, and the only
\* thing a change can read is the kernel's verdict on that very change.
AnswersAreMine ==
    \A c \in Callers : fd[c] # -1 =>
        /\ pc[c] = "send" => queue[fd[c]] = <<>> /\ fd[c] \notin dumping
        /\ pc[c] = "recv" /\ op[c] \in AckOps \cup SetOps =>
               queue[fd[c]] = IF verdict[c] = "unsent" THEN <<>>
                              ELSE <<Ack(verdict[c])>>

\* A change that did read an answer reports what the kernel decided, whatever
\* else goes on in the process and whichever calls fail.
ReportIsTruthful ==
    \A c \in Callers :
        pc[c] = "idle" /\ op[c] \in AckOps \cup SetOps /\ heard[c] =>
            out[c] = Printed(verdict[c])

\* If link_up reports Success on the kernel's word, the device was in the wanted
\* state at some time during the call (not necessarily still on return).
LinkChangeTookEffect ==
    \A c \in Callers :
        pc[c] = "idle" /\ op[c] \in SetOps /\ heard[c] /\ out[c] = "Success" =>
            (IF op[c] = "link_up" THEN "up" ELSE "down") \in seen[c]

\* The flags link_info hands out are flags its own device had during the call,
\* and "not found" at the end of the dump means that the device was away at some
\* time during the call.
InfoWasReal ==
    \A c \in Callers :
        pc[c] = "idle" /\ op[c] = "link_info" =>
            /\ out[c] \in {"up", "down"} => out[c] \in seen[c]
            /\ out[c] = "zero" => "absent" \in seen[c]

\* The kernel has taken the request, and the call will know the end of the answer:
\* link_info knows no other end than that of a dump, and the show operations see
\* it only at the head of a datagram.
AnswerDue(c) ==
    /\ pc[c] = "recv" /\ fd[c] # -1 /\ verdict[c] # "unsent"
    /\ op[c] = "link_info" => verdict[c] = "OK"
    /\ op[c] \in ShowOps => DoneAlone

\* recvmsg() blocks, and nobody sends a second time: while a call that the kernel
\* has heard is there to read, what it is to read waits on its own socket,
\* whatever reads failed before, whichever devices went and came and whoever has
\* opened and closed descriptors meanwhile (ip_add.c 97, ip_show.c 107, ip_link.c
\* 200).  AnswerDue leaves out the waits for ever that the code has.
NeverStranded == \A c \in Callers : AnswerDue(c) => queue[fd[c]] # <<>>

\* With one descriptor per caller to spare, socket() fails for want of
\* descriptors, and a name that exists is reported missing, only after a call
\* has leaked its descriptor.  (The runs that check this inject no failure of
\* socket() itself.)
ExhaustionNeedsLeak ==
    leaked = {} =>
        \A c \in Callers :
            /\ pc[c] \in {"send", "recv", "close"} => fd[c] # -1
            /\ out[c] = "no device" => "absent" \in seen[c]

\* The link operations give their descriptor back: what leaks was opened by an
\* operation of the other files, or is descriptor 0.
OnlyStdinLeaksFromLinks ==
    [][\A f \in leaked' \ leaked :
          \/ f = 0
          \/ \E c \in Callers : fd[c] = f /\ op[c] \in AckOps \cup ShowOps]_vars

-----------------------------------------------------------------------------
(* What makes the safety invariants inductive.                               *)

Before(c) == pc[c] \in {"lookup", "socket", "send"}

\* A call owns a descriptor only from socket() to its return, and a call that
\* has not sent anything has heard nothing.
CallShape ==
    \A c \in Callers :
        /\ pc[c] \in {"idle", "lookup", "socket"} => fd[c] = -1
        /\ Before(c) => verdict[c] = "unsent" /\ ~heard[c]
        /\ pc[c] # "idle" /\ op[c] \in LinkOps => dev[c] # NoDev

\* The kernel keeps nothing for a number that is not open, and no dump runs on
\* the socket of a change.
ClosedIsClean ==
    /\ \A f \in Fds \ open : queue[f] = <<>> /\ f \notin dumping
    /\ \A c \in Callers :
          fd[c] # -1 /\ pc[c] = "recv" /\ op[c] \in AckOps \cup SetOps =>
              fd[c] \notin dumping

\* The verdict is there from sendmsg() on, and so is its effect.
VerdictStands ==
    \A c \in Callers :
        /\ pc[c] \in {"close", "idle"} /\ op[c] \in AckOps \cup SetOps
               /\ heard[c] => out[c] = Printed(verdict[c])
        /\ op[c] \in SetOps /\ verdict[c] = "OK" =>
               (IF op[c] = "link_up" THEN "up" ELSE "down") \in seen[c]

IInv ==
    /\ TypeOK
    /\ DescriptorsAccounted
    /\ AnswersAreMine
    /\ CallShape
    /\ ClosedIsClean
    /\ VerdictStands

-----------------------------------------------------------------------------
(* What a caller sees of all this.                                           *)

\* Whatever fails and whoever else calls, every operation is one of AtomicCalls:
\* a change takes place at most once and in one instant of its call, and what a
\* call reports on the kernel's word is what that instant decided; link_info
\* returns a state its device had, and a show reports nothing.
Atomic == INSTANCE AtomicCalls WITH
              calling <- {c \in Callers : pc[c] # "idle"},
              decision <- [c \in Callers |-> IF op[c] \in AckOps \cup SetOps
                                            THEN verdict[c] ELSE "unsent"],
              answered <- [c \in Callers |-> pc[c] = "idle" /\ heard[c]],
              report <- [c \in Callers |-> IF pc[c] = "idle" THEN out[c] ELSE "none"],
              witnessed <- seen

ImplementsAtomicCalls == Atomic!Spec

-----------------------------------------------------------------------------
(* Liveness.                                                                 *)

\* Without faults, and with NLMSG_DONE in a datagram of its own, every call that
\* got a descriptor returns.
CallsReturn ==
    \A c \in Callers : (pc[c] = "send" /\ fd[c] # -1) ~> pc[c] = "idle"

-----------------------------------------------------------------------------
(* What comments in the source say.                                          *)

\* ip_add.c:94 "after sending, we need to check the result": Success is printed
\* only for a change that the kernel accepted.
SuccessWasChecked ==
    \A c \in Callers :
        pc[c] = "idle" /\ out[c] = "Success" => verdict[c] = "OK"

\* ip_add.c:39 "the only difference between ip add and ip del operations is the
\* nlmsg_type": a deletion that succeeded has removed what ip_add adds.
DelUndoesAdd ==
    \A c \in Callers :
        pc[c] = "close" \/ pc[c] = "idle" =>
            (op[c] = "ip_del" /\ heard[c] /\ out[c] = "Success"
                => NewIp \notin config)

\* ip_link.c:244 "should not happen here": the loop of link_info only ever meets
\* entries and the end of the dump.
OnlyEntriesInInfo ==
    \A c \in Callers :
        pc[c] = "recv" /\ op[c] = "link_info" /\ fd[c] # -1 =>
            \A i \in DOMAIN queue[fd[c]] :
                queue[fd[c]][i].tail \in {"none", "DONE"}
=============================================================================
