------------------------------- MODULE NetLib -------------------------------
(***************************************************************************)
(* test_cpp/src/NetLib.c: Net_2() adds an address and reads one answer,    *)
(* Net_1() asks for the table of IPv6 addresses and reads one datagram.    *)
(* Both are declared in test.h and called by nothing at present.           *)
(*                                                                         *)
(* The kernel is outside: it answers a request inside the send, with an    *)
(* error when there is one and with an acknowledgement when it was asked   *)
(* for.  A dump comes in datagrams of at most NlRoom entries; NLMSG_DONE   *)
(* may close the last one or come alone.  Others change the addresses.     *)
(***************************************************************************)
EXTENDS Naturals, Sequences
LOCAL INSTANCE SequencesExt

CONSTANTS
    NlAddresses, \* the addresses that the table may hold
    NEW_IP,      \* one of them
    NlRoom,
    NlErrors     \* errors the kernel may answer with

ASSUME NetLibAssumption ==
    /\ NEW_IP \in NlAddresses
    /\ NlRoom \in Nat \ {0}

VARIABLES
    nlPc,      \* "off", "socket", "send", "recv", "walk", "done" or "exit"
    nlCall,    \* "Net_1" or "Net_2"
    nlSent,    \* the request has reached the kernel
    nlQueue,   \* the datagrams on the socket, each a sequence of messages
    nlTable,   \* kernel: the addresses
    nlDecision, \* history: what the kernel made of the request
    nlDatagram, \* buf
    nlAt,      \* the message that Net_1's walk is at
    nlShown    \* what was printed, a line each

netLibVars == <<nlPc, nlCall, nlSent, nlQueue, nlTable, nlDecision, nlDatagram,
                nlAt, nlShown>>
walkVars == <<nlDatagram, nlAt>>
nlKernelVars == <<nlQueue, nlTable, nlDecision>>

NetLibInit ==
    /\ nlPc = "off"
    /\ nlCall = "Net_2"
    /\ nlSent = FALSE
    /\ nlQueue = <<>>
    /\ nlTable = {}
    /\ nlDecision = "none"
    /\ nlDatagram = <<>>
    /\ nlAt = 1
    /\ nlShown = <<>>

NlGoes(from, to) == nlPc = from /\ nlPc' = to /\ UNCHANGED nlCall

NlBegins(call) ==
    /\ nlPc = "off" /\ nlPc' = "socket"
    /\ nlCall' = call
    /\ nlTable' \in SUBSET NlAddresses
    /\ UNCHANGED <<nlSent, nlQueue, nlDecision, walkVars, nlShown>>

Net_1 == NlBegins("Net_1")
Net_2 == NlBegins("Net_2")

\* Without a socket Net_2() exits; Net_1() goes on and fails to send.
NlSocket ==
    /\ \/ NlGoes("socket", "send")
       \/ nlCall = "Net_2" /\ NlGoes("socket", "exit")
       \/ nlCall = "Net_1" /\ NlGoes("socket", "done")
    /\ UNCHANGED <<nlSent, nlKernelVars, walkVars, nlShown>>

-----------------------------------------------------------------------------
(* The requests and the kernel's answers.                                   *)

\* Mutant: no acknowledgement is asked for.
add_ip_flagsNoAck == {"REQUEST"}

\* NLM_F_REQUEST | NLM_F_ACK.
add_ip_flags == {"REQUEST", "ACK"}

\* Without NLM_F_REPLACE an address that is there already is an error.
KernelAdds(err) ==
    /\ err \in NlErrors \cup {"OK", "EEXIST"}
    /\ err = "OK" => NEW_IP \notin nlTable
    /\ err = "EEXIST" => NEW_IP \in nlTable
    /\ nlTable' = IF err = "OK" THEN nlTable \cup {NEW_IP} ELSE nlTable
    /\ nlDecision' = err
    /\ nlQueue' = IF err = "OK" /\ "ACK" \notin add_ip_flags THEN nlQueue
                  ELSE Append(nlQueue, << err >>)

\* The entries in some order, cut where a datagram is full; the end alone or
\* with the last of them.
KernelDumps ==
    \E entries \in SetToSeqs(nlTable) :
        LET n == (Len(entries) + NlRoom - 1) \div NlRoom
            part(i) == SubSeq(entries, (i - 1) * NlRoom + 1,
                              IF i = n THEN Len(entries) ELSE i * NlRoom)
            parts == [i \in 1..n |-> part(i)]
        IN  /\ \/ nlQueue' = Append(parts, <<"DONE">>)
               \/ n > 0 /\ nlQueue' = [parts EXCEPT ![n] = Append(@, "DONE")]
            /\ UNCHANGED <<nlTable, nlDecision>>

\* sendmsg() of add_ip() may fail, and Net_2() does not look.
NlSendAdd ==
    /\ nlCall = "Net_2" /\ NlGoes("send", "recv")
    /\ \/ nlSent' = TRUE /\ \E v \in NlErrors \cup {"OK", "EEXIST"} : KernelAdds(v)
       \/ UNCHANGED <<nlSent, nlKernelVars>>
    /\ UNCHANGED <<walkVars, nlShown>>

\* Net_1() returns 1 when send() fails.
NlSendGet ==
    /\ nlCall = "Net_1"
    /\ \/ NlGoes("send", "recv") /\ nlSent' = TRUE /\ KernelDumps
       \/ NlGoes("send", "done") /\ UNCHANGED <<nlSent, nlKernelVars>>
    /\ UNCHANGED <<walkVars, nlShown>>

-----------------------------------------------------------------------------
\* One datagram is read, the others stay.
NlRecv ==
    /\ NlGoes("recv", "walk")
    /\ nlQueue # <<>>
    /\ nlDatagram' = Head(nlQueue)
    /\ nlQueue' = Tail(nlQueue)
    /\ UNCHANGED <<nlSent, nlTable, nlDecision, nlAt, nlShown>>

\* A read that fails: check() exits, Net_1() returns 1.
NlRecvFails ==
    /\ NlGoes("recv", IF nlCall = "Net_2" THEN "exit" ELSE "done")
    /\ UNCHANGED <<nlSent, nlKernelVars, walkVars, nlShown>>

\* Mutant: any NLMSG_ERROR is taken for an acknowledgement.
SaidAlways(error) == "Success"

\* What Net_2() prints for an error.
Said(error) ==
    CASE error = "OK" -> "Success"
      [] error = "EADDRNOTAVAIL" -> "Failed"
      [] error = "EPERM" -> "Permission denied"
      [] OTHER -> "strerror"

NlParse ==
    /\ nlCall = "Net_2" /\ NlGoes("walk", "done")
    /\ nlShown' = <<Said(nlDatagram[1])>>
    /\ UNCHANGED <<nlSent, nlKernelVars, walkVars>>

\* Net_1() shows every message of the datagram as an interface: NLMSG_DONE is
\* not looked for, and gives an index that was not in the answer.
NlWalk ==
    /\ nlCall = "Net_1"
    /\ \/ /\ nlAt <= Len(nlDatagram)
          /\ NlGoes("walk", "walk")
          /\ nlShown' = Append(nlShown, IF nlDatagram[nlAt] = "DONE" THEN "garbage"
                                        ELSE nlDatagram[nlAt])
          /\ nlAt' = nlAt + 1
       \/ /\ nlAt > Len(nlDatagram)
          /\ NlGoes("walk", "done")
          /\ UNCHANGED <<nlShown, nlAt>>
    /\ UNCHANGED <<nlSent, nlKernelVars, nlDatagram>>

NlStep == NlSocket \/ NlSendAdd \/ NlSendGet \/ NlRecv \/ NlParse \/ NlWalk

\* Somebody else adds or removes an address.
NlOthers ==
    /\ nlPc \in {"socket", "send", "recv", "walk"}
    /\ \E a \in NlAddresses :
          nlTable' = IF a \in nlTable THEN nlTable \ {a} ELSE nlTable \cup {a}
    /\ UNCHANGED <<nlPc, nlCall, nlSent, nlQueue, nlDecision, walkVars, nlShown>>

NetLibNext == NlStep \/ NlRecvFails \/ NlOthers

\* The program is scheduled; no read has to fail.
NetLibFairness == WF_netLibVars(NlStep)

-----------------------------------------------------------------------------
(* Properties.                                                              *)

\* The values the variables take.
NetLibTypeOK ==
    /\ nlPc \in {"off", "socket", "send", "recv", "walk", "done", "exit"}
    /\ nlSent \in BOOLEAN
    /\ nlTable \subseteq NlAddresses
    /\ nlDecision \in NlErrors \cup {"none", "OK", "EEXIST"}

\* Net_2() prints Success only for a request that was sent and that the kernel
\* has accepted, although it does not look whether the sending failed: without
\* a request there is nothing to read (NetLib.c 354, 360, 368).
SuccessIsTrue ==
    nlCall = "Net_2" /\ nlShown = <<"Success">> => nlSent /\ nlDecision = "OK"

\* A request that was sent is answered, whether the kernel accepts it or not
\* and however the table changes; only one that could not be sent leaves
\* Net_2() waiting for ever (NetLib.c 276, 354, 360).
SentIsAnswered == (nlPc = "recv" /\ nlSent) ~> (nlPc \in {"done", "exit"})
=============================================================================
