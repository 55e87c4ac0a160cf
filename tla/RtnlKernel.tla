----------------------------- MODULE RtnlKernel -----------------------------
(***************************************************************************)
(* What libnettool relies on from the Linux rtnetlink kernel side.  No     *)
(* kernel code is in the repository: these definitions follow from the     *)
(* requests that libnettool builds and from the answers that it parses.    *)
(*                                                                         *)
(* A request is handled inside sendmsg(): its effect is there and its      *)
(* answer is queued on the sending socket when sendmsg() returns.  A dump  *)
(* is walked one datagram ahead of the reader: the next datagram is built  *)
(* when the reader takes one away.                                         *)
(***************************************************************************)
EXTENDS Naturals

CONSTANTS
    Devices,    \* the interfaces that may exist, by index
    DoneAlone,  \* TRUE: NLMSG_DONE always comes in a datagram of its own
                \* FALSE: it may close a datagram that also holds entries
    Refusals    \* errors the kernel may answer whatever the request asks

LinkStates == {"absent", "down", "up"}

\* The addresses ip_add.c and ip_del.c name, and the route of gateway_*.c.
NewIp == "192.168.1.2 on 3"
DelIp == "172.16.10.111 on 2"
Gateway == "default via 172.16.0.1"
Objects == {NewIp, DelIp, Gateway}

\* Values of nlmsgerr.error; "OK" is 0, the acknowledgement.
Verdicts == {"OK", "EEXIST", "EADDRNOTAVAIL", "ESRCH", "ENODEV", "EPERM"}

ASSUME KernelAssumption ==
    /\ DoneAlone \in BOOLEAN
    /\ Refusals \subseteq Verdicts \ {"OK"}

-----------------------------------------------------------------------------
(* Datagrams.  One is a run of RTM_NEW* entries (here the devices reported,  *)
(* each with its state at the time) and what comes after the last of them:   *)
(* nothing, NLMSG_DONE, or an NLMSG_ERROR with its verdict.                  *)

Datagrams == [news : SUBSET (Devices \X (LinkStates \ {"absent"})),
              tail : Verdicts \cup {"none", "DONE"}]

Ack(v) == [news |-> {}, tail |-> v]

\* The entries of a dump over the devices of S that exist in `link`.
News(link, S) == {<<d, link[d]>> : d \in {e \in S : link[e] # "absent"}}

\* The parts of a dump that fit one datagram: the kernel does not queue an
\* empty datagram before it has walked everything.
Parts(link, rest) == {S \in SUBSET rest : News(link, S) = {} => S = rest}

\* The datagram for part S of what is left of a dump.
Chunk(link, rest, S) ==
    [news |-> News(link, S),
     tail |-> IF S = rest /\ (News(link, S) = {} \/ ~DoneAlone)
              THEN "DONE" ELSE "none"]

-----------------------------------------------------------------------------
(* What the kernel answers to a change and what the change leaves behind.    *)

Judge(r, link, config) ==
    CASE r.type = "NEWADDR"  -> IF r.target \in config THEN "EEXIST" ELSE "OK"
      [] r.type = "DELADDR"  -> IF r.target \in config THEN "OK"
                                                       ELSE "EADDRNOTAVAIL"
      [] r.type = "NEWROUTE" -> "OK"
      [] r.type = "DELROUTE" -> IF r.target \in config THEN "OK" ELSE "ESRCH"
      [] r.type = "NEWLINK"  -> IF link[r.target] = "absent" THEN "ENODEV"
                                                             ELSE "OK"

NewConfig(r, config) ==
    CASE r.type \in {"NEWADDR", "NEWROUTE"} -> config \cup {r.target}
      [] r.type \in {"DELADDR", "DELROUTE"} -> config \ {r.target}
      [] r.type = "NEWLINK"                 -> config

NewLink(r, link) ==
    IF r.type = "NEWLINK" THEN [link EXCEPT ![r.target] = r.flags] ELSE link
=============================================================================
