---------------------------- MODULE AtomicCalls ----------------------------
(***************************************************************************)
(* What a program may rely on when it calls libnettool: no sockets, no     *)
(* buffers, no datagrams.  A change acts at most once, in one instant of   *)
(* its call, and a call that reads an answer reports the answer of that    *)
(* instant.  link_info returns something that was true during the call.    *)
(* A call may also act without knowing, or return without having acted.    *)
(***************************************************************************)
EXTENDS RtnlKernel

CONSTANTS
    Callers,    \* threads that call
    Ops,        \* the operations they use
    NoDev       \* the device of an operation without one

VARIABLES
    link,       \* the state of every device
    config,     \* the addresses and routes that are set
    calling,    \* the callers inside a call
    op,         \* the current or last operation of each caller
    dev,        \* and its device
    decision,   \* the kernel's verdict on the caller's change, if it acted
    answered,   \* whether the call that returned has read an answer
    report,     \* what it printed or returned
    witnessed   \* the states of its device since the call began

vars == <<link, config, calling, op, dev, decision, answered, report, witnessed>>

LinkOps == {"link_up", "link_down", "link_info"}

\* What every change asks of the kernel.
Requests(d) ==
    [ip_add      |-> [type |-> "NEWADDR", target |-> NewIp],
     ip_del      |-> [type |-> "DELADDR", target |-> DelIp],
     gateway_add |-> [type |-> "NEWROUTE", target |-> Gateway],
     gateway_del |-> [type |-> "DELROUTE", target |-> Gateway],
     link_up     |-> [type |-> "NEWLINK", target |-> d, flags |-> "up"],
     link_down   |-> [type |-> "NEWLINK", target |-> d, flags |-> "down"]]

Changes == DOMAIN Requests(NoDev)

\* How a verdict is worded.
Wording(v) == CASE v = "OK"            -> "Success"
                [] v = "EADDRNOTAVAIL" -> "Failed"
                [] v = "EPERM"         -> "Permission denied"
                [] OTHER               -> "errno"

\* The calls in progress see the devices as l has them.
Witness(l) ==
    witnessed' = [c \in Callers |->
                    IF c \in calling /\ dev[c] # NoDev
                    THEN witnessed[c] \cup {l[dev[c]]} ELSE witnessed[c]]

Init ==
    /\ link \in [Devices -> LinkStates]
    /\ config = {DelIp}
    /\ calling = {}
    /\ op = [c \in Callers |-> "none"]
    /\ dev = [c \in Callers |-> NoDev]
    /\ decision = [c \in Callers |-> "unsent"]
    /\ answered = [c \in Callers |-> FALSE]
    /\ report = [c \in Callers |-> "none"]
    /\ witnessed = [c \in Callers |-> {}]

Begin(c, o, d) ==
    /\ c \notin calling
    /\ calling' = calling \cup {c}
    /\ op' = [op EXCEPT ![c] = o]
    /\ dev' = [dev EXCEPT ![c] = IF o \in LinkOps THEN d ELSE NoDev]
    /\ decision' = [decision EXCEPT ![c] = "unsent"]
    /\ answered' = [answered EXCEPT ![c] = FALSE]
    /\ report' = [report EXCEPT ![c] = "none"]
    /\ witnessed' = [witnessed EXCEPT ![c] =
                        IF o \in LinkOps THEN {link[d]} ELSE {}]
    /\ UNCHANGED <<link, config>>

\* The instant of a change: the kernel decides once, and acts if it agrees.
Decide(c) ==
    /\ c \in calling
    /\ op[c] \in Changes
    /\ decision[c] = "unsent"
    /\ LET r == Requests(dev[c])[op[c]]
       IN  \E v \in {Judge(r, link, config)} \cup Refusals :
              /\ decision' = [decision EXCEPT ![c] = v]
              /\ link' = IF v = "OK" THEN NewLink(r, link) ELSE link
              /\ config' = IF v = "OK" THEN NewConfig(r, config) ELSE config
    /\ Witness(link')
    /\ UNCHANGED <<calling, op, dev, answered, report>>

\* What a call that has read an answer (a) may report as t.  Without an answer
\* the text of a change is anyone's guess, but "no device" always means that
\* nothing was asked for.
MayReport(c, a, t) ==
    \/ /\ op[c] \in Changes
       /\ a => decision[c] # "unsent" /\ t = Wording(decision[c])
       /\ t = "no device" => op[c] \in LinkOps /\ decision[c] = "unsent"
    \/ /\ op[c] = "link_info"
       /\ \/ t \in {"up", "down"} \cap witnessed[c]
          \/ t = "zero" /\ "absent" \in witnessed[c]
          \/ t = "no device" /\ ~a
    \/ /\ op[c] \in {"ip_show", "gateway_show"}
       /\ t = "none"

Return(c) ==
    /\ c \in calling
    /\ calling' = calling \ {c}
    /\ \E a \in BOOLEAN, t \in {"none", "Success", "Failed", "Permission denied",
                                "errno", "no device", "zero", "up", "down"} :
          /\ MayReport(c, a, t)
          /\ answered' = [answered EXCEPT ![c] = a]
          /\ report' = [report EXCEPT ![c] = t]
    /\ UNCHANGED <<link, config, op, dev, decision, witnessed>>

\* Somebody else changes a device.
LinkChange(d) ==
    \E s \in LinkStates \ {link[d]} :
        /\ link' = [link EXCEPT ![d] = s]
        /\ Witness(link')
        /\ UNCHANGED <<config, calling, op, dev, decision, answered, report>>

Next ==
    \/ \E c \in Callers, o \in Ops, d \in Devices : Begin(c, o, d)
    \/ \E c \in Callers : Decide(c) \/ Return(c)
    \/ \E d \in Devices : LinkChange(d)

Spec == Init /\ [][Next]_vars
=============================================================================
