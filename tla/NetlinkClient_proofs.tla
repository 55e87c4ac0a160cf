------------------------ MODULE NetlinkClient_proofs ------------------------
(***************************************************************************)
(* Theorems about NetlinkClient, for every set of callers and devices,     *)
(* every table size and every choice of faults.                            *)
(***************************************************************************)
EXTENDS NetlinkClient, Functions, SequenceTheorems, FiniteSetTheorems, TLAPS

-----------------------------------------------------------------------------
(* What the kernel's operators return.                                       *)

\* An acknowledgement is a datagram.
LEMMA AckIsDatagram ==
    ASSUME NEW v \in Verdicts
    PROVE  Ack(v) \in Datagrams
  BY DEF Ack, Datagrams

\* Every part of a dump that the kernel queues is a datagram, and it mentions
\* only devices that exist.
LEMMA ChunkIsDatagram ==
    ASSUME NEW l \in [Devices -> LinkStates],
           NEW left \in SUBSET Devices,
           NEW S \in SUBSET left
    PROVE  Chunk(l, left, S) \in Datagrams
  BY DEF Chunk, News, Datagrams, LinkStates

\* Whatever is asked, the verdict is one the parser can meet.
LEMMA JudgeIsVerdict ==
    ASSUME NEW r \in {add_ip, del_ip, add_gateway, del_gateway},
           NEW l, NEW g
    PROVE  /\ Judge(r, l, g) \in Verdicts
           /\ NewLink(r, l) = l
           /\ g \in SUBSET Objects => NewConfig(r, g) \in SUBSET Objects
  BY DEF Judge, NewLink, NewConfig, Verdicts, Objects, add_ip, del_ip,
         add_gateway, del_gateway

\* What the switch over the error prints is one of the texts.
LEMMA PrintedIsText ==
    ASSUME NEW h \in Headers
    PROVE  Printed(h) \in Texts
  BY DEF Printed, Texts

\* The first header of a datagram is one the parser knows.
LEMMA FirstHeaderIsHeader ==
    ASSUME NEW dg \in Datagrams
    PROVE  FirstHeader(dg) \in Headers
  BY DEF FirstHeader, Datagrams, Headers

-----------------------------------------------------------------------------
(* Type correctness.                                                         *)

\* The system calls a step of an operation can be, with the operations that make
\* them.
LEMMA StepCases ==
    ASSUME NEW c \in Callers, Step(c)
    PROVE  \/ Lookup(c) /\ op[c] \in LinkOps
           \/ Socket(c)
           \/ SendFails(c)
           \/ /\ \E r \in {add_ip, del_ip, add_gateway, del_gateway} :
                    SendChange(c, r)
              /\ op[c] \in AckOps
           \/ SendChange(c, link_up(c)) /\ op[c] \in SetOps
           \/ SendDump(c) /\ op[c] \in ShowOps \cup {"link_info"}
           \/ RecvAck(c) /\ op[c] \in AckOps \cup SetOps
           \/ RecvShow(c) /\ op[c] \in ShowOps
           \/ link_info_receive(c) /\ op[c] = "link_info"
           \/ UNCHANGED vars
           \/ Close(c) /\ op[c] \in LinkOps
  BY Zenon DEF Step, nettool_ip_add, ip_del, gateway_add, gateway_del,
         nettool_ip_show, gateway_show, nettool_link_up, nettool_link_info,
         ChangeCall, ShowCall, Spin, AckOps, ShowOps, SetOps, LinkOps

\* The states a call has seen stay device states.
LEMMA ObserveType ==
    ASSUME TypeOK, NEW l \in [Devices -> LinkStates], Observe(l)
    PROVE  seen' \in [Callers -> SUBSET LinkStates]
  BY DEF TypeOK, Observe

\* Queueing a part of a dump keeps the socket variables in their types.
LEMMA GenerateType ==
    ASSUME TypeOK, NEW f \in Fds, NEW q \in Seq(Datagrams),
           NEW left \in SUBSET Devices, NEW S \in SUBSET left,
           Generate(f, q, left, S)
    PROVE  /\ queue' \in [Fds -> Seq(Datagrams)]
           /\ rest' \in [Fds -> SUBSET Devices]
           /\ dumping' \in SUBSET Fds
  <1>1. Chunk(link, left, S) \in Datagrams
    BY ChunkIsDatagram DEF TypeOK
  <1>2. Append(q, Chunk(link, left, S)) \in Seq(Datagrams)
    BY <1>1
  <1>3. QED
    BY <1>2 DEF TypeOK, Generate

\* So does taking a datagram away.
LEMMA TakeType ==
    ASSUME TypeOK, NEW c \in Callers, Take(c)
    PROVE  /\ fd[c] \in Fds
           /\ queue[fd[c]] \in Seq(Datagrams)
           /\ queue[fd[c]] # <<>>
           /\ Head(queue[fd[c]]) \in Datagrams
           /\ queue' \in [Fds -> Seq(Datagrams)]
           /\ rest' \in [Fds -> SUBSET Devices]
           /\ dumping' \in SUBSET Fds
  <1>1. /\ fd[c] \in Fds
        /\ queue[fd[c]] \in Seq(Datagrams)
        /\ queue[fd[c]] # <<>>
        /\ rest[fd[c]] \in SUBSET Devices
    BY DEF TypeOK, Take
  <1>2. /\ Head(queue[fd[c]]) \in Datagrams
        /\ Tail(queue[fd[c]]) \in Seq(Datagrams)
    BY <1>1
  <1>3. CASE fd[c] \in dumping
    <2>1. PICK S \in Parts(link, rest[fd[c]]) :
                 Generate(fd[c], Tail(queue[fd[c]]), rest[fd[c]], S)
      BY <1>3 DEF Take
    <2>2. S \in SUBSET rest[fd[c]]
      BY DEF Parts
    <2>3. QED
      BY <1>1, <1>2, <2>1, <2>2, GenerateType
  <1>4. CASE fd[c] \notin dumping
    BY <1>1, <1>2, <1>4 DEF Take, TypeOK
  <1>5. QED
    BY <1>1, <1>2, <1>3, <1>4

\* A read leaves the socket variables and `heard` in their types.
LEMMA ReadType ==
    ASSUME TypeOK, NEW c \in Callers, NEW h \in Headers, util_get_msg(c, h)
    PROVE  /\ queue' \in [Fds -> Seq(Datagrams)]
           /\ rest' \in [Fds -> SUBSET Devices]
           /\ dumping' \in SUBSET Fds
           /\ heard' \in [Callers -> BOOLEAN]
  <1>1. heard' \in [Callers -> BOOLEAN]
    BY DEF util_get_msg, TypeOK
  <1>2. CASE Take(c)
    BY <1>1, <1>2, TakeType
  <1>3. CASE UNCHANGED <<queue, rest, dumping>>
    BY <1>1, <1>3 DEF TypeOK
  <1>4. QED
    BY <1>2, <1>3 DEF util_get_msg

\* Returning without close() records only real descriptors.
LEMMA ReturnType ==
    ASSUME TypeOK, NEW c \in Callers, ReturnLeaking(c)
    PROVE  /\ pc' \in [Callers -> {"idle", "lookup", "socket", "send", "recv",
                                   "close"}]
           /\ fd' \in [Callers -> Fds \cup {-1}]
           /\ buf' \in [Callers -> Headers \cup {"stack"}]
           /\ leaked' \in SUBSET Fds
  <1>1. {fd[c]} \ {-1} \in SUBSET Fds
    BY DEF TypeOK
  <1>2. QED
    BY <1>1 DEF ReturnLeaking, TypeOK

\* No variable starts outside its type.
LEMMA TypeInit == Init => TypeOK
  BY ClientAssumption DEF Init, TypeOK, Fds, Objects, Headers, Texts, Verdicts

\* No step of any call, and no change of a device, leads out of the types.
LEMMA TypeStep == TypeOK /\ [Next]_vars => TypeOK'
  <1> SUFFICES ASSUME TypeOK, [Next]_vars
               PROVE  TypeOK'
    OBVIOUS
  <1> USE DEF kernelVars, socketVars, callVars, history
  <1>1. ASSUME NEW c \in Callers, NEW o \in Ops, NEW d \in Devices, Call(c, o, d)
        PROVE  TypeOK'
    <2>1. /\ op' \in [Callers -> AckOps \cup ShowOps \cup LinkOps \cup {"none"}]
          /\ out' \in [Callers -> Texts]
      BY <1>1, ClientAssumption DEF Call, TypeOK, Texts
    <2>2. dev' \in [Callers -> Devices \cup {NoDev}]
      BY <1>1 DEF Call, TypeOK
    <2>3. seen' \in [Callers -> SUBSET LinkStates]
      <3>1. (IF o \in LinkOps THEN {link[d]} ELSE {}) \in SUBSET LinkStates
        BY DEF TypeOK
      <3>2. QED
        BY <1>1, <3>1 DEF Call, TypeOK
    <2>4. /\ verdict' \in [Callers -> Verdicts \cup {"unsent"}]
          /\ heard' \in [Callers -> BOOLEAN]
          /\ pc' \in [Callers -> {"idle", "lookup", "socket", "send", "recv",
                                  "close"}]
      BY <1>1 DEF Call, TypeOK
    <2>5. QED
      BY <1>1, <2>1, <2>2, <2>3, <2>4 DEF Call, TypeOK
  <1>2. ASSUME NEW d \in Devices, LinkChange(d)
        PROVE  TypeOK'
    <2>1. PICK s \in LinkStates : /\ link' = [link EXCEPT ![d] = s]
                                  /\ Observe([link EXCEPT ![d] = s])
      BY <1>2 DEF LinkChange
    <2>2. [link EXCEPT ![d] = s] \in [Devices -> LinkStates]
      BY DEF TypeOK
    <2>3. seen' \in [Callers -> SUBSET LinkStates]
      BY <2>1, <2>2, ObserveType
    <2>4. QED
      BY <1>2, <2>1, <2>2, <2>3 DEF LinkChange, TypeOK
  <1>3. ASSUME NEW c \in Callers, Lookup(c)
        PROVE  TypeOK'
    BY <1>3 DEF Lookup, TypeOK, Texts
  <1>4. ASSUME NEW c \in Callers, Socket(c)
        PROVE  TypeOK'
    BY <1>4 DEF Socket, TypeOK
  <1>5. ASSUME NEW c \in Callers, SendFails(c)
        PROVE  TypeOK'
    BY <1>5 DEF SendFails, TypeOK
  <1>6. ASSUME NEW c \in Callers, NEW r, SendChange(c, r),
               Judge(r, link, config) \in Verdicts,
               NewLink(r, link) \in [Devices -> LinkStates],
               NewConfig(r, config) \in SUBSET Objects
        PROVE  TypeOK'
    <2>1. PICK v \in {Judge(r, link, config)} \cup Refusals :
             /\ link' = IF v = "OK" THEN NewLink(r, link) ELSE link
             /\ config' = IF v = "OK" THEN NewConfig(r, config) ELSE config
             /\ verdict' = [verdict EXCEPT ![c] = v]
             /\ queue' = [queue EXCEPT ![fd[c]] = Append(@, Ack(v))]
             /\ Observe(IF v = "OK" THEN NewLink(r, link) ELSE link)
      BY <1>6 DEF SendChange
    <2>2. v \in Verdicts
      BY <1>6, KernelAssumption
    <2>3. /\ link' \in [Devices -> LinkStates]
          /\ config' \in SUBSET Objects
          /\ seen' \in [Callers -> SUBSET LinkStates]
      BY <1>6, <2>1, ObserveType DEF TypeOK
    <2>4. fd[c] \in Fds /\ queue[fd[c]] \in Seq(Datagrams)
      BY <1>6 DEF SendChange, TypeOK
    <2>5. queue' \in [Fds -> Seq(Datagrams)]
      BY <2>1, <2>2, <2>4, AckIsDatagram DEF TypeOK
    <2>6. QED
      BY <1>6, <2>1, <2>2, <2>3, <2>5 DEF SendChange, TypeOK
  <1>7. ASSUME NEW c \in Callers, SendDump(c)
        PROVE  TypeOK'
    <2>1. fd[c] \in Fds /\ queue[fd[c]] \in Seq(Datagrams)
      BY <1>7 DEF SendDump, TypeOK
    <2>2. ASSUME NEW S \in Parts(link, Devices),
                 Generate(fd[c], queue[fd[c]], Devices, S),
                 verdict' = [verdict EXCEPT ![c] = "OK"]
          PROVE  TypeOK'
      <3>1. /\ queue' \in [Fds -> Seq(Datagrams)]
            /\ rest' \in [Fds -> SUBSET Devices]
            /\ dumping' \in SUBSET Fds
        BY <2>1, <2>2, GenerateType DEF Parts
      <3>2. QED
        BY <1>7, <2>2, <3>1 DEF SendDump, TypeOK, Verdicts
    <2>3. ASSUME NEW v \in Refusals,
                 queue' = [queue EXCEPT ![fd[c]] = Append(@, Ack(v))],
                 verdict' = [verdict EXCEPT ![c] = v],
                 UNCHANGED <<rest, dumping>>
          PROVE  TypeOK'
      <3>1. v \in Verdicts
        BY KernelAssumption
      <3>2. queue' \in [Fds -> Seq(Datagrams)]
        BY <2>1, <2>3, <3>1, AckIsDatagram DEF TypeOK
      <3>3. QED
        BY <1>7, <2>3, <3>1, <3>2 DEF SendDump, TypeOK
    <2>4. QED
      BY <1>7, <2>2, <2>3 DEF SendDump
  <1>8. ASSUME NEW c \in Callers, RecvAck(c)
        PROVE  TypeOK'
    <2>1. PICK h \in Headers : /\ util_get_msg(c, h)
                               /\ out' = [out EXCEPT ![c] = Printed(h)]
      BY <1>8 DEF RecvAck
    <2>2. /\ queue' \in [Fds -> Seq(Datagrams)]
          /\ rest' \in [Fds -> SUBSET Devices]
          /\ dumping' \in SUBSET Fds
          /\ heard' \in [Callers -> BOOLEAN]
          /\ Printed(h) \in Texts
      BY <2>1, ReadType, PrintedIsText
    <2>3. /\ pc' \in [Callers -> {"idle", "lookup", "socket", "send", "recv",
                                  "close"}]
          /\ fd' \in [Callers -> Fds \cup {-1}]
          /\ buf' \in [Callers -> Headers \cup {"stack"}]
          /\ leaked' \in SUBSET Fds
      BY <1>8, ReturnType DEF RecvAck, TypeOK
    <2>4. QED
      BY <1>8, <2>1, <2>2, <2>3 DEF RecvAck, TypeOK
  <1>9. ASSUME NEW c \in Callers, RecvShow(c)
        PROVE  TypeOK'
    <2>1. PICK h \in Headers :
             /\ util_get_msg(c, h)
             /\ IF h = "entry"
                THEN buf' = [buf EXCEPT ![c] = h] /\ UNCHANGED <<pc, fd, leaked>>
                ELSE ReturnLeaking(c)
      BY <1>9 DEF RecvShow
    <2>2. /\ queue' \in [Fds -> Seq(Datagrams)]
          /\ rest' \in [Fds -> SUBSET Devices]
          /\ dumping' \in SUBSET Fds
          /\ heard' \in [Callers -> BOOLEAN]
      BY <2>1, ReadType
    <2>3. /\ pc' \in [Callers -> {"idle", "lookup", "socket", "send", "recv",
                                  "close"}]
          /\ fd' \in [Callers -> Fds \cup {-1}]
          /\ buf' \in [Callers -> Headers \cup {"stack"}]
          /\ leaked' \in SUBSET Fds
      BY <2>1, ReturnType DEF TypeOK
    <2>4. QED
      BY <1>9, <2>2, <2>3 DEF RecvShow, TypeOK
  <1>10. ASSUME NEW c \in Callers, link_info_receive(c)
         PROVE  TypeOK'
    <2>1. /\ Head(queue[fd[c]]) \in Datagrams
          /\ queue' \in [Fds -> Seq(Datagrams)]
          /\ rest' \in [Fds -> SUBSET Devices]
          /\ dumping' \in SUBSET Fds
      BY <1>10, TakeType DEF link_info_receive
    <2>2. \A n \in Head(queue[fd[c]]).news : n[2] \in Texts
      BY <2>1 DEF Datagrams, LinkStates, Texts
    <2>3. /\ out' \in [Callers -> Texts]
          /\ pc' \in [Callers -> {"idle", "lookup", "socket", "send", "recv",
                                  "close"}]
      BY <1>10, <2>2 DEF link_info_receive, TypeOK
    <2>4. QED
      BY <1>10, <2>1, <2>3 DEF link_info_receive, TypeOK
  <1>11. ASSUME NEW c \in Callers, Close(c)
         PROVE  TypeOK'
    <2>1. {fd[c]} \ {-1} \in SUBSET Fds
      BY DEF TypeOK
    <2>2. /\ leaked' \in SUBSET Fds
          /\ open' \in SUBSET Fds
          /\ queue' \in [Fds -> Seq(Datagrams)]
          /\ rest' \in [Fds -> SUBSET Devices]
          /\ dumping' \in SUBSET Fds
      <3>1. CASE fd[c] \in {0, -1}
        BY <1>11, <2>1, <3>1 DEF Close, TypeOK
      <3>2. CASE fd[c] \notin {0, -1}
        <4>1. <<>> \in Seq(Datagrams)
          OBVIOUS
        <4>2. QED
          BY <1>11, <3>2, <4>1 DEF Close, TypeOK
      <3>3. QED
        BY <3>1, <3>2
    <2>3. QED
      BY <1>11, <2>2 DEF Close, TypeOK
  <1>12. CASE UNCHANGED vars
    BY <1>12 DEF vars, TypeOK
  <1>13. ASSUME NEW c \in Callers, Step(c)
         PROVE  TypeOK'
    <2>1. ASSUME NEW r \in {add_ip, del_ip, add_gateway, del_gateway},
                 SendChange(c, r)
          PROVE  TypeOK'
      BY <1>6, <2>1, JudgeIsVerdict DEF TypeOK
    <2>2. CASE SendChange(c, link_up(c))
      <3>1. /\ Judge(link_up(c), link, config) \in Verdicts
            /\ NewLink(link_up(c), link) \in [Devices -> LinkStates]
            /\ NewConfig(link_up(c), config) \in SUBSET Objects
        BY DEF Judge, NewLink, NewConfig, Verdicts, LinkStates, link_up, TypeOK
      <3>2. QED
        BY <1>6, <2>2, <3>1
    <2>3. QED
      BY <1>3, <1>4, <1>5, <1>7, <1>8, <1>9, <1>10, <1>11, <1>12, <1>13,
         <2>1, <2>2, StepCases
  <1>14. QED
    BY <1>1, <1>2, <1>12, <1>13 DEF Next

\* Whatever the callers do and whatever fails, every variable keeps its type: no
\* descriptor outside the table is kept and no text other than those of the
\* source is printed.
THEOREM TypeCorrect == Spec => []TypeOK
  BY TypeInit, TypeStep, PTL DEF Spec

-----------------------------------------------------------------------------
(* Descriptors.                                                              *)

\* A call that gets a free descriptor is its only holder.
LEMMA Acquire ==
    ASSUME TypeOK, DescriptorsAccounted, NEW c \in Callers, NEW f \in Fds \ open,
           fd[c] = -1, fd' = [fd EXCEPT ![c] = f], open' = open \cup {f},
           UNCHANGED leaked
    PROVE  DescriptorsAccounted'
  <1>1. f # -1 /\ f \notin Held /\ f \notin Inherited /\ f \notin leaked
    BY DEF DescriptorsAccounted, Fds
  <1>2. \A e \in Callers : fd'[e] = IF e = c THEN f ELSE fd[e]
    BY DEF TypeOK
  <1>3. Held' = Held \cup {f}
    BY <1>1, <1>2 DEF Held
  <1>4. \A e \in Callers : e # c => fd[e] # f
    BY <1>1 DEF Held
  <1>5. \A b, e \in Callers : b # e /\ fd'[b] # -1 => fd'[b] # fd'[e]
    BY <1>1, <1>2, <1>4 DEF DescriptorsAccounted
  <1>6. QED
    BY <1>1, <1>3, <1>5 DEF DescriptorsAccounted

\* A call that gives up its descriptor f was its only holder; f is then closed,
\* or leaked.
LEMMA Release ==
    ASSUME TypeOK, DescriptorsAccounted, NEW c \in Callers,
           fd' = [fd EXCEPT ![c] = -1],
           \/ open' = open \ {fd[c]} /\ leaked' = leaked
           \/ open' = open /\ leaked' = leaked \cup ({fd[c]} \ {-1})
    PROVE  DescriptorsAccounted'
  <1>1. \A e \in Callers : fd'[e] = IF e = c THEN -1 ELSE fd[e]
    BY DEF TypeOK
  <1>2. Held' = Held \ {fd[c]}
    BY <1>1 DEF Held, DescriptorsAccounted
  <1>3. -1 \notin open
    BY DEF TypeOK, Fds
  <1>4. fd[c] # -1 => fd[c] \in Held
    BY DEF Held
  <1>5. \A b, e \in Callers : b # e /\ fd'[b] # -1 => fd'[b] # fd'[e]
    BY <1>1 DEF DescriptorsAccounted
  <1>6. QED
    BY <1>2, <1>3, <1>4, <1>5 DEF DescriptorsAccounted

\* Steps that neither open, close nor return keep the account.
LEMMA Keep ==
    ASSUME DescriptorsAccounted, UNCHANGED <<open, fd, leaked>>
    PROVE  DescriptorsAccounted'
  BY DEF DescriptorsAccounted, Held

\* The account of descriptors survives every step of a call.
LEMMA AccountStep ==
    ASSUME IInv, NEW c \in Callers, Step(c)
    PROVE  DescriptorsAccounted'
  <1> USE DEF kernelVars, socketVars, callVars, history
  <1>1. TypeOK /\ DescriptorsAccounted /\ CallShape
    BY DEF IInv
  <1>2. CASE Lookup(c) \/ SendFails(c) \/ SendDump(c) \/ link_info_receive(c)
    BY <1>1, <1>2, Keep DEF Lookup, SendFails, SendDump, link_info_receive
  <1>3. CASE Socket(c)
    <2>1. fd[c] = -1
      BY <1>1, <1>3 DEF Socket, CallShape
    <2>2. CASE UNCHANGED open
      <3>1. UNCHANGED fd
        BY <1>1, <1>3, <2>1, <2>2 DEF Socket, TypeOK
      <3>2. QED
        BY <1>1, <1>3, <2>2, <3>1, Keep DEF Socket
    <2>3. CASE ~UNCHANGED open
      <3>1. PICK f \in Fds \ open : /\ fd' = [fd EXCEPT ![c] = f]
                                    /\ open' = open \cup {f}
        BY <1>3, <2>3 DEF Socket
      <3>2. QED
        BY <1>1, <1>3, <2>1, <3>1, Acquire DEF Socket
    <2>4. QED
      BY <2>2, <2>3
  <1>4. ASSUME NEW r, SendChange(c, r)
        PROVE  DescriptorsAccounted'
    BY <1>1, <1>4, Keep DEF SendChange
  <1>5. ASSUME ReturnLeaking(c), UNCHANGED open
        PROVE  DescriptorsAccounted'
    BY <1>1, <1>5, Release DEF ReturnLeaking
  <1>6. CASE RecvAck(c)
    BY <1>1, <1>5, <1>6, Keep DEF RecvAck
  <1>7. CASE RecvShow(c)
    BY <1>1, <1>5, <1>7, Keep DEF RecvShow
  <1>8. CASE Close(c)
    BY <1>1, <1>8, Release DEF Close
  <1>9. CASE UNCHANGED vars
    BY <1>1, <1>9, Keep DEF vars
  <1>10. QED
    BY <1>2, <1>3, <1>4, <1>6, <1>7, <1>8, <1>9, StepCases

-----------------------------------------------------------------------------
(* The shape of a call.                                                      *)

\* Every step of a call keeps the shape of the calls: a descriptor only from
\* socket() on, a verdict only from sendmsg() on, an answer only after that.
LEMMA ShapeStep ==
    ASSUME IInv, NEW c \in Callers, Step(c)
    PROVE  CallShape'
  <1> USE DEF kernelVars, socketVars, callVars, history
  <1>1. TypeOK /\ CallShape
    BY DEF IInv
  <1>2. CASE Lookup(c)
    BY <1>1, <1>2 DEF Lookup, CallShape, Before, TypeOK
  <1>3. CASE Socket(c)
    BY <1>1, <1>3 DEF Socket, CallShape, Before, TypeOK
  <1>4. CASE SendFails(c)
    BY <1>1, <1>4 DEF SendFails, CallShape, Before, TypeOK
  <1>5. ASSUME NEW r, SendChange(c, r)
        PROVE  CallShape'
    <2>1. PICK v \in {Judge(r, link, config)} \cup Refusals :
             verdict' = [verdict EXCEPT ![c] = v]
      BY <1>5 DEF SendChange
    <2>2. QED
      BY <1>1, <1>5, <2>1 DEF SendChange, CallShape, Before, TypeOK
  <1>6. CASE SendDump(c)
    <2>1. PICK v : verdict' = [verdict EXCEPT ![c] = v]
      BY <1>6 DEF SendDump
    <2>2. QED
      BY <1>1, <1>6, <2>1 DEF SendDump, CallShape, Before, TypeOK
  <1>7. ASSUME NEW b, heard' = [heard EXCEPT ![c] = b], pc[c] = "recv",
               UNCHANGED <<op, verdict, dev>>,
               \/ ReturnLeaking(c)
               \/ pc' = [pc EXCEPT ![c] = "close"] /\ UNCHANGED fd
               \/ UNCHANGED <<pc, fd>>
        PROVE  CallShape'
    BY <1>1, <1>7 DEF ReturnLeaking, CallShape, Before, TypeOK
  <1>8. ASSUME NEW h, util_get_msg(c, h)
        PROVE  \E b : heard' = [heard EXCEPT ![c] = b]
    BY <1>8 DEF util_get_msg
  <1>9. CASE RecvAck(c)
    BY <1>7, <1>8, <1>9 DEF RecvAck
  <1>10. CASE RecvShow(c)
    BY <1>7, <1>8, <1>10 DEF RecvShow
  <1>11. CASE link_info_receive(c)
    BY <1>1, <1>11 DEF link_info_receive, CallShape, Before, TypeOK
  <1>12. CASE Close(c)
    BY <1>1, <1>12 DEF Close, CallShape, Before, TypeOK
  <1>13. CASE UNCHANGED vars
    BY <1>1, <1>13 DEF vars, CallShape, Before
  <1>14. QED
    BY <1>2, <1>3, <1>4, <1>5, <1>6, <1>9, <1>10, <1>11, <1>12, <1>13, StepCases

-----------------------------------------------------------------------------
(* Answers.                                                                  *)

\* The two invariants about what sockets hold, for one of its steps.
Clean == ClosedIsClean /\ AnswersAreMine

\* No other call uses the descriptor of this one.
LEMMA Exclusive ==
    ASSUME IInv, NEW c \in Callers, NEW e \in Callers, e # c, fd[c] # -1
    PROVE  fd[e] # fd[c] /\ fd[c] \in open /\ fd[c] \in Fds
  BY DEF IInv, DescriptorsAccounted, Held, TypeOK

\* A step that leaves descriptor f of the other calls alone, and keeps this
\* call's own answers straight, keeps everybody's.
LEMMA OthersClean ==
    ASSUME IInv, NEW c \in Callers,
           \A e \in Callers : e # c => /\ fd'[e] = fd[e]
                                       /\ pc'[e] = pc[e]
                                       /\ op'[e] = op[e]
                                       /\ verdict'[e] = verdict[e],
           \A f \in Fds : f # fd[c] => /\ queue'[f] = queue[f]
                                       /\ f \in dumping' <=> f \in dumping,
           \A f \in Fds \ open' :
              \/ f # fd[c] /\ f \notin open
              \/ queue'[f] = <<>> /\ f \notin dumping',
           fd'[c] # -1 =>
              /\ pc'[c] = "send" => queue'[fd'[c]] = <<>> /\ fd'[c] \notin dumping'
              /\ pc'[c] = "recv" /\ op'[c] \in AckOps \cup SetOps =>
                    /\ queue'[fd'[c]] = IF verdict'[c] = "unsent" THEN <<>>
                                        ELSE <<Ack(verdict'[c])>>
                    /\ fd'[c] \notin dumping'
    PROVE  Clean'
  <1>1. /\ TypeOK
        /\ \A f \in Fds \ open : queue[f] = <<>> /\ f \notin dumping
        /\ AnswersAreMine /\ ClosedIsClean
    BY DEF IInv, ClosedIsClean
  <1>2. \A f \in Fds \ open' : queue'[f] = <<>> /\ f \notin dumping'
    BY <1>1
  <1>3. ASSUME NEW e \in Callers, e # c, fd[e] # -1
        PROVE  /\ queue'[fd[e]] = queue[fd[e]]
               /\ fd[e] \in dumping' <=> fd[e] \in dumping
    <2>1. fd[e] \in Fds
      BY <1>1, <1>3 DEF TypeOK
    <2>2. fd[e] # fd[c]
      BY <1>3, Exclusive
    <2>3. QED
      BY <2>1, <2>2
  <1>4. ASSUME NEW e \in Callers, fd'[e] # -1
        PROVE  /\ pc'[e] = "send" => queue'[fd'[e]] = <<>> /\ fd'[e] \notin dumping'
               /\ pc'[e] = "recv" /\ op'[e] \in AckOps \cup SetOps =>
                     /\ queue'[fd'[e]] = IF verdict'[e] = "unsent" THEN <<>>
                                         ELSE <<Ack(verdict'[e])>>
                     /\ fd'[e] \notin dumping'
    <2>1. CASE e = c
      BY <1>4, <2>1
    <2>2. CASE e # c
      BY <1>1, <1>3, <1>4, <2>2 DEF AnswersAreMine, ClosedIsClean
    <2>3. QED
      BY <2>1, <2>2
  <1>5. QED
    BY <1>2, <1>4 DEF Clean, ClosedIsClean, AnswersAreMine

\* A step that reads from this call's socket, and does not go on to read an
\* acknowledgement, keeps the sockets clean.
LEMMA ReadClean ==
    ASSUME IInv, NEW c \in Callers,
           \A e \in Callers : e # c => /\ fd'[e] = fd[e]
                                       /\ pc'[e] = pc[e]
                                       /\ op'[e] = op[e]
                                       /\ verdict'[e] = verdict[e],
           \A f \in Fds : f # fd[c] => /\ queue'[f] = queue[f]
                                       /\ f \in dumping' <=> f \in dumping,
           fd[c] \in open \/ UNCHANGED <<queue, dumping>>,
           open' = open,
           pc'[c] # "send",
           pc'[c] = "recv" => op'[c] \notin AckOps \cup SetOps
    PROVE  Clean'
  <1>1. \A f \in Fds \ open : queue[f] = <<>> /\ f \notin dumping
    BY DEF IInv, ClosedIsClean
  <1>2. ASSUME NEW f \in Fds \ open'
        PROVE  \/ f # fd[c] /\ f \notin open
               \/ queue'[f] = <<>> /\ f \notin dumping'
    BY <1>1
  <1>3. QED
    BY <1>2, OthersClean

\* Sockets stay clean through every step of a call.
LEMMA CleanStep ==
    ASSUME IInv, NEW c \in Callers, Step(c)
    PROVE  Clean'
  <1> USE DEF kernelVars, socketVars, callVars, history
  <1>1. /\ TypeOK
        /\ CallShape
        /\ \A f \in Fds \ open : queue[f] = <<>> /\ f \notin dumping
        /\ AnswersAreMine /\ ClosedIsClean
    BY DEF IInv, ClosedIsClean
  <1>2. CASE Lookup(c)
    <2>1. UNCHANGED <<open, queue, dumping, fd, op, verdict>>
      BY <1>2 DEF Lookup
    <2>2. /\ \A e \in Callers : e # c => pc'[e] = pc[e]
          /\ pc'[c] \notin {"send", "recv"}
      BY <1>1, <1>2 DEF Lookup, TypeOK
    <2>3. fd[c] = -1
      BY <1>1, <1>2 DEF Lookup, CallShape
    <2>4. QED
      BY <1>1, <2>1, <2>2, <2>3, OthersClean
  <1>3. CASE Socket(c)
    <2>1. fd[c] = -1 /\ fd[c] \notin Fds
      BY <1>1, <1>3 DEF Socket, CallShape, Fds
    <2>2. /\ \A e \in Callers : e # c => /\ fd'[e] = fd[e]
                                         /\ pc'[e] = pc[e]
                                         /\ op'[e] = op[e]
                                         /\ verdict'[e] = verdict[e]
          /\ UNCHANGED <<queue, dumping>>
          /\ pc'[c] = "send"
      BY <1>1, <1>3 DEF Socket, TypeOK
    <2>3. open \subseteq open'
      BY <1>3 DEF Socket
    <2>4. fd'[c] # -1 => fd'[c] \in Fds \ open
      BY <1>1, <1>3 DEF Socket, TypeOK
    <2>5. QED
      BY <1>1, <2>1, <2>2, <2>3, <2>4, OthersClean
  <1>4. CASE SendFails(c)
    <2>1. fd[c] # -1 => queue[fd[c]] = <<>> /\ fd[c] \notin dumping
      BY <1>1, <1>4 DEF SendFails, AnswersAreMine
    <2>2. verdict[c] = "unsent"
      BY <1>1, <1>4 DEF SendFails, CallShape, Before
    <2>3. fd[c] # -1 => fd[c] \in open
      BY DEF IInv, DescriptorsAccounted, Held
    <2>4. QED
      BY <1>1, <1>4, <2>1, <2>2, <2>3, OthersClean DEF SendFails, TypeOK
  <1>5. ASSUME NEW r, SendChange(c, r), Judge(r, link, config) \in Verdicts
        PROVE  Clean'
    <2>1. PICK v \in {Judge(r, link, config)} \cup Refusals :
             /\ verdict' = [verdict EXCEPT ![c] = v]
             /\ queue' = [queue EXCEPT ![fd[c]] = Append(@, Ack(v))]
      BY <1>5 DEF SendChange
    <2>2. v \in Verdicts /\ v # "unsent"
      BY <1>5, KernelAssumption DEF Verdicts
    <2>3. /\ fd[c] \in Fds
          /\ fd[c] \in open
          /\ queue[fd[c]] = <<>>
          /\ fd[c] \notin dumping
      BY <1>1, <1>5 DEF SendChange, AnswersAreMine, TypeOK, IInv,
                        DescriptorsAccounted, Held
    <2>4. queue'[fd[c]] = <<Ack(v)>>
      BY <1>1, <2>1, <2>3 DEF TypeOK
    <2>5. \A f \in Fds : f # fd[c] => queue'[f] = queue[f]
      BY <1>1, <2>1 DEF TypeOK
    <2>6. verdict'[c] = v /\ fd'[c] = fd[c] /\ pc'[c] = "recv"
      BY <1>1, <1>5, <2>1 DEF SendChange, TypeOK
    <2>7. /\ \A e \in Callers : e # c => /\ fd'[e] = fd[e]
                                         /\ pc'[e] = pc[e]
                                         /\ op'[e] = op[e]
                                         /\ verdict'[e] = verdict[e]
          /\ open' = open
          /\ dumping' = dumping
      BY <1>1, <1>5, <2>1 DEF SendChange, TypeOK
    <2>8. \A f \in Fds \ open' : f # fd[c] /\ f \notin open
      BY <2>3, <2>7
    <2>9. QED
      BY <2>2, <2>3, <2>4, <2>5, <2>6, <2>7, <2>8, OthersClean
  <1>6. ASSUME NEW f \in Fds, NEW q, NEW left, NEW S, Generate(f, q, left, S)
        PROVE  \A g \in Fds : g # f => /\ queue'[g] = queue[g]
                                       /\ g \in dumping' <=> g \in dumping
    BY <1>1, <1>6 DEF Generate, TypeOK
  <1>7. CASE SendDump(c) /\ op[c] \in ShowOps \cup {"link_info"}
    <2>1. fd[c] \in Fds /\ fd[c] \in open
      BY <1>1, <1>7 DEF SendDump, TypeOK, IInv, DescriptorsAccounted, Held
    <2>2. \A f \in Fds : f # fd[c] => /\ queue'[f] = queue[f]
                                      /\ f \in dumping' <=> f \in dumping
      BY <1>1, <1>6, <1>7, <2>1 DEF SendDump, TypeOK
    <2>3. op[c] \notin AckOps \cup SetOps
      BY <1>7 DEF AckOps, SetOps, ShowOps
    <2>4. \A e \in Callers : e # c => /\ fd'[e] = fd[e]
                                      /\ pc'[e] = pc[e]
                                      /\ op'[e] = op[e]
                                      /\ verdict'[e] = verdict[e]
      BY <1>1, <1>7 DEF SendDump, TypeOK
    <2>5. pc'[c] = "recv" /\ op'[c] = op[c] /\ open' = open
      BY <1>1, <1>7 DEF SendDump, TypeOK
    <2>6. QED
      BY <1>1, <2>1, <2>2, <2>3, <2>4, <2>5, OthersClean
  <1>8. ASSUME Take(c)
        PROVE  /\ fd[c] \in Fds /\ fd[c] \in open
               /\ \A f \in Fds : f # fd[c] => /\ queue'[f] = queue[f]
                                              /\ f \in dumping' <=> f \in dumping
    <2>1. fd[c] \in Fds /\ fd[c] \in open
      BY <1>1, <1>8 DEF Take, TypeOK, IInv, DescriptorsAccounted, Held
    <2>2. CASE fd[c] \in dumping
      BY <1>6, <1>8, <2>1, <2>2 DEF Take
    <2>3. CASE fd[c] \notin dumping
      BY <1>1, <1>8, <2>1, <2>3 DEF Take, TypeOK
    <2>4. QED
      BY <2>1, <2>2, <2>3
  <1>9. ASSUME NEW h, util_get_msg(c, h)
        PROVE  /\ \A f \in Fds : f # fd[c] =>
                     /\ queue'[f] = queue[f]
                     /\ f \in dumping' <=> f \in dumping
               /\ \/ fd[c] \in open
                  \/ UNCHANGED <<queue, dumping>>
    BY <1>8, <1>9 DEF util_get_msg
  <1>10. CASE RecvAck(c)
    <2>1. \A f \in Fds : f # fd[c] => /\ queue'[f] = queue[f]
                                      /\ f \in dumping' <=> f \in dumping
      BY <1>9, <1>10 DEF RecvAck
    <2>2. fd[c] \in open \/ UNCHANGED <<queue, dumping>>
      BY <1>9, <1>10 DEF RecvAck
    <2>3. /\ \A e \in Callers : e # c => /\ fd'[e] = fd[e]
                                         /\ pc'[e] = pc[e]
                                         /\ op'[e] = op[e]
                                         /\ verdict'[e] = verdict[e]
          /\ pc'[c] \in {"idle", "close"}
          /\ open' = open
      BY <1>1, <1>10 DEF RecvAck, ReturnLeaking, TypeOK
    <2>4. QED
      BY <2>1, <2>2, <2>3, ReadClean
  <1>11. CASE RecvShow(c) /\ op[c] \in ShowOps
    <2>1. \A f \in Fds : f # fd[c] => /\ queue'[f] = queue[f]
                                      /\ f \in dumping' <=> f \in dumping
      BY <1>9, <1>11 DEF RecvShow
    <2>2. fd[c] \in open \/ UNCHANGED <<queue, dumping>>
      BY <1>9, <1>11 DEF RecvShow
    <2>3. /\ \A e \in Callers : e # c => /\ fd'[e] = fd[e]
                                         /\ pc'[e] = pc[e]
                                         /\ op'[e] = op[e]
                                         /\ verdict'[e] = verdict[e]
          /\ pc'[c] # "send"
          /\ op'[c] \notin AckOps \cup SetOps
          /\ open' = open
      BY <1>1, <1>11 DEF RecvShow, ReturnLeaking, TypeOK, AckOps, SetOps, ShowOps
    <2>4. QED
      BY <2>1, <2>2, <2>3, ReadClean
  <1>12. CASE link_info_receive(c) /\ op[c] = "link_info"
    <2>1. /\ \A e \in Callers : e # c => /\ fd'[e] = fd[e]
                                         /\ pc'[e] = pc[e]
                                         /\ op'[e] = op[e]
                                         /\ verdict'[e] = verdict[e]
          /\ pc'[c] # "send"
          /\ op'[c] \notin AckOps \cup SetOps
          /\ open' = open
      BY <1>1, <1>12 DEF link_info_receive, TypeOK, AckOps, SetOps
    <2>2. Take(c)
      BY <1>12 DEF link_info_receive
    <2>3. QED
      BY <1>8, <2>1, <2>2, ReadClean
  <1>13. CASE Close(c)
    <2>1. /\ \A e \in Callers : e # c => /\ fd'[e] = fd[e]
                                         /\ pc'[e] = pc[e]
                                         /\ op'[e] = op[e]
                                         /\ verdict'[e] = verdict[e]
          /\ fd'[c] = -1
      BY <1>1, <1>13 DEF Close, TypeOK
    <2>2. /\ \A f \in Fds : f # fd[c] => /\ queue'[f] = queue[f]
                                         /\ f \in dumping' <=> f \in dumping
          /\ \A f \in Fds \ open' :
                \/ f # fd[c] /\ f \notin open
                \/ queue'[f] = <<>> /\ f \notin dumping'
      <3>1. CASE fd[c] \in {0, -1}
        BY <1>1, <1>13, <3>1 DEF Close, TypeOK
      <3>2. CASE fd[c] \notin {0, -1}
        BY <1>1, <1>13, <3>2 DEF Close, TypeOK
      <3>3. QED
        BY <3>1, <3>2
    <2>3. QED
      BY <2>1, <2>2, OthersClean
  <1>14. CASE UNCHANGED vars
    BY <1>1, <1>14 DEF vars, Clean, ClosedIsClean, AnswersAreMine
  <1>15. ASSUME NEW r \in {add_ip, del_ip, add_gateway, del_gateway},
                SendChange(c, r)
         PROVE  Clean'
    BY <1>5, <1>15, JudgeIsVerdict
  <1>16. CASE SendChange(c, link_up(c))
    <2>1. Judge(link_up(c), link, config) \in Verdicts
      BY DEF Judge, Verdicts, link_up
    <2>2. QED
      BY <1>5, <1>16, <2>1
  <1>17. QED
    BY <1>2, <1>3, <1>4, <1>7, <1>10, <1>11, <1>12, <1>13, <1>14, <1>15, <1>16,
       StepCases

-----------------------------------------------------------------------------
(* Verdicts.                                                                 *)

\* The parser reads an acknowledgement for what it says.
LEMMA AckIsRead ==
    ASSUME NEW v \in Verdicts
    PROVE  FirstHeader(Head(<<Ack(v)>>)) = v
  BY DEF FirstHeader, Ack, Verdicts

\* What VerdictStands says of one call.
Stands(c) ==
    /\ pc[c] \in {"close", "idle"} /\ op[c] \in AckOps \cup SetOps
           /\ heard[c] => out[c] = Printed(verdict[c])
    /\ op[c] \in SetOps /\ verdict[c] = "OK" =>
           (IF op[c] = "link_up" THEN "up" ELSE "down") \in seen[c]

\* A call that is left alone, but may see its device change, is left standing.
LEMMA StandsKept ==
    ASSUME NEW e \in Callers, Stands(e),
           pc'[e] = pc[e], op'[e] = op[e], heard'[e] = heard[e],
           out'[e] = out[e], verdict'[e] = verdict[e],
           seen[e] \subseteq seen'[e]
    PROVE  Stands(e)'
  BY DEF Stands

\* What a call has seen is not forgotten while it goes on.
LEMMA ObserveGrows ==
    ASSUME TypeOK, NEW l, Observe(l), NEW e \in Callers
    PROVE  seen[e] \subseteq seen'[e]
  BY DEF TypeOK, Observe

\* What a change reports stays what the kernel decided, through every step of a
\* call: the only read of a change finds its own acknowledgement.
LEMMA VerdictStep ==
    ASSUME IInv, NEW c \in Callers, Step(c)
    PROVE  VerdictStands'
  <1> USE DEF kernelVars, socketVars, callVars, history
  <1>1. /\ TypeOK
        /\ CallShape
        /\ AnswersAreMine
        /\ \A e \in Callers : Stands(e)
    BY DEF IInv, VerdictStands, Stands
  <1> SUFFICES ASSUME NEW e \in Callers
               PROVE  Stands(e)'
    BY DEF VerdictStands, Stands
  <1>2. CASE Lookup(c)
    BY <1>1, <1>2 DEF Lookup, CallShape, Before, Stands, TypeOK
  <1>3. CASE Socket(c)
    BY <1>1, <1>3 DEF Socket, CallShape, Before, Stands, TypeOK
  <1>4. CASE SendFails(c)
    BY <1>1, <1>4 DEF SendFails, CallShape, Before, Stands, TypeOK
  <1>5. ASSUME NEW r, SendChange(c, r)
        PROVE  /\ e # c => Stands(e)'
               /\ op[c] \notin SetOps => Stands(c)'
    <2>1. PICK v \in {Judge(r, link, config)} \cup Refusals :
             /\ verdict' = [verdict EXCEPT ![c] = v]
             /\ Observe(IF v = "OK" THEN NewLink(r, link) ELSE link)
      BY <1>5 DEF SendChange
    <2>2. seen[e] \subseteq seen'[e]
      BY <1>1, <2>1, ObserveGrows
    <2>3. e # c => Stands(e)'
      BY <1>1, <1>5, <2>1, <2>2, StandsKept DEF SendChange, TypeOK
    <2>4. pc'[c] = "recv" /\ op'[c] = op[c]
      BY <1>1, <1>5 DEF SendChange, TypeOK
    <2>5. op[c] \notin SetOps => Stands(c)'
      BY <2>4 DEF Stands
    <2>6. QED
      BY <2>3, <2>5
  <1>6. ASSUME SendChange(c, link_up(c)), op[c] \in SetOps
        PROVE  Stands(c)'
    <2>1. PICK v \in {Judge(link_up(c), link, config)} \cup Refusals :
             /\ verdict' = [verdict EXCEPT ![c] = v]
             /\ Observe(IF v = "OK" THEN NewLink(link_up(c), link) ELSE link)
      BY <1>6 DEF SendChange
    <2>2. /\ pc[c] = "send" /\ pc'[c] = "recv" /\ op'[c] = op[c]
          /\ verdict'[c] = v
      BY <1>1, <1>6, <2>1 DEF SendChange, TypeOK
    <2>3. dev[c] \in Devices /\ dev[c] # NoDev
      BY <1>1, <1>6, <2>2 DEF CallShape, TypeOK, LinkOps
    <2>4. NewLink(link_up(c), link)[dev[c]] =
             IF op[c] = "link_up" THEN "up" ELSE "down"
      BY <1>1, <2>3 DEF NewLink, link_up, TypeOK
    <2>5. v = "OK" => NewLink(link_up(c), link)[dev[c]] \in seen'[c]
      BY <2>1, <2>2, <2>3 DEF Observe
    <2>6. QED
      BY <2>2, <2>4, <2>5 DEF Stands
  <1>7. CASE SendDump(c) /\ op[c] \in ShowOps \cup {"link_info"}
    <2>1. pc'[c] = "recv" /\ op'[c] = op[c] /\ op[c] \notin SetOps
      BY <1>1, <1>7 DEF SendDump, TypeOK, SetOps, ShowOps
    <2>2. Stands(c)'
      BY <2>1 DEF Stands
    <2>3. e # c => Stands(e)'
      BY <1>1, <1>7, StandsKept DEF SendDump, TypeOK
    <2>4. QED
      BY <2>2, <2>3
  <1>8. CASE RecvAck(c) /\ op[c] \in AckOps \cup SetOps
    <2>1. PICK h \in Headers : /\ util_get_msg(c, h)
                               /\ out' = [out EXCEPT ![c] = Printed(h)]
      BY <1>8 DEF RecvAck
    <2>2. pc[c] = "recv" /\ op' = op /\ verdict' = verdict /\ seen' = seen
      BY <1>8 DEF RecvAck
    <2>3. ASSUME heard'[c]
          PROVE  h = verdict[c]
      <3>1. Take(c) /\ h = FirstHeader(Head(queue[fd[c]]))
        BY <1>1, <2>1, <2>3 DEF util_get_msg, TypeOK
      <3>2. queue[fd[c]] = <<Ack(verdict[c])>> /\ verdict[c] \in Verdicts
        BY <1>1, <1>8, <2>2, <3>1 DEF AnswersAreMine, Take, TypeOK
      <3>3. QED
        BY <3>1, <3>2, AckIsRead
    <2>4. Stands(c)'
      BY <1>1, <2>1, <2>2, <2>3 DEF Stands, TypeOK
    <2>5. e # c => Stands(e)'
      <3>1. e # c => pc'[e] = pc[e] /\ heard'[e] = heard[e] /\ out'[e] = out[e]
        BY <1>1, <1>8, <2>1 DEF RecvAck, ReturnLeaking, util_get_msg, TypeOK
      <3>2. QED
        BY <1>1, <2>2, <3>1, StandsKept
    <2>6. QED
      BY <2>4, <2>5
  <1>9. CASE RecvShow(c) /\ op[c] \in ShowOps
    <2>1. e # c => pc'[e] = pc[e] /\ heard'[e] = heard[e]
      BY <1>1, <1>9 DEF RecvShow, ReturnLeaking, util_get_msg, TypeOK
    <2>2. /\ op' = op /\ verdict' = verdict /\ seen' = seen /\ out' = out
          /\ op[c] \notin AckOps \cup SetOps
      BY <1>9 DEF RecvShow, ShowOps, AckOps, SetOps
    <2>3. QED
      BY <1>1, <2>1, <2>2, StandsKept DEF Stands
  <1>10. CASE link_info_receive(c) /\ op[c] = "link_info"
    <2>1. e # c => pc'[e] = pc[e] /\ heard'[e] = heard[e] /\ out'[e] = out[e]
      BY <1>1, <1>10 DEF link_info_receive, TypeOK
    <2>2. /\ op' = op /\ verdict' = verdict /\ seen' = seen
          /\ op[c] \notin AckOps \cup SetOps
      BY <1>10 DEF link_info_receive, AckOps, SetOps
    <2>3. QED
      BY <1>1, <2>1, <2>2, StandsKept DEF Stands
  <1>11. CASE Close(c)
    BY <1>1, <1>11 DEF Close, Stands, TypeOK
  <1>12. CASE UNCHANGED vars
    BY <1>1, <1>12 DEF vars, Stands
  <1>13. ASSUME NEW r \in {add_ip, del_ip, add_gateway, del_gateway},
                SendChange(c, r), op[c] \in AckOps
         PROVE  Stands(e)'
    BY <1>5, <1>13 DEF AckOps, SetOps
  <1>14. CASE SendChange(c, link_up(c)) /\ op[c] \in SetOps
    BY <1>5, <1>6, <1>14
  <1>15. QED
    BY <1>2, <1>3, <1>4, <1>7, <1>8, <1>9, <1>10, <1>11, <1>12, <1>13, <1>14,
       StepCases

-----------------------------------------------------------------------------
(* The inductive invariant.                                                  *)

\* The invariant holds before the first call.
LEMMA InvInit == Init => IInv
  <1> SUFFICES ASSUME Init
               PROVE  IInv
    OBVIOUS
  <1>1. TypeOK
    BY TypeInit
  <1>2. Held = {}
    BY DEF Init, Held
  <1>3. DescriptorsAccounted
    BY <1>2 DEF Init, DescriptorsAccounted
  <1>4. AnswersAreMine /\ CallShape /\ ClosedIsClean
    BY DEF Init, AnswersAreMine, CallShape, Before, ClosedIsClean
  <1>5. VerdictStands
    BY DEF Init, VerdictStands, AckOps, SetOps
  <1>6. QED
    BY <1>1, <1>3, <1>4, <1>5 DEF IInv

\* A new call starts from a clean slate: its caller held no descriptor.
LEMMA InvCall ==
    ASSUME IInv, NEW c \in Callers, NEW o \in Ops, NEW d \in Devices, Call(c, o, d)
    PROVE  /\ DescriptorsAccounted'
           /\ Clean'
           /\ CallShape'
           /\ VerdictStands'
  <1> USE DEF kernelVars, socketVars, callVars, history
  <1>1. /\ TypeOK
        /\ DescriptorsAccounted
        /\ CallShape
        /\ \A e \in Callers : Stands(e)
    BY DEF IInv, VerdictStands, Stands
  <1>2. /\ fd' = fd /\ open' = open /\ leaked' = leaked
        /\ queue' = queue /\ dumping' = dumping
        /\ fd[c] = -1
    BY <1>1 DEF Call, CallShape
  <1>3. DescriptorsAccounted'
    BY <1>1, <1>2, Keep
  <1>4. ASSUME NEW e \in Callers, e # c
        PROVE  /\ pc'[e] = pc[e] /\ op'[e] = op[e] /\ verdict'[e] = verdict[e]
               /\ heard'[e] = heard[e] /\ out'[e] = out[e] /\ dev'[e] = dev[e]
               /\ seen'[e] = seen[e]
    BY <1>1, <1>4 DEF Call, TypeOK
  <1>5. /\ pc'[c] \in {"lookup", "socket"}
        /\ op'[c] = o
        /\ verdict'[c] = "unsent" /\ heard'[c] = FALSE
        /\ o \in LinkOps => dev'[c] = d
    BY <1>1 DEF Call, TypeOK
  <1>6. Clean'
    <2>1. \A f \in Fds \ open : queue[f] = <<>> /\ f \notin dumping
      BY DEF IInv, ClosedIsClean
    <2>2. QED
      BY <1>2, <1>4, <2>1, OthersClean
  <1>7. CallShape'
    BY <1>1, <1>2, <1>4, <1>5, ClientAssumption DEF CallShape, Before
  <1>8. VerdictStands'
    <2>1. Stands(c)'
      BY <1>5 DEF Stands
    <2>2. \A e \in Callers : e # c => Stands(e)'
      BY <1>1, <1>4, StandsKept
    <2>3. QED
      BY <2>1, <2>2 DEF VerdictStands, Stands
  <1>9. QED
    BY <1>3, <1>6, <1>7, <1>8

\* Nothing that happens to a device takes back what the calls have done.
LEMMA InvLinkChange ==
    ASSUME IInv, NEW d \in Devices, LinkChange(d)
    PROVE  /\ DescriptorsAccounted'
           /\ Clean'
           /\ CallShape'
           /\ VerdictStands'
  <1> USE DEF kernelVars, socketVars, callVars, history
  <1>1. /\ UNCHANGED <<socketVars, callVars, verdict, heard, leaked>>
        /\ \E l : Observe(l)
    BY DEF LinkChange
  <1>2. DescriptorsAccounted'
    BY <1>1, Keep DEF IInv
  <1>3. Clean'
    BY <1>1 DEF IInv, Clean, ClosedIsClean, AnswersAreMine
  <1>4. CallShape'
    BY <1>1 DEF IInv, CallShape, Before
  <1>5. ASSUME NEW e \in Callers
        PROVE  Stands(e)'
    <2>1. Stands(e) /\ TypeOK
      BY DEF IInv, VerdictStands, Stands
    <2>2. seen[e] \subseteq seen'[e]
      BY <1>1, <2>1, ObserveGrows
    <2>3. QED
      BY <1>1, <2>1, <2>2, StandsKept
  <1>6. QED
    BY <1>2, <1>3, <1>4, <1>5 DEF VerdictStands, Stands

\* The invariant is inductive.
LEMMA InvStep == IInv /\ [Next]_vars => IInv'
  <1> SUFFICES ASSUME IInv, [Next]_vars
               PROVE  IInv'
    OBVIOUS
  <1>1. TypeOK'
    BY TypeStep DEF IInv
  <1>2. ASSUME NEW c \in Callers, Step(c)
        PROVE  IInv'
    BY <1>1, <1>2, AccountStep, ShapeStep, CleanStep, VerdictStep DEF IInv, Clean
  <1>3. ASSUME NEW c \in Callers, NEW o \in Ops, NEW d \in Devices, Call(c, o, d)
        PROVE  IInv'
    BY <1>1, <1>3, InvCall DEF IInv, Clean
  <1>4. ASSUME NEW d \in Devices, LinkChange(d)
        PROVE  IInv'
    BY <1>1, <1>4, InvLinkChange DEF IInv, Clean
  <1>5. CASE UNCHANGED vars
    <2>1. /\ DescriptorsAccounted' /\ AnswersAreMine' /\ CallShape'
          /\ ClosedIsClean' /\ VerdictStands'
      BY <1>5 DEF vars, kernelVars, socketVars, callVars, history, IInv,
                  DescriptorsAccounted, Held, AnswersAreMine, CallShape, Before,
                  ClosedIsClean, VerdictStands
    <2>2. QED
      BY <1>1, <2>1 DEF IInv
  <1>6. QED
    BY <1>2, <1>3, <1>4, <1>5 DEF Next

\* The inductive invariant holds in every reachable state.
THEOREM InvCorrect == Spec => []IInv
  BY InvInit, InvStep, PTL DEF Spec

-----------------------------------------------------------------------------
(* The properties.                                                           *)

\* Whatever fails and however the calls interleave, a descriptor is inherited,
\* held by one call only, or leaked by a call that returned.
THEOREM DescriptorsCorrect == Spec => []DescriptorsAccounted
  <1>1. IInv => DescriptorsAccounted
    BY DEF IInv
  <1>2. QED
    BY <1>1, InvCorrect, PTL

\* A new socket is empty whatever its number was used for before, and a change
\* can read nothing but the kernel's verdict on it.
THEOREM AnswersCorrect == Spec => []AnswersAreMine
  <1>1. IInv => AnswersAreMine
    BY DEF IInv
  <1>2. QED
    BY <1>1, InvCorrect, PTL

\* A change that read an answer reports what the kernel decided on it.
THEOREM ReportCorrect == Spec => []ReportIsTruthful
  <1>1. IInv => ReportIsTruthful
    BY DEF IInv, VerdictStands, ReportIsTruthful
  <1>2. QED
    BY <1>1, InvCorrect, PTL

\* If link_up or link_down heard "Success", the device was in the wanted state at
\* some time during the call.
THEOREM LinkChangeCorrect == Spec => []LinkChangeTookEffect
  <1>1. IInv => LinkChangeTookEffect
    <2> SUFFICES ASSUME IInv, NEW c \in Callers, pc[c] = "idle",
                        op[c] \in SetOps, heard[c], out[c] = "Success"
                 PROVE  (IF op[c] = "link_up" THEN "up" ELSE "down") \in seen[c]
      BY DEF LinkChangeTookEffect
    <2>1. Printed(verdict[c]) = "Success"
      BY DEF IInv, VerdictStands
    <2>2. verdict[c] = "OK"
      BY <2>1 DEF Printed
    <2>3. QED
      BY <2>2 DEF IInv, VerdictStands
  <1>2. QED
    BY <1>1, InvCorrect, PTL

\* A link operation leaves no descriptor behind but descriptor 0: what else leaks
\* was opened by an operation that has no close().
THEOREM LeaksCorrect == Spec => OnlyStdinLeaksFromLinks
  <1> DEFINE Leak == \A f \in leaked' \ leaked :
                        \/ f = 0
                        \/ \E c \in Callers : fd[c] = f /\ op[c] \in AckOps \cup ShowOps
  <1>1. ASSUME IInv, NEW c \in Callers, Step(c)
        PROVE  Leak
    <2>1. CASE UNCHANGED leaked
      BY <2>1
    <2>2. CASE RecvAck(c) /\ op[c] \in AckOps \cup SetOps
      <3>1. leaked' # leaked => op[c] \in AckOps
        BY <2>2 DEF RecvAck
      <3>2. leaked' = leaked \/ leaked' = leaked \cup ({fd[c]} \ {-1})
        BY <2>2 DEF RecvAck, ReturnLeaking
      <3>3. QED
        BY <3>1, <3>2
    <2>3. CASE RecvShow(c) /\ op[c] \in ShowOps
      BY <2>3 DEF RecvShow, ReturnLeaking
    <2>4. CASE Close(c)
      BY <2>4 DEF Close
    <2>5. QED
      BY <1>1, <2>1, <2>2, <2>3, <2>4, StepCases
         DEF Lookup, Socket, SendFails, SendChange, SendDump, link_info_receive,
             vars, history
  <1>2. IInv /\ [Next]_vars => [Leak]_vars
    BY <1>1 DEF Next, Call, LinkChange, vars, history
  <1>3. QED
    BY <1>2, InvCorrect, PTL DEF Spec, OnlyStdinLeaksFromLinks

-----------------------------------------------------------------------------
(* link_info.                                                                *)

\* A datagram has an entry of device d.
Mentions(dg, d) == \E n \in dg.news : n[1] = d

\* A queue q, read from its head, tells of d only states of s, and does not come
\* to the end of the dump without an entry of d unless d was away.
TellsOf(q, d, s) ==
    \A k \in 1..Len(q) :
        /\ \A n \in q[k].news : n[1] = d => n[2] \in s
        /\ q[k].tail = "DONE" /\ "absent" \notin s => \E j \in 1..k : Mentions(q[j], d)

\* A dump that is not finished has told of d, or still has to walk d.
StillTells(q, left, d, s) ==
    "absent" \in s \/ d \in left \/ \E j \in 1..Len(q) : Mentions(q[j], d)

\* A call has seen the present state of its device; what it has told its caller
\* is of what it has seen, and so will be what its socket holds.
InfoCall(c) ==
    /\ pc[c] # "idle" /\ dev[c] # NoDev => link[dev[c]] \in seen[c]
    /\ op[c] = "link_info" /\ pc[c] \in {"lookup", "socket", "send", "recv"} =>
           out[c] = "zero"
    /\ op[c] = "link_info" /\ pc[c] \in {"close", "idle"} =>
           /\ out[c] \in {"up", "down"} => out[c] \in seen[c]
           /\ out[c] = "zero" => "absent" \in seen[c]
    /\ op[c] = "link_info" /\ pc[c] = "recv" /\ fd[c] # -1 =>
           /\ TellsOf(queue[fd[c]], dev[c], seen[c])
           /\ fd[c] \in dumping =>
                  StillTells(queue[fd[c]], rest[fd[c]], dev[c], seen[c])

InfoInv == \A c \in Callers : InfoCall(c)

\* With one descriptor per caller to spare, and sockets to be had.
Spare ==
    /\ "socket" \notin Faults
    /\ Cardinality(Callers) <= Cardinality(Fds \ Inherited)

\* What the kernel adds of a dump to a queue are present states, and it marks
\* the end only when all devices were walked.
LEMMA ChunkTells ==
    ASSUME NEW l \in [Devices -> LinkStates], NEW d \in Devices, NEW s, l[d] \in s,
           NEW q \in Seq(Datagrams), NEW left \in SUBSET Devices,
           NEW S \in SUBSET left,
           TellsOf(q, d, s), StillTells(q, left, d, s)
    PROVE  /\ TellsOf(Append(q, Chunk(l, left, S)), d, s)
           /\ StillTells(Append(q, Chunk(l, left, S)), left \ S, d, s)
  <1> DEFINE dg == Chunk(l, left, S)
             a == Append(q, dg)
  <1>1. /\ \A n \in dg.news : n[1] = d => n[2] \in s
        /\ dg.tail = "DONE" => S = left
        /\ d \in S => "absent" \in s \/ Mentions(dg, d)
    <2>1. dg.news = {<<e, l[e]>> : e \in {x \in S : l[x] # "absent"}}
      BY DEF Chunk, News
    <2>2. dg.tail = "DONE" => S = left
      BY DEF Chunk
    <2>3. d \in S /\ l[d] # "absent" => <<d, l[d]>> \in dg.news
      BY <2>1
    <2> HIDE DEF dg
    <2>4. d \in S => "absent" \in s \/ Mentions(dg, d)
      <3>1. <<d, l[d]>>[1] = d
        OBVIOUS
      <3>2. QED
        BY <2>3, <3>1 DEF Mentions
    <2>5. \A n \in dg.news : n[1] = d => n[2] \in s
      BY <2>1
    <2>6. QED
      BY <2>2, <2>4, <2>5
  <1>2. dg \in Datagrams
    BY ChunkIsDatagram
  <1> HIDE DEF dg
  <1>3. /\ Len(a) = Len(q) + 1 /\ a[Len(q) + 1] = dg /\ Len(q) \in Nat
        /\ \A k \in 1..Len(q) : a[k] = q[k]
    BY <1>2
  <1> HIDE DEF a
  <1>4. ASSUME "absent" \notin s
        PROVE  d \in left \ S \/ \E j \in 1..Len(q) + 1 : Mentions(a[j], d)
    BY <1>1, <1>3, <1>4 DEF StillTells
  <1>5. StillTells(a, left \ S, d, s)
    BY <1>3, <1>4 DEF StillTells
  <1>6. ASSUME NEW k \in 1..Len(a)
        PROVE  /\ \A n \in a[k].news : n[1] = d => n[2] \in s
               /\ a[k].tail = "DONE" /\ "absent" \notin s =>
                      \E j \in 1..k : Mentions(a[j], d)
    <2>1. CASE k \in 1..Len(q)
      <3>1. a[k] = q[k] /\ \A j \in 1..k : a[j] = q[j]
        BY <1>3, <2>1
      <3>2. QED
        BY <2>1, <3>1 DEF TellsOf
    <2>2. CASE k = Len(q) + 1
      BY <1>1, <1>3, <1>4, <2>2
    <2>3. QED
      BY <1>3, <2>1, <2>2
  <1>7. TellsOf(a, d, s)
    BY <1>6 DEF TellsOf
  <1>8. QED
    BY <1>5, <1>7 DEF a, dg

\* A head without an entry of d may be taken away.
LEMMA TailTells ==
    ASSUME NEW d, NEW s, NEW q \in Seq(Datagrams), q # <<>>, ~Mentions(Head(q), d)
    PROVE  /\ TellsOf(q, d, s) => TellsOf(Tail(q), d, s)
           /\ \A left : StillTells(q, left, d, s) => StillTells(Tail(q), left, d, s)
           /\ TellsOf(q, d, s) /\ Head(q).tail = "DONE" => "absent" \in s
  <1> DEFINE t == Tail(q)
  <1>1. /\ Len(q) \in Nat /\ Len(q) >= 1 /\ Len(t) = Len(q) - 1 /\ Head(q) = q[1]
        /\ \A k \in 1..Len(t) : t[k] = q[k + 1]
    OBVIOUS
  <1> HIDE DEF t
  <1>2. ASSUME NEW k \in 1..Len(q), \E j \in 1..k : Mentions(q[j], d)
        PROVE  \E j \in 1..k - 1 : Mentions(t[j], d)
    <2>1. PICK j \in 1..k : Mentions(q[j], d)
      BY <1>2
    <2>2. j # 1
      BY <1>1, <2>1
    <2>3. j - 1 \in 1..k - 1 /\ j - 1 \in 1..Len(t) /\ (j - 1) + 1 = j
      BY <1>1, <2>1, <2>2
    <2>4. t[j - 1] = q[j]
      BY <1>1, <2>3
    <2>5. QED
      BY <2>1, <2>3, <2>4
  <1>3. ASSUME TellsOf(q, d, s), NEW k \in 1..Len(t)
        PROVE  /\ \A n \in t[k].news : n[1] = d => n[2] \in s
               /\ t[k].tail = "DONE" /\ "absent" \notin s =>
                      \E j \in 1..k : Mentions(t[j], d)
    <2>1. k + 1 \in 1..Len(q) /\ t[k] = q[k + 1] /\ (k + 1) - 1 = k
      BY <1>1
    <2>2. QED
      BY <1>2, <1>3, <2>1 DEF TellsOf
  <1>4. ASSUME NEW left, StillTells(q, left, d, s)
        PROVE  StillTells(t, left, d, s)
    BY <1>1, <1>2, <1>4 DEF StillTells
  <1>5. ASSUME TellsOf(q, d, s), Head(q).tail = "DONE", "absent" \notin s
        PROVE  FALSE
    <2>1. 1 \in 1..Len(q)
      BY <1>1
    <2>2. PICK j \in 1..1 : Mentions(q[j], d)
      BY <1>1, <1>5, <2>1 DEF TellsOf
    <2>3. QED
      BY <1>1, <2>2
  <1>6. QED
    BY <1>3, <1>4, <1>5 DEF TellsOf, t

\* To see more is to be told no less.
LEMMA SeenMore ==
    ASSUME NEW q, NEW left, NEW d, NEW s, NEW s2, s \subseteq s2
    PROVE  /\ TellsOf(q, d, s) => TellsOf(q, d, s2)
           /\ StillTells(q, left, d, s) => StillTells(q, left, d, s2)
  BY DEF TellsOf, StillTells

\* Another call is told what it would have been told, whatever this one does to
\* its own socket.
LEMMA InfoOfOthers ==
    ASSUME InfoInv, NEW e \in Callers,
           pc'[e] = pc[e], op'[e] = op[e], dev'[e] = dev[e], fd'[e] = fd[e],
           out'[e] = out[e], seen[e] \subseteq seen'[e],
           pc[e] # "idle" /\ dev[e] # NoDev => link'[dev[e]] \in seen'[e],
           fd[e] # -1 => /\ queue'[fd[e]] = queue[fd[e]]
                         /\ rest'[fd[e]] = rest[fd[e]]
                         /\ fd[e] \in dumping' <=> fd[e] \in dumping
    PROVE  InfoCall(e)'
  <1>1. InfoCall(e)
    BY DEF InfoInv
  <1>2. ASSUME op[e] = "link_info", pc[e] = "recv", fd[e] # -1
        PROVE  /\ TellsOf(queue'[fd[e]], dev[e], seen'[e])
               /\ fd[e] \in dumping' =>
                    StillTells(queue'[fd[e]], rest'[fd[e]], dev[e], seen'[e])
    BY <1>1, <1>2, SeenMore DEF InfoCall
  <1>3. QED
    BY <1>1, <1>2 DEF InfoCall

\* A step of a call leaves the sockets of all other descriptors alone.
LEMMA OwnSocketOnly ==
    ASSUME TypeOK, NEW c \in Callers, Step(c), NEW f \in Fds, f # fd[c]
    PROVE  /\ queue'[f] = queue[f] /\ rest'[f] = rest[f]
           /\ f \in dumping' <=> f \in dumping
  <1> USE DEF kernelVars, socketVars, callVars, history
  <1>1. CASE UNCHANGED <<queue, rest, dumping>>
    BY <1>1
  <1>2. ASSUME NEW v, queue' = [queue EXCEPT ![fd[c]] = v], UNCHANGED <<rest, dumping>>
        PROVE  queue'[f] = queue[f] /\ rest'[f] = rest[f] /\ (f \in dumping' <=> f \in dumping)
    BY <1>2 DEF TypeOK
  <1>3. ASSUME NEW q, NEW left, NEW S, Generate(fd[c], q, left, S)
        PROVE  queue'[f] = queue[f] /\ rest'[f] = rest[f] /\ (f \in dumping' <=> f \in dumping)
    BY <1>3 DEF Generate, TypeOK
  <1>4. CASE Take(c)
    BY <1>2, <1>3, <1>4 DEF Take
  <1>5. ASSUME NEW r, SendChange(c, r)
        PROVE  queue'[f] = queue[f] /\ rest'[f] = rest[f] /\ (f \in dumping' <=> f \in dumping)
    BY <1>2, <1>5 DEF SendChange
  <1>6. CASE SendDump(c)
    BY <1>2, <1>3, <1>6 DEF SendDump
  <1>7. CASE RecvAck(c) \/ RecvShow(c) \/ link_info_receive(c)
    BY <1>1, <1>4, <1>7 DEF RecvAck, RecvShow, link_info_receive, util_get_msg
  <1>8. CASE Close(c)
    BY <1>8 DEF Close, TypeOK
  <1>9. CASE Lookup(c) \/ Socket(c) \/ SendFails(c) \/ UNCHANGED vars
    BY <1>1, <1>9 DEF Lookup, Socket, SendFails, vars
  <1>10. QED
    BY <1>5, <1>6, <1>7, <1>8, <1>9, StepCases

\* What the others of a step's caller keep, and see.
LEMMA OthersInfo ==
    ASSUME IInv, InfoInv, NEW c \in Callers, Step(c), NEW e \in Callers, e # c
    PROVE  InfoCall(e)'
  <1> USE DEF kernelVars, socketVars, callVars, history
  <1>1. TypeOK /\ InfoCall(e)
    BY DEF IInv, InfoInv
  <1>2. fd[e] # -1 => /\ queue'[fd[e]] = queue[fd[e]]
                      /\ rest'[fd[e]] = rest[fd[e]]
                      /\ fd[e] \in dumping' <=> fd[e] \in dumping
    BY <1>1, Exclusive, OwnSocketOnly
  <1>3. ASSUME UNCHANGED <<link, seen>>
        PROVE  /\ seen[e] \subseteq seen'[e]
               /\ pc[e] # "idle" /\ dev[e] # NoDev => link'[dev[e]] \in seen'[e]
    BY <1>1, <1>3 DEF InfoCall
  <1>4. ASSUME NEW r, SendChange(c, r)
        PROVE  /\ seen[e] \subseteq seen'[e]
               /\ pc[e] # "idle" /\ dev[e] # NoDev => link'[dev[e]] \in seen'[e]
    <2>1. Observe(link')
      BY <1>4 DEF SendChange
    <2>2. QED
      BY <1>1, <2>1, ObserveGrows DEF Observe
  <1>5. /\ pc'[e] = pc[e] /\ op'[e] = op[e] /\ dev'[e] = dev[e] /\ fd'[e] = fd[e]
        /\ out'[e] = out[e]
    <2>1. CASE Lookup(c) \/ Socket(c) \/ SendFails(c) \/ SendDump(c) \/ Close(c)
      BY <1>1, <2>1 DEF Lookup, Socket, SendFails, SendDump, Close, TypeOK
    <2>2. CASE RecvAck(c) \/ RecvShow(c) \/ link_info_receive(c)
      BY <1>1, <2>2 DEF RecvAck, RecvShow, link_info_receive, ReturnLeaking, TypeOK
    <2>3. ASSUME NEW r, SendChange(c, r)
          PROVE  /\ pc'[e] = pc[e] /\ op'[e] = op[e] /\ dev'[e] = dev[e]
                 /\ fd'[e] = fd[e] /\ out'[e] = out[e]
      BY <1>1, <2>3 DEF SendChange, TypeOK
    <2>4. CASE UNCHANGED vars
      BY <2>4 DEF vars
    <2>5. QED
      BY <2>1, <2>2, <2>3, <2>4, StepCases
  <1>6. /\ seen[e] \subseteq seen'[e]
        /\ pc[e] # "idle" /\ dev[e] # NoDev => link'[dev[e]] \in seen'[e]
    <2>1. CASE UNCHANGED <<link, seen>>
      BY <1>3, <2>1
    <2>2. CASE \E r : SendChange(c, r)
      BY <1>4, <2>2
    <2>3. QED
      BY <2>1, <2>2, StepCases
      DEF Lookup, Socket, SendFails, SendDump, Close, RecvAck, RecvShow,
          link_info_receive, vars
  <1>7. QED
    BY <1>2, <1>5, <1>6, InfoOfOthers

\* The request for the dump: nothing was queued before, and everything is still
\* to be walked.
LEMMA DumpInfo ==
    ASSUME IInv, InfoInv, NEW c \in Callers, SendDump(c), op[c] = "link_info"
    PROVE  InfoCall(c)'
  <1> USE DEF kernelVars, socketVars, callVars, history
  <1> DEFINE f == fd[c]
  <1>1. /\ TypeOK /\ InfoCall(c) /\ pc[c] = "send" /\ f \in Fds
        /\ queue[f] = <<>> /\ f \notin dumping
        /\ dev[c] \in Devices /\ dev[c] # NoDev
    BY DEF IInv, InfoInv, SendDump, AnswersAreMine, TypeOK, CallShape, LinkOps
  <1>2. /\ pc'[c] = "recv" /\ UNCHANGED <<link, op, dev, fd, out, seen>>
    BY <1>1 DEF SendDump, TypeOK
  <1>3. link[dev[c]] \in seen[c] /\ out[c] = "zero"
    BY <1>1 DEF InfoCall
  <1>4. /\ TellsOf(<<>>, dev[c], seen[c])
        /\ StillTells(<<>>, Devices, dev[c], seen[c])
        /\ link \in [Devices -> LinkStates] /\ <<>> \in Seq(Datagrams)
    BY <1>1 DEF TellsOf, StillTells, TypeOK
  <1>5. /\ TellsOf(queue'[f], dev[c], seen[c])
        /\ f \in dumping' => StillTells(queue'[f], rest'[f], dev[c], seen[c])
    <2>1. CASE \E S \in Parts(link, Devices) : Generate(f, queue[f], Devices, S)
      <3>1. PICK S \in SUBSET Devices : Generate(f, queue[f], Devices, S)
        BY <2>1 DEF Parts
      <3>2. /\ queue'[f] = Append(<<>>, Chunk(link, Devices, S))
            /\ rest'[f] = Devices \ S
        BY <1>1, <3>1 DEF Generate, TypeOK
      <3>3. /\ TellsOf(Append(<<>>, Chunk(link, Devices, S)), dev[c], seen[c])
            /\ StillTells(Append(<<>>, Chunk(link, Devices, S)), Devices \ S,
                          dev[c], seen[c])
        BY <1>1, <1>3, <1>4, ChunkTells
      <3>4. QED
        BY <3>2, <3>3
    <2>2. CASE \E v \in Refusals : /\ queue' = [queue EXCEPT ![f] = Append(@, Ack(v))]
                                   /\ dumping' = dumping
      <3>1. PICK v \in Refusals : queue' = [queue EXCEPT ![f] = Append(@, Ack(v))]
        BY <2>2
      <3>2. queue'[f] = <<Ack(v)>>
        BY <1>1, <3>1 DEF TypeOK
      <3>3. v # "DONE"
        BY KernelAssumption DEF Verdicts
      <3>4. TellsOf(<<Ack(v)>>, dev[c], seen[c])
        BY <3>3 DEF TellsOf, Ack
      <3>5. QED
        BY <1>1, <2>2, <3>2, <3>4
    <2>3. QED
      BY <2>1, <2>2 DEF SendDump
  <1>6. QED
    BY <1>2, <1>3, <1>5 DEF InfoCall

\* A turn of the loop: an entry of the device ends it with a state it had, the
\* end of the dump only when the device was away.
LEMMA ReceiveInfo ==
    ASSUME IInv, InfoInv, NEW c \in Callers, link_info_receive(c), op[c] = "link_info"
    PROVE  InfoCall(c)'
  <1> USE DEF kernelVars, socketVars, callVars, history
  <1> DEFINE f == fd[c]
             d == dev[c]
             s == seen[c]
             q == queue[f]
             mine == {n \in Head(q).news : n[1] = d}
  <1>1. /\ TypeOK /\ InfoCall(c) /\ pc[c] = "recv" /\ f # -1 /\ d \in Devices
        /\ d # NoDev /\ Take(c)
    BY DEF IInv, InfoInv, link_info_receive, Take, TypeOK, CallShape, LinkOps
  <1>2. /\ f \in Fds /\ q \in Seq(Datagrams) /\ q # <<>>
    BY <1>1, TakeType
  <1>3. /\ TellsOf(q, d, s) /\ (f \in dumping => StillTells(q, rest[f], d, s))
        /\ link[d] \in s /\ out[c] = "zero"
        /\ link \in [Devices -> LinkStates] /\ rest[f] \in SUBSET Devices
    BY <1>1, <1>2 DEF InfoCall, TypeOK
  <1>4. UNCHANGED <<link, op, dev, fd, seen>>
    BY DEF link_info_receive
  <1>5. CASE mine # {}
    <2>1. PICK n \in mine : out' = [out EXCEPT ![c] = n[2]]
      BY <1>5 DEF link_info_receive
    <2>2. pc'[c] = "close" /\ out'[c] = n[2]
      BY <1>1, <1>5, <2>1 DEF link_info_receive, TypeOK
    <2>3. n[2] \in s
      <3>1. 1 \in 1..Len(q) /\ Head(q) = q[1]
        BY <1>2
      <3>2. QED
        BY <1>3, <3>1 DEF TellsOf
    <2>4. n[2] # "zero"
      <3>1. Head(q) \in Datagrams
        BY <1>1, TakeType
      <3>2. n \in Devices \X (LinkStates \ {"absent"})
        BY <3>1 DEF Datagrams
      <3>3. QED
        BY <3>2 DEF LinkStates
    <2>5. QED
      BY <1>3, <1>4, <2>2, <2>3, <2>4 DEF InfoCall
  <1>6. CASE mine = {}
    <2>1. ~Mentions(Head(q), d)
      BY <1>6 DEF Mentions
    <2>2. out'[c] = "zero" /\ pc'[c] = IF Head(q).tail = "DONE" THEN "close" ELSE "recv"
      BY <1>1, <1>3, <1>6 DEF link_info_receive, TypeOK
    <2>3. CASE Head(q).tail = "DONE"
      <3>1. "absent" \in s
        BY <1>2, <1>3, <2>1, <2>3, TailTells
      <3>2. QED
        BY <1>3, <1>4, <2>2, <2>3, <3>1 DEF InfoCall
    <2>4. CASE Head(q).tail # "DONE"
      <3>1. /\ TellsOf(Tail(q), d, s) /\ Tail(q) \in Seq(Datagrams)
            /\ f \in dumping => StillTells(Tail(q), rest[f], d, s)
        BY <1>2, <1>3, <2>1, TailTells
      <3>2. CASE f \notin dumping
        <4>1. queue'[f] = Tail(q) /\ f \notin dumping'
          BY <1>1, <1>2, <3>2 DEF Take, TypeOK
        <4>2. QED
          BY <1>3, <1>4, <2>2, <2>4, <3>1, <4>1 DEF InfoCall
      <3>3. CASE f \in dumping
        <4>1. PICK S \in SUBSET rest[f] : Generate(f, Tail(q), rest[f], S)
          BY <1>1, <3>3 DEF Take, Parts
        <4>2. /\ queue'[f] = Append(Tail(q), Chunk(link, rest[f], S))
              /\ rest'[f] = rest[f] \ S
          BY <1>1, <1>2, <4>1 DEF Generate, TypeOK
        <4>3. /\ TellsOf(Append(Tail(q), Chunk(link, rest[f], S)), d, s)
              /\ StillTells(Append(Tail(q), Chunk(link, rest[f], S)), rest[f] \ S, d, s)
          BY <1>1, <1>3, <3>1, <3>3, ChunkTells
        <4>4. QED
          BY <1>3, <1>4, <2>2, <2>4, <4>2, <4>3 DEF InfoCall
      <3>4. QED
        BY <3>2, <3>3
    <2>5. QED
      BY <2>3, <2>4
  <1>7. QED
    BY <1>5, <1>6

\* A call's own steps keep what it says of its device.
LEMMA OwnInfo ==
    ASSUME IInv, InfoInv, NEW c \in Callers, Step(c)
    PROVE  InfoCall(c)'
  <1> USE DEF kernelVars, socketVars, callVars, history
  <1>1. /\ TypeOK /\ InfoCall(c) /\ CallShape
    BY DEF IInv, InfoInv
  <1>2. CASE Lookup(c)
    BY <1>1, <1>2 DEF Lookup, InfoCall, TypeOK
  <1>3. CASE Socket(c)
    BY <1>1, <1>3 DEF Socket, InfoCall, TypeOK
  <1>4. CASE SendFails(c)
    <2>1. /\ pc[c] = "send" /\ pc'[c] = "recv"
          /\ UNCHANGED <<link, op, dev, fd, out, seen, queue, rest, dumping>>
      BY <1>1, <1>4 DEF SendFails, TypeOK
    <2>2. fd[c] # -1 => queue[fd[c]] = <<>> /\ fd[c] \notin dumping
      BY <2>1 DEF IInv, AnswersAreMine
    <2>3. TellsOf(<<>>, dev[c], seen[c])
      BY DEF TellsOf
    <2>4. QED
      BY <1>1, <2>1, <2>2, <2>3 DEF InfoCall
  <1>5. ASSUME NEW r, SendChange(c, r), op[c] # "link_info"
        PROVE  InfoCall(c)'
    <2>1. /\ Observe(link') /\ pc[c] = "send" /\ UNCHANGED <<op, dev>>
      BY <1>5 DEF SendChange
    <2>2. dev[c] # NoDev => link'[dev[c]] \in seen'[c]
      BY <2>1 DEF Observe
    <2>3. QED
      BY <1>5, <2>1, <2>2 DEF InfoCall
  <1>6. ASSUME pc[c] # "idle", op[c] # "link_info", UNCHANGED <<link, seen, op, dev>>
        PROVE  InfoCall(c)'
    BY <1>1, <1>6 DEF InfoCall
  <1>7. CASE SendDump(c) /\ op[c] \in ShowOps
    BY <1>6, <1>7 DEF SendDump, ShowOps
  <1>8. CASE SendDump(c) /\ op[c] = "link_info"
    BY <1>8, DumpInfo
  <1>9. CASE RecvAck(c) /\ op[c] \in AckOps \cup SetOps
    BY <1>6, <1>9 DEF RecvAck, AckOps, SetOps
  <1>10. CASE RecvShow(c) /\ op[c] \in ShowOps
    BY <1>6, <1>10 DEF RecvShow, ShowOps
  <1>11. CASE link_info_receive(c) /\ op[c] = "link_info"
    BY <1>11, ReceiveInfo
  <1>12. CASE Close(c)
    BY <1>1, <1>12 DEF Close, InfoCall, TypeOK
  <1>13. CASE UNCHANGED vars
    BY <1>1, <1>13 DEF vars, InfoCall
  <1>14. "link_info" \notin AckOps \cup SetOps
    BY DEF AckOps, SetOps
  <1>15. QED
    BY <1>2, <1>3, <1>4, <1>5, <1>7, <1>8, <1>9, <1>10, <1>11, <1>12, <1>13, <1>14,
       StepCases

\* InfoInv holds before the first call, and every step keeps it.
LEMMA InfoKept ==
    /\ Init => InfoInv
    /\ IInv /\ InfoInv /\ [Next]_vars => InfoInv'
  <1> USE DEF kernelVars, socketVars, callVars, history
  <1>1. Init => InfoInv
    BY DEF Init, InfoInv, InfoCall
  <1> SUFFICES ASSUME IInv, InfoInv, [Next]_vars, NEW e \in Callers
               PROVE  InfoCall(e)'
    BY <1>1 DEF InfoInv
  <1>2. TypeOK /\ InfoCall(e) /\ CallShape
    BY DEF IInv, InfoInv
  <1>3. ASSUME NEW c \in Callers, Step(c)
        PROVE  InfoCall(e)'
    BY <1>3, OthersInfo, OwnInfo
  <1>4. ASSUME NEW c \in Callers, NEW o \in Ops, NEW d \in Devices, Call(c, o, d)
        PROVE  InfoCall(e)'
    <2>1. CASE e = c
      <3>1. /\ pc'[c] \in {"lookup", "socket"} /\ op'[c] = o /\ link' = link
            /\ out'[c] = IF o = "link_info" THEN "zero" ELSE "none"
            /\ dev'[c] = IF o \in LinkOps THEN d ELSE NoDev
            /\ seen'[c] = IF o \in LinkOps THEN {link[d]} ELSE {}
        BY <1>2, <1>4 DEF Call, TypeOK
      <3>2. QED
        BY <2>1, <3>1 DEF InfoCall
    <2>2. CASE e # c
      <3>1. UNCHANGED <<kernelVars, socketVars, fd>>
        BY <1>4 DEF Call
      <3>2. /\ pc'[e] = pc[e] /\ op'[e] = op[e] /\ dev'[e] = dev[e]
            /\ out'[e] = out[e] /\ seen'[e] = seen[e]
        BY <1>2, <1>4, <2>2 DEF Call, TypeOK
      <3>3. QED
        BY <1>2, <3>1, <3>2 DEF InfoCall
    <2>3. QED
      BY <2>1, <2>2
  <1>5. ASSUME NEW d \in Devices, LinkChange(d)
        PROVE  InfoCall(e)'
    <2>1. Observe(link') /\ UNCHANGED <<socketVars, callVars>>
      BY <1>5 DEF LinkChange
    <2>2. /\ seen[e] \subseteq seen'[e]
          /\ pc[e] # "idle" /\ dev[e] # NoDev => link'[dev[e]] \in seen'[e]
      BY <1>2, <2>1, ObserveGrows DEF Observe
    <2>3. QED
      BY <2>1, <2>2, InfoOfOthers
  <1>6. CASE UNCHANGED vars
    BY <1>2, <1>6 DEF vars, InfoCall
  <1>7. QED
    BY <1>3, <1>4, <1>5, <1>6 DEF Next

\* The invariant of link_info holds in every reachable state.
THEOREM InfoInvCorrect == Spec => []InfoInv
  BY InfoKept, InvCorrect, PTL DEF Spec

\* What link_info hands out its device was during the call; "not found" means
\* that the device was away at some time of it.
THEOREM InfoCorrect == Spec => []InfoWasReal
  <1>1. InfoInv => InfoWasReal
    BY DEF InfoInv, InfoCall, InfoWasReal
  <1>2. QED
    BY <1>1, InfoInvCorrect, PTL

-----------------------------------------------------------------------------
(* Nobody waits for an answer that does not come.                            *)

\* One datagram of a dump waits to be read: while the dump goes on it does not
\* say so, and once it is over it says that it was the last.
OneWaits(q, going) ==
    \E dg \in Datagrams :
        /\ q = <<dg>>
        /\ dg.tail = IF going THEN "none" ELSE "DONE"
        /\ DoneAlone /\ ~going => dg.news = {}

\* Each datagram a loop reads and goes on takes some device off the rest of the
\* dump, or what now waits is the last one.
DumpAdvances ==
    [][\A c \in Callers :
          /\ op[c] \in ShowOps \cup {"link_info"} /\ AnswerDue(c) /\ AnswerDue(c)'
          /\ queue'[fd[c]] # queue[fd[c]]
          => \/ rest'[fd[c]] \subseteq rest[fd[c]] /\ rest'[fd[c]] # rest[fd[c]]
             \/ fd[c] \in dumping /\ fd[c] \notin dumping']_vars

\* What waits for a call that dumps.
WaitCall(c) ==
    AnswerDue(c) /\ op[c] \in ShowOps \cup {"link_info"} =>
        IF verdict[c] = "OK"
        THEN OneWaits(queue[fd[c]], fd[c] \in dumping)
        ELSE queue[fd[c]] = <<Ack(verdict[c])>>

WaitInv == \A c \in Callers : WaitCall(c)

\* A call has an operation.
CallNamed == \A c \in Callers : pc[c] # "idle" => op[c] # "none"

\* The next part of a dump is one datagram; an empty part is the last.
LEMMA GenerateWaits ==
    ASSUME TypeOK, NEW f \in Fds, NEW left \in SUBSET Devices,
           NEW S \in Parts(link, left), Generate(f, <<>>, left, S)
    PROVE  /\ OneWaits(queue'[f], f \in dumping')
           /\ rest'[f] = left \ S
           /\ S = {} => f \notin dumping'
  <1> DEFINE dg == Chunk(link, left, S)
  <1>1. /\ S \in SUBSET left /\ (News(link, S) = {} => S = left)
        /\ link \in [Devices -> LinkStates]
    BY DEF Parts, TypeOK
  <1>2. dg \in Datagrams
    BY <1>1, ChunkIsDatagram
  <1>3. /\ dg.news = News(link, S)
        /\ dg.tail = IF S = left /\ (News(link, S) = {} \/ ~DoneAlone)
                     THEN "DONE" ELSE "none"
    BY DEF Chunk
  <1>4. S = {} => dg.tail = "DONE"
    <2>1. S = {} => News(link, S) = {}
      BY DEF News
    <2>2. QED
      BY <1>1, <1>3, <2>1
  <1>5. /\ queue' = [queue EXCEPT ![f] = Append(<<>>, dg)]
        /\ rest' = [rest EXCEPT ![f] = left \ S]
        /\ dumping' = IF dg.tail = "DONE" THEN dumping \ {f} ELSE dumping \cup {f}
    BY DEF Generate
  <1> HIDE DEF dg
  <1>6. queue'[f] = <<dg>> /\ rest'[f] = left \ S
    <2>1. Append(<<>>, dg) = <<dg>>
      BY <1>2
    <2>2. queue \in [Fds -> Seq(Datagrams)] /\ rest \in [Fds -> SUBSET Devices]
      BY DEF TypeOK
    <2>3. QED
      BY <1>5, <2>1, <2>2
  <1>7. dg.tail = IF f \in dumping' THEN "none" ELSE "DONE"
    BY <1>3, <1>5
  <1>8. DoneAlone /\ f \notin dumping' => dg.news = {}
    BY <1>3, <1>7
  <1>9. OneWaits(queue'[f], f \in dumping')
    BY <1>2, <1>6, <1>7, <1>8 DEF OneWaits
  <1>10. S = {} => f \notin dumping'
    BY <1>4, <1>5
  <1>11. QED
    BY <1>6, <1>9, <1>10

\* When a datagram that is not the last is taken, the next is there.
LEMMA TakeWaits ==
    ASSUME TypeOK, NEW c \in Callers, Take(c),
           OneWaits(queue[fd[c]], fd[c] \in dumping),
           Head(queue[fd[c]]).tail # "DONE"
    PROVE  /\ OneWaits(queue'[fd[c]], fd[c] \in dumping')
           /\ fd[c] \in dumping
           /\ \/ rest'[fd[c]] \subseteq rest[fd[c]] /\ rest'[fd[c]] # rest[fd[c]]
              \/ fd[c] \notin dumping'
  <1> DEFINE f == fd[c]
  <1>1. f \in Fds /\ rest[f] \in SUBSET Devices
    BY DEF TypeOK, Take
  <1>2. PICK dg \in Datagrams :
             queue[f] = <<dg>> /\ dg.tail = IF f \in dumping THEN "none" ELSE "DONE"
    BY DEF OneWaits
  <1>3. Head(queue[f]) = dg /\ Tail(queue[f]) = <<>>
    BY <1>2
  <1>4. f \in dumping
    BY <1>2, <1>3
  <1>5. PICK S \in Parts(link, rest[f]) : Generate(f, Tail(queue[f]), rest[f], S)
    BY <1>4 DEF Take
  <1>6. /\ OneWaits(queue'[f], f \in dumping') /\ rest'[f] = rest[f] \ S
        /\ S = {} => f \notin dumping'
    <2>1. Generate(f, <<>>, rest[f], S)
      BY <1>3, <1>5
    <2> HIDE DEF f
    <2>2. QED
      BY <1>1, <2>1, GenerateWaits
  <1>7. S \in SUBSET rest[f]
    BY DEF Parts
  <1>8. QED
    BY <1>4, <1>6, <1>7

\* A read that does not end the loop of a dump, and what it does to the socket.
LEMMA ReadWaits ==
    ASSUME IInv, WaitInv, NEW c \in Callers, AnswerDue(c), pc'[c] = "recv",
           \/ RecvShow(c) /\ op[c] \in ShowOps
           \/ link_info_receive(c) /\ op[c] = "link_info"
    PROVE  /\ UNCHANGED <<op, fd, verdict>>
           /\ \/ UNCHANGED <<queue, rest, dumping>>
              \/ /\ Take(c)
                 /\ verdict[c] = "OK"
                 /\ OneWaits(queue[fd[c]], fd[c] \in dumping)
                 /\ Head(queue[fd[c]]).tail # "DONE"
  <1> DEFINE q == queue[fd[c]]
  <1>1. /\ TypeOK /\ WaitCall(c) /\ pc[c] = "recv"
        /\ op[c] = "link_info" => verdict[c] = "OK"
        /\ op[c] \in ShowOps => DoneAlone
    BY DEF IInv, WaitInv, AnswerDue
  <1>2. CASE link_info_receive(c) /\ op[c] = "link_info"
    <2>1. UNCHANGED <<op, fd, verdict>> /\ Take(c)
      BY <1>2 DEF link_info_receive
    <2>2. Head(q).tail # "DONE"
      BY <1>1, <1>2 DEF link_info_receive, TypeOK
    <2>3. OneWaits(q, fd[c] \in dumping)
      BY <1>1, <1>2 DEF WaitCall
    <2>4. QED
      BY <1>1, <1>2, <2>1, <2>2, <2>3
  <1>3. CASE RecvShow(c) /\ op[c] \in ShowOps
    <2>1. util_get_msg(c, "entry") /\ UNCHANGED <<op, fd, verdict>>
      BY <1>1, <1>3 DEF RecvShow, ReturnLeaking, TypeOK
    <2>2. CASE UNCHANGED <<queue, rest, dumping>>
      BY <2>1, <2>2
    <2>3. CASE Take(c) /\ FirstHeader(Head(q)) = "entry"
      <3>1. ASSUME verdict[c] # "OK" PROVE FALSE
        <4>1. q = <<Ack(verdict[c])>> /\ verdict[c] \in Verdicts
          BY <1>1, <1>3, <3>1 DEF WaitCall, AnswerDue, TypeOK
        <4>2. FirstHeader(Head(q)) = verdict[c]
          BY <4>1 DEF FirstHeader, Ack, Verdicts
        <4>3. QED
          BY <2>3, <4>1, <4>2 DEF Verdicts
      <3>2. OneWaits(q, fd[c] \in dumping) /\ DoneAlone
        BY <1>1, <1>3, <3>1 DEF WaitCall
      <3>3. PICK dg \in Datagrams :
                 /\ q = <<dg>>
                 /\ dg.tail = IF fd[c] \in dumping THEN "none" ELSE "DONE"
                 /\ DoneAlone /\ fd[c] \notin dumping => dg.news = {}
        BY <3>2 DEF OneWaits
      <3>4. ASSUME dg.tail = "DONE" PROVE FALSE
        <4>1. dg.news = {} /\ Head(q) = dg
          BY <3>2, <3>3, <3>4
        <4>2. FirstHeader(dg) = "DONE"
          BY <3>4, <4>1 DEF FirstHeader
        <4>3. QED
          BY <2>3, <4>1, <4>2
      <3>5. Head(q).tail # "DONE"
        BY <3>3, <3>4
      <3>6. QED
        BY <2>1, <2>3, <3>1, <3>2, <3>5
    <2>4. QED
      BY <2>1, <2>2, <2>3 DEF util_get_msg
  <1>4. QED
    BY <1>2, <1>3

\* The request for a dump leaves its first datagram, or a refusal.
LEMMA DumpWaits ==
    ASSUME IInv, NEW c \in Callers, SendDump(c)
    PROVE  WaitCall(c)'
  <1> DEFINE f == fd[c]
  <1>1. /\ TypeOK /\ f \in Fds /\ queue[f] = <<>>
    BY DEF IInv, SendDump, AnswersAreMine, TypeOK
  <1>2. /\ UNCHANGED <<op, fd>>
        /\ \/ \E S \in Parts(link, Devices) :
                 /\ Generate(f, queue[f], Devices, S)
                 /\ verdict' = [verdict EXCEPT ![c] = "OK"]
           \/ \E v \in Refusals :
                 /\ queue' = [queue EXCEPT ![f] = Append(@, Ack(v))]
                 /\ verdict' = [verdict EXCEPT ![c] = v]
    BY DEF SendDump
  <1>3. CASE \E S \in Parts(link, Devices) :
                /\ Generate(f, queue[f], Devices, S)
                /\ verdict' = [verdict EXCEPT ![c] = "OK"]
    <2>1. OneWaits(queue'[f], f \in dumping')
      BY <1>1, <1>3, GenerateWaits
    <2>2. verdict'[c] = "OK"
      BY <1>1, <1>3 DEF TypeOK
    <2>3. QED
      BY <1>2, <2>1, <2>2 DEF WaitCall
  <1>4. ASSUME NEW v \in Refusals,
               queue' = [queue EXCEPT ![f] = Append(@, Ack(v))],
               verdict' = [verdict EXCEPT ![c] = v]
        PROVE  WaitCall(c)'
    <2>1. queue'[f] = <<Ack(v)>> /\ verdict'[c] = v
      BY <1>1, <1>4 DEF TypeOK
    <2>2. v # "OK"
      BY KernelAssumption
    <2>3. QED
      BY <1>2, <2>1, <2>2 DEF WaitCall
  <1>5. QED
    BY <1>2, <1>3, <1>4

\* The lookup of a name moves the call on and touches no socket.
LEMMA LookupMoves ==
    ASSUME NEW c \in Callers, Lookup(c)
    PROVE  /\ \E t \in {"idle", "socket"} : pc' = [pc EXCEPT ![c] = t]
           /\ op' = op /\ fd' = fd /\ verdict' = verdict
  <1>1. \E t \in {"idle", "socket"} : pc' = [pc EXCEPT ![c] = t]
    BY Zenon DEF Lookup
  <1>2. op' = op /\ fd' = fd /\ verdict' = verdict
    BY Zenon DEF Lookup, history
  <1>3. QED
    BY <1>1, <1>2

\* A call's own steps keep what waits for it.
LEMMA OwnWaits ==
    ASSUME IInv, WaitInv, NEW c \in Callers, Step(c)
    PROVE  WaitCall(c)'
  <1> USE DEF kernelVars, socketVars, callVars, history
  <1>1. /\ TypeOK /\ WaitCall(c) /\ CallShape
    BY DEF IInv, WaitInv
  <1>2. ASSUME pc'[c] # "recv" PROVE WaitCall(c)'
    BY <1>2 DEF WaitCall, AnswerDue
  <1>3. ASSUME op[c] \in AckOps \cup SetOps, UNCHANGED op PROVE WaitCall(c)'
    <2>1. op'[c] \notin ShowOps \cup {"link_info"}
      BY <1>3 DEF AckOps, SetOps, ShowOps
    <2>2. QED
      BY <2>1 DEF WaitCall
  <1>4. CASE Lookup(c) \/ Socket(c) \/ Close(c)
    <2>1. DOMAIN pc = Callers
      BY <1>1 DEF TypeOK
    <2>2. \E t \in {"idle", "socket", "send"} : pc' = [pc EXCEPT ![c] = t]
      <3>1. CASE Lookup(c)
        BY <3>1, LookupMoves
      <3>2. CASE Socket(c) \/ Close(c)
        BY <3>2 DEF Socket, Close
      <3>3. QED
        BY <1>4, <3>1, <3>2
    <2>3. pc'[c] # "recv"
      BY <2>1, <2>2
    <2>4. QED
      BY <1>2, <2>3
  <1>5. CASE SendFails(c)
    <2>1. verdict'[c] = "unsent"
      BY <1>1, <1>5 DEF SendFails, CallShape, Before
    <2>2. QED
      BY <2>1 DEF WaitCall, AnswerDue
  <1>6. ASSUME NEW r, SendChange(c, r), op[c] \in AckOps \cup SetOps
        PROVE  WaitCall(c)'
    BY <1>3, <1>6 DEF SendChange
  <1>7. CASE SendDump(c)
    BY <1>7, DumpWaits
  <1>8. CASE RecvAck(c) /\ op[c] \in AckOps \cup SetOps
    BY <1>3, <1>8 DEF RecvAck
  <1>9. CASE \/ RecvShow(c) /\ op[c] \in ShowOps
             \/ link_info_receive(c) /\ op[c] = "link_info"
    <2> SUFFICES ASSUME AnswerDue(c)', pc'[c] = "recv",
                        op'[c] \in ShowOps \cup {"link_info"}
                 PROVE  WaitCall(c)'
      BY DEF WaitCall, AnswerDue
    <2>1. UNCHANGED <<op, fd, verdict>> /\ pc[c] = "recv"
      <3>1. DOMAIN pc = Callers
        BY <1>1 DEF TypeOK
      <3>2. CASE RecvShow(c)
        <4>1. \E h \in Headers : IF h = "entry" THEN UNCHANGED fd ELSE ReturnLeaking(c)
          BY <3>2 DEF RecvShow
        <4>2. UNCHANGED fd
          BY <3>1, <4>1 DEF ReturnLeaking
        <4>3. QED
          BY <3>2, <4>2 DEF RecvShow
      <3>3. CASE link_info_receive(c)
        BY <3>3 DEF link_info_receive
      <3>4. QED
        BY <1>9, <3>2, <3>3
    <2>2. AnswerDue(c)
      BY <2>1 DEF AnswerDue
    <2>3. CASE UNCHANGED <<queue, rest, dumping>>
      BY <1>1, <2>1, <2>2, <2>3 DEF WaitCall
    <2>4. CASE ~UNCHANGED <<queue, rest, dumping>>
      <3>1. verdict[c] = "OK" /\ OneWaits(queue'[fd[c]], fd[c] \in dumping')
        BY <1>1, <1>9, <2>2, <2>4, ReadWaits, TakeWaits
      <3>2. QED
        BY <2>1, <3>1 DEF WaitCall
    <2>5. QED
      BY <2>3, <2>4
  <1>10. CASE UNCHANGED vars
    BY <1>1, <1>10 DEF vars, WaitCall, AnswerDue
  <1>11. QED
    BY <1>4, <1>5, <1>6, <1>7, <1>8, <1>9, <1>10, StepCases

\* What waits for a call stays while it does not move and others leave its
\* socket alone.
LEMMA WaitsOn ==
    ASSUME WaitInv, NEW e \in Callers,
           pc'[e] = pc[e], op'[e] = op[e], fd'[e] = fd[e], verdict'[e] = verdict[e],
           fd[e] # -1 => /\ queue'[fd[e]] = queue[fd[e]]
                         /\ fd[e] \in dumping' <=> fd[e] \in dumping
    PROVE  WaitCall(e)'
  <1>1. WaitCall(e)
    BY DEF WaitInv
  <1> SUFFICES ASSUME AnswerDue(e)', op'[e] \in ShowOps \cup {"link_info"}
               PROVE  IF verdict[e] = "OK"
                      THEN OneWaits(queue'[fd[e]], fd[e] \in dumping')
                      ELSE queue'[fd[e]] = <<Ack(verdict[e])>>
    BY DEF WaitCall
  <1>2. AnswerDue(e) /\ fd[e] # -1
    BY DEF AnswerDue
  <1>3. CASE verdict[e] # "OK"
    BY <1>1, <1>2, <1>3 DEF WaitCall
  <1>4. CASE verdict[e] = "OK"
    <2>1. OneWaits(queue[fd[e]], fd[e] \in dumping)
      BY <1>1, <1>2, <1>4 DEF WaitCall
    <2>2. OneWaits(queue'[fd[e]], fd[e] \in dumping')
      BY <1>2, <2>1 DEF OneWaits
    <2>3. QED
      BY <1>4, <2>2
  <1>5. QED
    BY <1>3, <1>4

\* A call keeps its operation.
LEMMA OpStays ==
    ASSUME NEW c \in Callers, Step(c)
    PROVE  op' = op
  <1> USE DEF kernelVars, socketVars, callVars, history
  <1>1. CASE Lookup(c) \/ Socket(c) \/ SendFails(c) \/ SendDump(c) \/ Close(c)
    BY <1>1, LookupMoves DEF Socket, SendFails, SendDump, Close
  <1>2. CASE RecvAck(c) \/ RecvShow(c) \/ link_info_receive(c)
    BY <1>2 DEF RecvAck, RecvShow, link_info_receive
  <1>3. ASSUME NEW r, SendChange(c, r) PROVE op' = op
    BY <1>3 DEF SendChange
  <1>4. CASE UNCHANGED vars
    BY <1>4 DEF vars
  <1>5. QED
    BY <1>1, <1>2, <1>3, <1>4, StepCases

\* Another call stays where it is, and the kernel's verdict on it too.
LEMMA OthersStay ==
    ASSUME TypeOK, NEW c \in Callers, Step(c), NEW e \in Callers, e # c
    PROVE  pc'[e] = pc[e] /\ op'[e] = op[e] /\ fd'[e] = fd[e] /\ verdict'[e] = verdict[e]
  <1> USE DEF kernelVars, socketVars, callVars, history
  <1>1. DOMAIN pc = Callers /\ DOMAIN fd = Callers /\ DOMAIN verdict = Callers
    BY DEF TypeOK
  <1>2. op' = op
    BY OpStays
  <1>3. CASE Lookup(c) \/ Socket(c) \/ SendFails(c) \/ Close(c)
    <2>1. CASE Lookup(c)
      BY <1>1, <1>2, <2>1, LookupMoves
    <2>2. CASE Socket(c) \/ SendFails(c) \/ Close(c)
      BY <1>1, <1>2, <2>2 DEF Socket, SendFails, Close
    <2>3. QED
      BY <1>3, <2>1, <2>2
  <1>4. CASE SendDump(c)
    <2>1. \E v : verdict' = [verdict EXCEPT ![c] = v]
      BY <1>4 DEF SendDump
    <2>2. pc' = [pc EXCEPT ![c] = "recv"] /\ fd' = fd
      BY <1>4 DEF SendDump
    <2>3. QED
      BY <1>1, <1>2, <2>1, <2>2
  <1>5. CASE RecvAck(c) \/ RecvShow(c) \/ link_info_receive(c)
    <2>1. verdict' = verdict
      BY <1>5 DEF RecvAck, RecvShow, link_info_receive
    <2>2. /\ \E t : pc' = [pc EXCEPT ![c] = t]
          /\ \/ fd' = fd
             \/ fd' = [fd EXCEPT ![c] = -1]
      <3>1. pc' = pc => pc' = [pc EXCEPT ![c] = pc[c]]
        BY DEF TypeOK
      <3>2. CASE RecvAck(c)
        BY <3>2 DEF RecvAck, ReturnLeaking
      <3>3. CASE RecvShow(c)
        <4>1. \/ pc' = pc /\ fd' = fd
              \/ pc' = [pc EXCEPT ![c] = "idle"] /\ fd' = [fd EXCEPT ![c] = -1]
          BY <3>3 DEF RecvShow, ReturnLeaking
        <4>2. QED
          BY <3>1, <4>1
      <3>4. CASE link_info_receive(c)
        BY <3>4 DEF link_info_receive
      <3>5. QED
        BY <1>5, <3>2, <3>3, <3>4
    <2>3. QED
      BY <1>1, <1>2, <2>1, <2>2
  <1>6. ASSUME NEW r, SendChange(c, r)
        PROVE  pc'[e] = pc[e] /\ fd'[e] = fd[e] /\ verdict'[e] = verdict[e]
    BY <1>1, <1>6 DEF SendChange
  <1>7. CASE UNCHANGED vars
    BY <1>7 DEF vars
  <1>8. QED
    BY <1>2, <1>3, <1>4, <1>5, <1>6, <1>7, StepCases

\* WaitInv holds before the first call, and every step keeps it.
LEMMA WaitKept ==
    /\ Init => WaitInv
    /\ IInv /\ WaitInv /\ [Next]_vars => WaitInv'
  <1> USE DEF kernelVars, socketVars, callVars, history
  <1>1. Init => WaitInv
    BY DEF Init, WaitInv, WaitCall, AnswerDue
  <1> SUFFICES ASSUME IInv, WaitInv, [Next]_vars, NEW e \in Callers
               PROVE  WaitCall(e)'
    BY <1>1 DEF WaitInv
  <1>2. TypeOK
    BY DEF IInv
  <1>3. ASSUME NEW c \in Callers, Step(c)
        PROVE  WaitCall(e)'
    <2>1. CASE e = c
      BY <1>3, <2>1, OwnWaits
    <2>2. CASE e # c
      <3>1. fd[e] # -1 => /\ queue'[fd[e]] = queue[fd[e]]
                          /\ fd[e] \in dumping' <=> fd[e] \in dumping
        BY <1>2, <1>3, <2>2, Exclusive, OwnSocketOnly
      <3>2. QED
        BY <1>2, <1>3, <2>2, <3>1, OthersStay, WaitsOn
    <2>3. QED
      BY <2>1, <2>2
  <1>4. ASSUME NEW c \in Callers, NEW o \in Ops, NEW d \in Devices, Call(c, o, d)
        PROVE  WaitCall(e)'
    <2>1. CASE e = c
      <3>1. pc'[c] # "recv"
        BY <1>2, <1>4 DEF Call, TypeOK
      <3>2. QED
        BY <2>1, <3>1 DEF WaitCall, AnswerDue
    <2>2. CASE e # c
      <3>1. UNCHANGED <<socketVars, fd>>
        BY <1>4 DEF Call
      <3>2. pc'[e] = pc[e] /\ op'[e] = op[e] /\ verdict'[e] = verdict[e]
        BY <1>2, <1>4, <2>2 DEF Call, TypeOK
      <3>3. QED
        BY <3>1, <3>2, WaitsOn
    <2>3. QED
      BY <2>1, <2>2
  <1>5. CASE (\E d \in Devices : LinkChange(d)) \/ UNCHANGED vars
    <2>1. UNCHANGED <<pc, op, fd, verdict, queue, dumping>>
      BY <1>5 DEF LinkChange, vars
    <2>2. QED
      BY <2>1, WaitsOn
  <1>6. QED
    BY <1>3, <1>4, <1>5 DEF Next

\* A caller is in a call only once it has called an operation.
LEMMA NamedCorrect == Spec => []CallNamed
  <1> USE DEF kernelVars, socketVars, callVars, history
  <1>1. Init => CallNamed
    BY DEF Init, CallNamed
  <1>2. ASSUME TypeOK, CallNamed, [Next]_vars PROVE CallNamed'
    <2>1. ASSUME NEW c \in Callers, Step(c), NEW e \in Callers
          PROVE  pc'[e] # "idle" => op'[e] # "none"
      <3>1. CASE e = c
        <4>1. op[c] # "none"
          BY <2>1, Zenon
          DEF Step, nettool_ip_add, ip_del, gateway_add, gateway_del, nettool_ip_show,
              gateway_show, nettool_link_up, nettool_link_info, SetOps
        <4>2. UNCHANGED op
          BY <2>1, OpStays
        <4>3. QED
          BY <3>1, <4>1, <4>2
      <3>2. CASE e # c
        BY <1>2, <2>1, <3>2, OthersStay DEF CallNamed
      <3>3. QED
        BY <3>1, <3>2
    <2>2. ASSUME NEW c \in Callers, NEW o \in Ops, NEW d \in Devices, Call(c, o, d)
          PROVE  CallNamed'
      <3>1. o # "none"
        BY ClientAssumption DEF AckOps, ShowOps, LinkOps, SetOps
      <3>2. QED
        BY <1>2, <2>2, <3>1 DEF Call, CallNamed, TypeOK
    <2>3. CASE (\E d \in Devices : LinkChange(d)) \/ UNCHANGED vars
      BY <1>2, <2>3 DEF LinkChange, vars, CallNamed
    <2>4. QED
      BY <1>2, <2>1, <2>2, <2>3 DEF Next, CallNamed
  <1>3. QED
    BY <1>1, <1>2, TypeCorrect, PTL DEF Spec

\* The invariant of the answers that wait holds in every reachable state.
THEOREM WaitInvCorrect == Spec => []WaitInv
  BY WaitKept, InvCorrect, PTL DEF Spec

\* A call that the kernel has heard finds an answer to read whenever it is in
\* recvmsg(): no call ever waits for one that was already taken or never sent,
\* however many threads call.  The two exceptions of AnswerDue are the loop of
\* link_info after an error and that of the show operations after an NLMSG_DONE
\* behind entries.
THEOREM NeverStrandedCorrect == Spec => []NeverStranded
  <1>1. ASSUME IInv, WaitInv, CallNamed, NEW c \in Callers, AnswerDue(c)
        PROVE  queue[fd[c]] # <<>>
    <2>1. CASE op[c] \in AckOps \cup SetOps
      <3>1. queue[fd[c]] = <<Ack(verdict[c])>>
        BY <1>1, <2>1 DEF IInv, AnswersAreMine, AnswerDue
      <3>2. QED
        BY <3>1
    <2>2. CASE op[c] \in ShowOps \cup {"link_info"}
      <3>1. \/ OneWaits(queue[fd[c]], fd[c] \in dumping)
            \/ queue[fd[c]] = <<Ack(verdict[c])>>
        BY <1>1, <2>2 DEF WaitInv, WaitCall
      <3>2. QED
        BY <3>1 DEF OneWaits
    <2>3. op[c] # "none"
      BY <1>1 DEF CallNamed, AnswerDue
    <2>4. QED
      BY <1>1, <2>1, <2>2, <2>3
      DEF IInv, TypeOK, LinkOps, SetOps
  <1>2. IInv /\ WaitInv /\ CallNamed => NeverStranded
    BY <1>1 DEF NeverStranded
  <1>3. QED
    BY <1>2, InvCorrect, WaitInvCorrect, NamedCorrect, PTL

\* The loops over a dump cannot turn for ever: a datagram that does not end the
\* loop leaves fewer devices to be told of, or the last datagram.
THEOREM DumpAdvancesCorrect == Spec => DumpAdvances
  <1> USE DEF kernelVars, socketVars, callVars, history
  <1>1. ASSUME IInv, WaitInv, [Next]_vars, NEW c \in Callers,
               op[c] \in ShowOps \cup {"link_info"}, AnswerDue(c), AnswerDue(c)',
               queue'[fd[c]] # queue[fd[c]]
        PROVE  \/ rest'[fd[c]] \subseteq rest[fd[c]] /\ rest'[fd[c]] # rest[fd[c]]
               \/ fd[c] \in dumping /\ fd[c] \notin dumping'
    <2>1. TypeOK /\ pc[c] = "recv" /\ pc'[c] = "recv" /\ fd[c] # -1 /\ fd[c] \in Fds
      BY <1>1 DEF IInv, AnswerDue, TypeOK
    <2>2. PICK e \in Callers : Step(e)
      BY <1>1 DEF Next, Call, LinkChange, vars
    <2>3. e = c
      <3>1. ASSUME e # c PROVE FALSE
        <4>1. fd[c] # fd[e]
          BY <1>1, <2>1, <3>1, Exclusive
        <4>2. QED
          BY <1>1, <2>1, <2>2, <4>1, OwnSocketOnly
      <3>2. QED
        BY <3>1
    <2>4. \/ RecvShow(c) /\ op[c] \in ShowOps
          \/ link_info_receive(c) /\ op[c] = "link_info"
      <3>1. op[c] \notin AckOps \cup SetOps
        BY <1>1 DEF AckOps, SetOps, ShowOps
      <3>2. Step(c)
        BY <2>2, <2>3
      <3>3. ~(Lookup(c) \/ Socket(c) \/ SendFails(c) \/ SendDump(c) \/ Close(c))
        BY <2>1 DEF Lookup, Socket, SendFails, SendDump, Close
      <3>4. ~UNCHANGED vars
        BY <1>1 DEF vars
      <3>5. QED
        BY <3>1, <3>2, <3>3, <3>4, StepCases
    <2>5. /\ Take(c) /\ OneWaits(queue[fd[c]], fd[c] \in dumping)
          /\ Head(queue[fd[c]]).tail # "DONE"
      BY <1>1, <2>1, <2>4, ReadWaits
    <2>6. QED
      BY <2>1, <2>5, TakeWaits
  <1>2. IInv /\ WaitInv /\ [Next]_vars =>
            [\A c \in Callers :
                /\ op[c] \in ShowOps \cup {"link_info"} /\ AnswerDue(c) /\ AnswerDue(c)'
                /\ queue'[fd[c]] # queue[fd[c]]
                => \/ rest'[fd[c]] \subseteq rest[fd[c]] /\ rest'[fd[c]] # rest[fd[c]]
                   \/ fd[c] \in dumping /\ fd[c] \notin dumping']_vars
    BY <1>1
  <1>3. QED
    BY <1>2, InvCorrect, WaitInvCorrect, PTL DEF Spec, DumpAdvances

-----------------------------------------------------------------------------
(* The calls are atomic.                                                     *)

\* What a call has ready to report while it goes on, and that a link operation
\* that has heard something has sent its change.
OutCall(c) ==
    /\ pc[c] # "idle" /\ op[c] \in ShowOps => out[c] = "none"
    /\ pc[c] # "idle" /\ op[c] = "link_info" => out[c] \in {"zero", "up", "down"}
    /\ pc[c] # "idle" /\ op[c] \in SetOps => out[c] # "no device"
    /\ pc[c] = "close" /\ op[c] \in SetOps /\ heard[c] => verdict[c] # "unsent"

OutInv == \A c \in Callers : OutCall(c)

\* The request of the operation a caller is in.
Ask(c) == Atomic!Requests(dev[c])[op[c]]

\* The operations that change something are those with a request.
LEMMA ChangesAreAcked == Atomic!Changes = AckOps \cup SetOps
  BY DEF Atomic!Changes, Atomic!Requests, AckOps, SetOps

\* Each change sends the request of its operation, and no other.
LEMMA AsksOwn ==
    ASSUME NEW c \in Callers, Step(c), pc[c] = "send",
           op[c] \in AckOps \cup SetOps
    PROVE  SendFails(c) \/ SendChange(c, Ask(c))
  <1> USE DEF Step, nettool_ip_add, ip_del, gateway_add, gateway_del,
         nettool_ip_show, gateway_show, nettool_link_up, nettool_link_info,
         ChangeCall, Lookup, Socket, RecvAck, Close, SetOps
  <1>1. CASE op[c] = "ip_add"
    <2>1. Ask(c) = add_ip
      BY ONLY <1>1 DEF Ask, Atomic!Requests, add_ip, Atomic!NewIp, NewIp
    <2>2. SendFails(c) \/ SendChange(c, add_ip)
      BY <1>1
    <2>3. QED
      BY <2>1, <2>2
  <1>2. CASE op[c] = "ip_del"
    <2>1. Ask(c) = del_ip
      BY ONLY <1>2 DEF Ask, Atomic!Requests, del_ip, Atomic!DelIp, DelIp
    <2>2. SendFails(c) \/ SendChange(c, del_ip)
      BY <1>2
    <2>3. QED
      BY <2>1, <2>2
  <1>3. CASE op[c] = "gateway_add"
    <2>1. Ask(c) = add_gateway
      BY ONLY <1>3 DEF Ask, Atomic!Requests, add_gateway, Atomic!Gateway, Gateway
    <2>2. SendFails(c) \/ SendChange(c, add_gateway)
      BY <1>3
    <2>3. QED
      BY <2>1, <2>2
  <1>4. CASE op[c] = "gateway_del"
    <2>1. Ask(c) = del_gateway
      BY ONLY <1>4 DEF Ask, Atomic!Requests, del_gateway, Atomic!Gateway, Gateway
    <2>2. SendFails(c) \/ SendChange(c, del_gateway)
      BY <1>4
    <2>3. QED
      BY <2>1, <2>2
  <1>5. CASE op[c] \in SetOps
    <2>1. Ask(c) = link_up(c)
      BY ONLY <1>5 DEF Ask, Atomic!Requests, link_up, SetOps
    <2>2. SendFails(c) \/ SendChange(c, link_up(c))
      BY <1>5
    <2>3. QED
      BY <2>1, <2>2
  <1>6. QED
    BY ONLY <1>1, <1>2, <1>3, <1>4, <1>5, op[c] \in AckOps \cup SetOps DEF AckOps

\* A step that begins or ends no call, decides nothing and leaves the devices
\* alone is invisible to the callers.
LEMMA Invisible ==
    ASSUME UNCHANGED <<link, config, op, dev, seen>>,
           \A e \in Callers :
              /\ pc'[e] = "idle" <=> pc[e] = "idle"
              /\ op[e] \in AckOps \cup SetOps => verdict'[e] = verdict[e]
              /\ pc[e] = "idle" => heard'[e] = heard[e] /\ out'[e] = out[e]
    PROVE  UNCHANGED Atomic!vars
  <1>1. {c \in Callers : pc'[c] # "idle"} = {c \in Callers : pc[c] # "idle"}
    OBVIOUS
  <1>2. [c \in Callers |-> IF op'[c] \in AckOps \cup SetOps
                           THEN verdict'[c] ELSE "unsent"]
        = [c \in Callers |-> IF op[c] \in AckOps \cup SetOps
                             THEN verdict[c] ELSE "unsent"]
    OBVIOUS
  <1>3. [c \in Callers |-> pc'[c] = "idle" /\ heard'[c]]
        = [c \in Callers |-> pc[c] = "idle" /\ heard[c]]
    BY Zenon
  <1>4. [c \in Callers |-> IF pc'[c] = "idle" THEN out'[c] ELSE "none"]
        = [c \in Callers |-> IF pc[c] = "idle" THEN out[c] ELSE "none"]
    OBVIOUS
  <1>5. QED
    BY <1>1, <1>2, <1>3, <1>4 DEF Atomic!vars

\* A call that ends with a report it may give returns.
LEMMA ReturnsReport ==
    ASSUME TypeOK, TypeOK', NEW c \in Callers, pc[c] # "idle",
           pc' = [pc EXCEPT ![c] = "idle"],
           UNCHANGED <<link, config, op, dev, seen, verdict>>,
           \A e \in Callers \ {c} : heard'[e] = heard[e] /\ out'[e] = out[e],
           Atomic!MayReport(c, heard'[c], out'[c])
    PROVE  Atomic!Return(c)
  <1> DEFINE calling == {e \in Callers : pc[e] # "idle"}
             answered == [e \in Callers |-> pc[e] = "idle" /\ heard[e]]
             report == [e \in Callers |-> IF pc[e] = "idle" THEN out[e] ELSE "none"]
  <1>1. pc'[c] = "idle" /\ \A e \in Callers \ {c} : pc'[e] = pc[e]
    BY DEF TypeOK
  <1>2. c \in calling /\ calling' = calling \ {c}
    BY <1>1
  <1>3. answered' = [answered EXCEPT ![c] = heard'[c]]
    <2>1. \A e \in Callers \ {c} : (pc'[e] = "idle" /\ heard'[e]) = answered[e]
      BY <1>1, Zenon
    <2>2. heard'[c] \in BOOLEAN
      BY DEF TypeOK
    <2>3. (pc'[c] = "idle" /\ heard'[c]) = heard'[c]
      BY <1>1, <2>2, Zenon
    <2>4. answered' = [e \in Callers |-> pc'[e] = "idle" /\ heard'[e]]
      OBVIOUS
    <2>5. [answered EXCEPT ![c] = heard'[c]]
          = [e \in Callers |-> IF e = c THEN heard'[c] ELSE answered[e]]
      BY Zenon
    <2>6. QED
      BY <2>1, <2>3, <2>4, <2>5, Zenon
  <1>4. report' = [report EXCEPT ![c] = out'[c]]
    BY <1>1
  <1>5. heard'[c] \in BOOLEAN /\ out'[c] \in Texts
    BY DEF TypeOK
  <1>6. UNCHANGED [e \in Callers |-> IF op[e] \in AckOps \cup SetOps
                                     THEN verdict[e] ELSE "unsent"]
    OBVIOUS
  <1> HIDE DEF calling, answered, report
  <1>7. \E a \in BOOLEAN, t \in Texts :
           /\ Atomic!MayReport(c, a, t)
           /\ answered' = [answered EXCEPT ![c] = a]
           /\ report' = [report EXCEPT ![c] = t]
    BY <1>3, <1>4, <1>5, Zenon
  <1>8. QED
    BY <1>2, <1>6, <1>7 DEF Atomic!Return, calling, answered, report, Texts

\* What is ready to report stays of the operation's kind through every step.
LEMMA OutStep ==
    ASSUME IInv, IInv', OutInv, [Next]_vars
    PROVE  OutInv'
  <1> USE DEF kernelVars, socketVars, callVars, history
  <1>1. TypeOK /\ TypeOK' /\ AnswersAreMine /\ CallShape /\ OutInv
    BY DEF IInv
  <1> SUFFICES ASSUME NEW e \in Callers
               PROVE  OutCall(e)'
    BY DEF OutInv
  <1>2. OutCall(e)
    BY <1>1 DEF OutInv
  <1> DEFINE Alone == /\ op'[e] = op[e] /\ out'[e] = out[e]
                      /\ pc'[e] = pc[e] /\ heard'[e] = heard[e]
                      /\ verdict'[e] = verdict[e]
  <1>3. Alone => OutCall(e)'
    BY <1>2 DEF OutCall
  <1>4. ASSUME NEW c \in Callers, NEW o \in Ops, NEW d \in Devices, Call(c, o, d)
        PROVE  OutCall(e)'
    <2>1. CASE e # c
      BY <1>1, <1>3, <1>4, <2>1 DEF Call, TypeOK
    <2>2. CASE e = c
      <3>1. /\ op'[c] = o /\ pc'[c] \in {"lookup", "socket"}
            /\ out'[c] = IF o = "link_info" THEN "zero" ELSE "none"
        BY <1>1, <1>4 DEF Call, TypeOK
      <3>2. QED
        BY <2>2, <3>1 DEF OutCall, SetOps, ShowOps
    <2>3. QED
      BY <2>1, <2>2
  <1>5. ASSUME NEW d \in Devices, LinkChange(d)
        PROVE  OutCall(e)'
    BY <1>3, <1>5 DEF LinkChange
  <1>6. ASSUME NEW c \in Callers, Step(c)
        PROVE  OutCall(e)'
    <2>1. CASE Lookup(c)
      <3>1. /\ op' = op /\ heard' = heard /\ verdict' = verdict
            /\ \/ pc'[e] = pc[e]
               \/ pc'[e] = "idle"
               \/ pc'[e] = "socket" /\ pc[e] = "lookup"
            /\ out'[e] = out[e] \/ pc'[e] = "idle"
        <4>1. UNCHANGED <<op, heard, verdict>>
          BY <2>1 DEF Lookup
        <4>2. \/ pc' = [pc EXCEPT ![c] = "idle"]
                 /\ out' = [out EXCEPT ![c] = "no device"]
              \/ pc' = [pc EXCEPT ![c] = "socket"] /\ out' = out
          BY <2>1 DEF Lookup
        <4>3. pc[c] = "lookup"
          BY <2>1 DEF Lookup
        <4>4. CASE e # c
          <5>1. DOMAIN pc = Callers /\ DOMAIN out = Callers
            BY <1>1 DEF TypeOK
          <5>2. pc'[e] = pc[e] /\ out'[e] = out[e]
            BY <4>2, <4>4, <5>1
          <5>3. QED
            BY <4>1, <5>2
        <4>5. CASE e = c
          <5>1. DOMAIN pc = Callers
            BY <1>1 DEF TypeOK
          <5>2. \/ pc'[e] = "idle"
                \/ pc'[e] = "socket" /\ out'[e] = out[e]
            BY <4>2, <4>5, <5>1
          <5>3. QED
            BY <4>1, <4>3, <4>5, <5>2
        <4>6. QED
          BY <4>4, <4>5
      <3>2. QED
        BY <1>2, <3>1 DEF OutCall
    <2>2. CASE Socket(c) \/ SendFails(c)
      <3>1. /\ op' = op /\ heard' = heard /\ verdict' = verdict /\ out' = out
            /\ \/ pc'[e] = pc[e]
               \/ pc'[e] \in {"send", "recv"} /\ pc[e] \in {"socket", "send"}
        BY <1>1, <2>2 DEF Socket, SendFails, TypeOK
      <3>2. QED
        BY <1>2, <3>1 DEF OutCall
    <2>3. ASSUME NEW r, SendChange(c, r)
          PROVE  OutCall(e)'
      <3>1. e # c => verdict'[e] = verdict[e]
        BY <1>1, <2>3 DEF SendChange, TypeOK
      <3>2. QED
        BY <1>1, <1>2, <2>3, <3>1 DEF SendChange, OutCall, TypeOK
    <2>4. CASE SendDump(c)
      <3>1. e # c => verdict'[e] = verdict[e]
        BY <1>1, <2>4 DEF SendDump, TypeOK
      <3>2. QED
        BY <1>1, <1>2, <2>4, <3>1 DEF SendDump, OutCall, TypeOK
    <2>5. CASE RecvAck(c) /\ op[c] \in AckOps \cup SetOps
      <3>1. PICK h \in Headers : /\ util_get_msg(c, h)
                                 /\ out' = [out EXCEPT ![c] = Printed(h)]
        BY <2>5 DEF RecvAck
      <3>2. CASE e # c
        BY <1>1, <1>3, <2>5, <3>1, <3>2
           DEF RecvAck, ReturnLeaking, util_get_msg, TypeOK
      <3>3. CASE e = c
        <4>1. op'[c] = op[c] /\ verdict'[c] = verdict[c] /\ out'[c] = Printed(h)
          BY <1>1, <2>5, <3>1 DEF RecvAck, TypeOK
        <4>2. op[c] \notin ShowOps /\ op[c] # "link_info"
          BY <2>5 DEF AckOps, SetOps, ShowOps
        <4>3. Printed(h) # "no device"
          BY DEF Printed
        <4>4. heard'[c] => verdict[c] # "unsent"
          <5>1. heard'[c] => Take(c)
            BY <1>1, <3>1 DEF util_get_msg, TypeOK
          <5>2. QED
            BY <1>1, <2>5, <5>1 DEF RecvAck, Take, AnswersAreMine
        <4>5. QED
          BY <3>3, <4>1, <4>2, <4>3, <4>4 DEF OutCall
      <3>4. QED
        BY <3>2, <3>3
    <2>6. CASE RecvShow(c) /\ op[c] \in ShowOps
      <3>1. CASE e # c
        <4>1. UNCHANGED <<op, out, verdict>>
          BY <2>6 DEF RecvShow
        <4>2. pc'[e] = pc[e]
          BY <1>1, <2>6, <3>1 DEF RecvShow, ReturnLeaking, TypeOK
        <4>3. heard'[e] = heard[e]
          BY <1>1, <2>6, <3>1 DEF RecvShow, util_get_msg, TypeOK
        <4>4. QED
          BY <1>3, <4>1, <4>2, <4>3
      <3>2. CASE e = c
        BY <1>1, <1>2, <2>6, <3>2 DEF RecvShow, OutCall, ShowOps, SetOps
      <3>3. QED
        BY <3>1, <3>2
    <2>7. CASE link_info_receive(c) /\ op[c] = "link_info"
      <3>1. CASE e # c
        <4>1. UNCHANGED <<op, verdict>>
          BY <2>7 DEF link_info_receive
        <4>2. DOMAIN pc = Callers /\ DOMAIN out = Callers /\ DOMAIN heard = Callers
          BY <1>1 DEF TypeOK
        <4>3. \E t : pc' = [pc EXCEPT ![c] = t]
          BY <2>7 DEF link_info_receive
        <4>4. out' = out \/ \E t : out' = [out EXCEPT ![c] = t]
          BY <2>7 DEF link_info_receive
        <4>5. heard' = [heard EXCEPT ![c] = TRUE]
          BY <2>7 DEF link_info_receive
        <4>6. pc'[e] = pc[e] /\ out'[e] = out[e] /\ heard'[e] = heard[e]
          BY ONLY <3>1, <4>2, <4>3, <4>4, <4>5, e \in Callers, c \in Callers
        <4>7. QED
          BY <1>3, <4>1, <4>6
      <3>2. CASE e = c
        <4>1. /\ Head(queue[fd[c]]) \in Datagrams
              /\ op'[c] = "link_info"
          BY <1>1, <2>7, TakeType DEF link_info_receive
        <4>2. \A n \in Head(queue[fd[c]]).news : n[2] \in {"up", "down"}
          BY <4>1 DEF Datagrams, LinkStates
        <4>3. out'[c] \in {out[c], "up", "down"}
          <5>1. DOMAIN out = Callers
            BY <1>1 DEF TypeOK
          <5>2. \/ out' = out
                \/ \E n \in Head(queue[fd[c]]).news : out' = [out EXCEPT ![c] = n[2]]
            BY <2>7, Zenon DEF link_info_receive
          <5>3. out' = out \/ \E t \in {"up", "down"} : out' = [out EXCEPT ![c] = t]
            BY <4>2, <5>2, Zenon
          <5>4. QED
            BY ONLY <5>1, <5>3, c \in Callers
        <4>4. out[c] \in {"zero", "up", "down"}
          BY <1>2, <2>7, <3>2 DEF OutCall, link_info_receive
        <4>5. QED
          BY <3>2, <4>1, <4>3, <4>4 DEF OutCall, ShowOps, SetOps
      <3>3. QED
        BY <3>1, <3>2
    <2>8. CASE UNCHANGED vars
      BY <1>3, <2>8 DEF vars
    <2>9. CASE Close(c)
      BY <1>1, <1>2, <2>9 DEF Close, OutCall, TypeOK
    <2>10. QED
      BY <1>6, <2>1, <2>2, <2>3, <2>4, <2>5, <2>6, <2>7, <2>8, <2>9, StepCases
  <1>7. CASE UNCHANGED vars
    BY <1>3, <1>7 DEF vars
  <1>8. QED
    BY <1>4, <1>5, <1>6, <1>7 DEF Next

\* Every step of the library is a step of AtomicCalls or invisible.
LEMMA AtomicStep ==
    ASSUME IInv, IInv', InfoInv, InfoInv', OutInv, [Next]_vars
    PROVE  [Atomic!Next]_(Atomic!vars)
  <1> USE DEF kernelVars, socketVars, callVars, history
  <1>1. TypeOK /\ TypeOK' /\ AnswersAreMine /\ CallShape /\ VerdictStands'
    BY DEF IInv
  <1>2. ASSUME NEW c \in Callers, NEW o \in Ops, NEW d \in Devices, Call(c, o, d)
        PROVE  Atomic!Begin(c, o, d)
    <2> DEFINE decision == [e \in Callers |-> IF op[e] \in AckOps \cup SetOps
                                              THEN verdict[e] ELSE "unsent"]
               answered == [e \in Callers |-> pc[e] = "idle" /\ heard[e]]
               report == [e \in Callers |-> IF pc[e] = "idle" THEN out[e]
                                                              ELSE "none"]
               calling == {e \in Callers : pc[e] # "idle"}
    <2>1. /\ pc[c] = "idle" /\ pc'[c] # "idle" /\ verdict'[c] = "unsent"
          /\ heard'[c] = FALSE
          /\ \A e \in Callers \ {c} :
                /\ pc'[e] = pc[e] /\ op'[e] = op[e] /\ verdict'[e] = verdict[e]
                /\ heard'[e] = heard[e] /\ out'[e] = out[e]
      BY <1>1, <1>2 DEF Call, TypeOK
    <2>2. c \notin calling /\ calling' = calling \cup {c}
      BY <2>1
    <2>3. decision' = [decision EXCEPT ![c] = "unsent"]
      BY <2>1
    <2>4. answered' = [answered EXCEPT ![c] = FALSE]
      <3>1. answered' = [e \in Callers |-> pc'[e] = "idle" /\ heard'[e]]
        OBVIOUS
      <3>2. [answered EXCEPT ![c] = FALSE]
            = [e \in Callers |-> IF e = c THEN FALSE ELSE answered[e]]
        BY Zenon
      <3>3. \A e \in Callers \ {c} : (pc'[e] = "idle" /\ heard'[e]) = answered[e]
        BY <2>1, Zenon
      <3>4. (pc'[c] = "idle" /\ heard'[c]) = FALSE
        BY <2>1, Zenon
      <3>5. QED
        BY <3>1, <3>2, <3>3, <3>4, Zenon
    <2>5. report' = [report EXCEPT ![c] = "none"]
      BY <2>1
    <2>6. /\ op' = [op EXCEPT ![c] = o]
          /\ dev' = [dev EXCEPT ![c] = IF o \in LinkOps THEN d ELSE NoDev]
          /\ seen' = [seen EXCEPT ![c] = IF o \in LinkOps THEN {link[d]} ELSE {}]
          /\ UNCHANGED <<link, config>>
      BY <1>2 DEF Call
    <2>7. Atomic!LinkOps = LinkOps
      BY DEF Atomic!LinkOps, LinkOps, SetOps
    <2> HIDE DEF calling, answered, report, decision
    <2>8. QED
      BY <2>2, <2>3, <2>4, <2>5, <2>6, <2>7
         DEF Atomic!Begin, calling, answered, report, decision
  <1>3. ASSUME NEW d \in Devices, LinkChange(d)
        PROVE  Atomic!LinkChange(d)
    <2>1. PICK s \in LinkStates \ {link[d]} :
             /\ link' = [link EXCEPT ![d] = s]
             /\ Observe([link EXCEPT ![d] = s])
      BY <1>3 DEF LinkChange
    <2>2. Atomic!Witness(link')
      BY <2>1 DEF Atomic!Witness, Observe
    <2>3. UNCHANGED <<config, op, dev, pc, verdict, heard, out>>
      BY <1>3 DEF LinkChange
    <2>4. Atomic!LinkStates = LinkStates
      BY DEF Atomic!LinkStates, LinkStates
    <2>5. QED
      BY <2>1, <2>2, <2>3, <2>4 DEF Atomic!LinkChange
  <1>4. ASSUME NEW c \in Callers, Step(c)
        PROVE  Atomic!Decide(c) \/ Atomic!Return(c) \/ UNCHANGED Atomic!vars
    <2>1. CASE Lookup(c) /\ op[c] \in LinkOps
      <3>1. /\ pc[c] = "lookup" /\ heard'[c] = FALSE /\ verdict[c] = "unsent"
            /\ UNCHANGED <<link, config, op, dev, seen, verdict, heard>>
            /\ \A e \in Callers \ {c} : out'[e] = out[e]
        BY <1>1, <2>1 DEF Lookup, CallShape, Before, TypeOK
      <3>2. CASE pc' = [pc EXCEPT ![c] = "idle"] /\ out'[c] = "no device"
        <4>1. Atomic!MayReport(c, heard'[c], out'[c])
          BY <2>1, <3>1, <3>2, ChangesAreAcked
             DEF Atomic!MayReport, LinkOps, SetOps, AckOps, Atomic!LinkOps
        <4>2. QED
          BY <1>1, <3>1, <3>2, <4>1, ReturnsReport
      <3>3. CASE pc' = [pc EXCEPT ![c] = "socket"] /\ out' = out
        BY <1>1, <3>1, <3>3, Invisible DEF TypeOK
      <3>4. \/ /\ pc' = [pc EXCEPT ![c] = "idle"]
               /\ out' = [out EXCEPT ![c] = "no device"]
            \/ pc' = [pc EXCEPT ![c] = "socket"] /\ out' = out
        BY <2>1, Zenon DEF Lookup
      <3>5. DOMAIN out = Callers
        BY <1>1 DEF TypeOK
      <3>6. out' = [out EXCEPT ![c] = "no device"] => out'[c] = "no device"
        BY <3>5
      <3>7. QED
        BY <3>2, <3>3, <3>4, <3>6
    <2>2. CASE Socket(c) \/ SendFails(c)
      <3>1. /\ UNCHANGED <<link, config, op, dev, seen, verdict, heard, out>>
            /\ \A e \in Callers : pc'[e] = "idle" <=> pc[e] = "idle"
        BY <1>1, <2>2 DEF Socket, SendFails, TypeOK
      <3>2. QED
        BY <3>1, Invisible
    <2>3. CASE SendChange(c, Ask(c)) /\ op[c] \in AckOps \cup SetOps
      <3>1. PICK v \in {Judge(Ask(c), link, config)} \cup Refusals :
              /\ link' = IF v = "OK" THEN NewLink(Ask(c), link) ELSE link
              /\ config' = IF v = "OK" THEN NewConfig(Ask(c), config) ELSE config
              /\ verdict' = [verdict EXCEPT ![c] = v]
              /\ Observe(IF v = "OK" THEN NewLink(Ask(c), link) ELSE link)
        BY <2>3 DEF SendChange
      <3>2. /\ pc[c] = "send" /\ verdict[c] = "unsent"
            /\ UNCHANGED <<op, dev, heard, out>>
            /\ \A e \in Callers : pc'[e] = "idle" <=> pc[e] = "idle"
        BY <1>1, <2>3 DEF SendChange, CallShape, Before, TypeOK
      <3>3. Atomic!Witness(link')
        BY <3>1 DEF Atomic!Witness, Observe
      <3>4. [e \in Callers |-> IF op'[e] \in AckOps \cup SetOps
                               THEN verdict'[e] ELSE "unsent"]
            = [[e \in Callers |-> IF op[e] \in AckOps \cup SetOps
                                  THEN verdict[e] ELSE "unsent"] EXCEPT ![c] = v]
        BY <1>1, <2>3, <3>1, <3>2 DEF TypeOK
      <3>5. {e \in Callers : pc'[e] # "idle"} = {e \in Callers : pc[e] # "idle"}
        BY <3>2
      <3>6. [e \in Callers |-> pc'[e] = "idle" /\ heard'[e]]
            = [e \in Callers |-> pc[e] = "idle" /\ heard[e]]
        BY <3>2, Zenon
      <3>7. [e \in Callers |-> IF pc'[e] = "idle" THEN out'[e] ELSE "none"]
            = [e \in Callers |-> IF pc[e] = "idle" THEN out[e] ELSE "none"]
        BY <3>2
      <3>8. /\ Atomic!Judge(Ask(c), link, config) = Judge(Ask(c), link, config)
            /\ Atomic!NewLink(Ask(c), link) = NewLink(Ask(c), link)
            /\ Atomic!NewConfig(Ask(c), config) = NewConfig(Ask(c), config)
        BY DEF Atomic!Judge, Judge, Atomic!NewLink, NewLink, Atomic!NewConfig,
               NewConfig
      <3>9. Atomic!Decide(c)
        BY <2>3, <3>1, <3>2, <3>3, <3>4, <3>5, <3>6, <3>7, <3>8, ChangesAreAcked
           DEF Atomic!Decide, Ask
      <3>10. QED
        BY <3>9
    <2>4. CASE SendDump(c) /\ op[c] \in ShowOps \cup {"link_info"}
      <3>1. op[c] \notin AckOps \cup SetOps
        BY <2>4 DEF ShowOps, AckOps, SetOps
      <3>2. \A e \in Callers \ {c} : verdict'[e] = verdict[e]
        BY <1>1, <2>4 DEF SendDump, TypeOK
      <3>3. /\ UNCHANGED <<link, config, op, dev, seen, heard, out>>
            /\ \A e \in Callers : pc'[e] = "idle" <=> pc[e] = "idle"
        BY <1>1, <2>4 DEF SendDump, TypeOK
      <3>4. QED
        BY <3>1, <3>2, <3>3, Invisible
    <2>5. CASE RecvAck(c) /\ op[c] \in AckOps \cup SetOps
      <3>1. PICK h \in Headers : /\ util_get_msg(c, h)
                                 /\ out' = [out EXCEPT ![c] = Printed(h)]
        BY <2>5 DEF RecvAck
      <3>2. /\ pc[c] = "recv"
            /\ UNCHANGED <<link, config, op, dev, seen, verdict>>
            /\ \A e \in Callers \ {c} : heard'[e] = heard[e] /\ out'[e] = out[e]
        BY <1>1, <2>5, <3>1 DEF RecvAck, util_get_msg, TypeOK
      <3>3. CASE op[c] \in SetOps
        <4>1. \A e \in Callers : pc'[e] = "idle" <=> pc[e] = "idle"
          BY <1>1, <2>5, <3>3 DEF RecvAck, TypeOK
        <4>2. QED
          BY <3>2, <4>1, Invisible
      <3>4. CASE op[c] \in AckOps /\ op[c] \notin SetOps
        <4>1. pc' = [pc EXCEPT ![c] = "idle"] /\ pc'[c] = "idle"
          BY <1>1, <2>5, <3>4 DEF RecvAck, ReturnLeaking, TypeOK
        <4>2. out'[c] = Printed(h) /\ Printed(h) # "no device"
          BY <1>1, <3>1 DEF Printed, TypeOK
        <4>3. heard'[c] => out'[c] = Printed(verdict[c])
          BY <1>1, <2>5, <3>2, <4>1 DEF VerdictStands
        <4>4. heard'[c] => verdict[c] # "unsent"
          <5>1. heard'[c] => Take(c)
            BY <1>1, <3>1 DEF util_get_msg, TypeOK
          <5>2. QED
            BY <1>1, <2>5, <5>1 DEF RecvAck, Take, AnswersAreMine
        <4>5. heard'[c] => Printed(verdict[c]) = Atomic!Wording(verdict[c])
          BY <1>1, <4>4 DEF Printed, Atomic!Wording, TypeOK, Verdicts
        <4>6. Atomic!MayReport(c, heard'[c], out'[c])
          BY <2>5, <4>2, <4>3, <4>4, <4>5, ChangesAreAcked DEF Atomic!MayReport
        <4>7. QED
          BY <1>1, <3>2, <4>1, <4>6, ReturnsReport
      <3>5. QED
        BY <2>5, <3>3, <3>4
    <2>6. CASE RecvShow(c) /\ op[c] \in ShowOps
      <3>1. /\ pc[c] = "recv"
            /\ UNCHANGED <<link, config, op, dev, seen, verdict, out>>
            /\ \A e \in Callers \ {c} : heard'[e] = heard[e]
        BY <1>1, <2>6 DEF RecvShow, util_get_msg, TypeOK
      <3>2. CASE UNCHANGED pc
        BY <3>1, <3>2, Invisible
      <3>3. CASE pc' = [pc EXCEPT ![c] = "idle"]
        <4>1. out'[c] = "none"
          BY <2>6, <3>1 DEF OutInv, OutCall
        <4>2. Atomic!MayReport(c, heard'[c], out'[c])
          BY <2>6, <4>1 DEF Atomic!MayReport, ShowOps
        <4>3. QED
          BY <1>1, <3>1, <3>3, <4>2, ReturnsReport
      <3>4. QED
        BY <2>6, <3>2, <3>3 DEF RecvShow, ReturnLeaking
    <2>7. CASE link_info_receive(c) /\ op[c] = "link_info"
      <3>1. /\ pc[c] = "recv"
            /\ UNCHANGED <<link, config, op, dev, seen, verdict>>
        BY <2>7 DEF link_info_receive
      <3>2. DOMAIN pc = Callers /\ DOMAIN out = Callers /\ DOMAIN heard = Callers
        BY <1>1 DEF TypeOK
      <3>3. \E t \in {"recv", "close"} : pc' = [pc EXCEPT ![c] = t]
        BY <2>7 DEF link_info_receive
      <3>4. out' = out \/ \E t : out' = [out EXCEPT ![c] = t]
        BY <2>7 DEF link_info_receive
      <3>5. heard' = [heard EXCEPT ![c] = TRUE]
        BY <2>7 DEF link_info_receive
      <3>6. \A e \in Callers : pc'[e] = "idle" <=> pc[e] = "idle"
        BY ONLY <3>1, <3>2, <3>3, c \in Callers
      <3>7. \A e \in Callers \ {c} : heard'[e] = heard[e] /\ out'[e] = out[e]
        BY ONLY <3>2, <3>4, <3>5, c \in Callers
      <3>8. QED
        BY <3>1, <3>6, <3>7, Invisible
    <2>8. CASE UNCHANGED vars
      BY <2>8, Invisible DEF vars
    <2>9. CASE Close(c) /\ op[c] \in LinkOps
      <3>1. /\ pc[c] = "close" /\ pc' = [pc EXCEPT ![c] = "idle"]
            /\ pc'[c] = "idle"
            /\ UNCHANGED <<link, config, op, dev, seen, verdict, heard, out>>
        BY <1>1, <2>9 DEF Close, TypeOK
      <3>2. OutCall(c) /\ InfoCall(c)
        BY DEF OutInv, InfoInv
      <3>3. CASE op[c] \in SetOps
        <4>1. heard[c] => verdict[c] # "unsent" /\ out[c] = Printed(verdict[c])
          BY <1>1, <3>1, <3>2, <3>3 DEF OutCall, VerdictStands
        <4>2. heard[c] => Printed(verdict[c]) = Atomic!Wording(verdict[c])
          BY <1>1, <4>1 DEF Printed, Atomic!Wording, TypeOK, Verdicts
        <4>3. out[c] # "no device"
          BY <3>1, <3>2, <3>3 DEF OutCall
        <4>4. Atomic!MayReport(c, heard'[c], out'[c])
          BY <3>1, <3>3, <4>1, <4>2, <4>3, ChangesAreAcked DEF Atomic!MayReport
        <4>5. QED
          BY <1>1, <3>1, <4>4, ReturnsReport
      <3>4. CASE op[c] = "link_info"
        <4>1. out[c] \in {"zero", "up", "down"}
          BY <3>1, <3>2, <3>4 DEF OutCall
        <4>2. /\ out[c] \in {"up", "down"} => out[c] \in seen[c]
              /\ out[c] = "zero" => "absent" \in seen[c]
          BY <3>1, <3>2, <3>4 DEF InfoCall
        <4>3. Atomic!MayReport(c, heard'[c], out'[c])
          BY <3>1, <3>4, <4>1, <4>2 DEF Atomic!MayReport
        <4>4. QED
          BY <1>1, <3>1, <4>3, ReturnsReport
      <3>5. QED
        BY <2>9, <3>3, <3>4 DEF LinkOps
    <2>10. SendFails(c) \/ SendChange(c, Ask(c)) \/ pc[c] # "send"
           \/ op[c] \notin AckOps \cup SetOps
      BY <1>4, AsksOwn
    <2>11. QED
      BY <1>4, <2>1, <2>2, <2>3, <2>4, <2>5, <2>6, <2>7, <2>8, <2>9, <2>10,
         StepCases DEF SendChange
  <1>5. CASE UNCHANGED vars
    BY <1>5, Invisible DEF vars
  <1>6. QED
    BY <1>2, <1>3, <1>4, <1>5 DEF Next, Atomic!Next

\* To its callers every operation is atomic, however the system calls of several
\* threads interleave and whichever fail: a change acts at most once and at one
\* instant, a report on the kernel's word is of that instant, and what link_info
\* returns was so.
THEOREM ClientImplements == Spec => ImplementsAtomicCalls
  <1> DEFINE RInv == IInv /\ InfoInv /\ OutInv
  <1>1. Init => Atomic!Init
    <2> SUFFICES ASSUME Init
                 PROVE  Atomic!Init
      OBVIOUS
    <2>1. {c \in Callers : pc[c] # "idle"} = {}
      BY DEF Init
    <2>2. [c \in Callers |-> IF op[c] \in AckOps \cup SetOps
                             THEN verdict[c] ELSE "unsent"]
          = [c \in Callers |-> "unsent"]
      BY DEF Init
    <2>3. [c \in Callers |-> pc[c] = "idle" /\ heard[c]] = [c \in Callers |-> FALSE]
      BY Zenon DEF Init
    <2>4. [c \in Callers |-> IF pc[c] = "idle" THEN out[c] ELSE "none"]
          = [c \in Callers |-> "none"]
      BY DEF Init
    <2>5. /\ link \in [Devices -> Atomic!LinkStates] /\ config = {Atomic!DelIp}
          /\ op = [c \in Callers |-> "none"] /\ dev = [c \in Callers |-> NoDev]
          /\ seen = [c \in Callers |-> {}]
      BY DEF Init, Atomic!LinkStates, LinkStates, Atomic!DelIp, DelIp
    <2>6. QED
      BY <2>1, <2>2, <2>3, <2>4, <2>5 DEF Atomic!Init
  <1>2. Init => OutInv
    BY DEF Init, OutInv, OutCall
  <1>3. IInv /\ IInv' /\ OutInv /\ [Next]_vars => OutInv'
    BY OutStep
  <1>4. IInv /\ IInv' /\ InfoInv /\ InfoInv' /\ OutInv /\ [Next]_vars
           => [Atomic!Next]_(Atomic!vars)
    BY AtomicStep
  <1>5. QED
    BY <1>1, <1>2, <1>3, <1>4, InvCorrect, InfoInvCorrect, PTL
       DEF Spec, ImplementsAtomicCalls, Atomic!Spec

-----------------------------------------------------------------------------
(* Descriptors to spare.                                                     *)

\* While a caller holds none, fewer descriptors are held than there are callers.
LEMMA HeldFew ==
    ASSUME TypeOK, NEW c \in Callers, fd[c] = -1
    PROVE  /\ IsFiniteSet(Held) /\ Cardinality(Held) \in Nat
           /\ Cardinality(Callers) \in Nat
           /\ Cardinality(Held) < Cardinality(Callers)
  <1> DEFINE H == {e \in Callers : fd[e] # -1}
             g == [e \in H |-> fd[e]]
  <1>1. IsFiniteSet(Callers) /\ Cardinality(Callers) \in Nat
    BY ClientAssumption, FS_CardinalityType
  <1>2. /\ IsFiniteSet(Callers \ {c}) /\ Cardinality(Callers \ {c}) = Cardinality(Callers) - 1
    BY <1>1, FS_RemoveElement
  <1>3. /\ IsFiniteSet(H) /\ Cardinality(H) <= Cardinality(Callers) - 1
        /\ Cardinality(H) \in Nat
    <2>1. H \in SUBSET (Callers \ {c})
      OBVIOUS
    <2>2. QED
      BY <1>2, <2>1, FS_Subset, FS_CardinalityType
  <1>4. Held = {fd[e] : e \in H}
    BY DEF Held
  <1>5. g \in Surjection(H, Held)
    BY <1>4 DEF Surjection
  <1> HIDE DEF g, H
  <1>6. IsFiniteSet(Held) /\ Cardinality(Held) <= Cardinality(H)
    BY <1>3, <1>5, FS_Surjection
  <1>7. Cardinality(Held) \in Nat
    BY <1>6, FS_CardinalityType
  <1>8. QED
    BY <1>1, <1>3, <1>6, <1>7

\* So a caller that holds none finds a free one, unless one has leaked.
LEMMA OneIsFree ==
    ASSUME TypeOK, DescriptorsAccounted, leaked = {}, Spare,
           NEW c \in Callers, fd[c] = -1
    PROVE  open # Fds
  <1> SUFFICES ASSUME open = Fds
               PROVE  FALSE
    OBVIOUS
  <1>1. Fds \ Inherited \in SUBSET Held
    BY DEF DescriptorsAccounted
  <1>2. /\ Cardinality(Fds \ Inherited) <= Cardinality(Held)
        /\ Cardinality(Fds \ Inherited) \in Nat
    BY <1>1, HeldFew, FS_Subset, FS_CardinalityType
  <1>3. QED
    BY <1>2, HeldFew DEF Spare

\* Every step of a call keeps it: a call only goes without a descriptor, and a
\* name is only reported missing that exists, when none is free.
LEMMA ExhaustionStep ==
    ASSUME Spare, IInv, InfoInv, ExhaustionNeedsLeak, NEW c \in Callers, Step(c)
    PROVE  ExhaustionNeedsLeak'
  <1> USE DEF kernelVars, socketVars, callVars, history
  <1>1. /\ TypeOK /\ DescriptorsAccounted /\ CallShape /\ InfoCall(c)
    BY DEF IInv, InfoInv
  <1> SUFFICES ASSUME leaked' = {}, NEW e \in Callers
               PROVE  /\ pc'[e] \in {"send", "recv", "close"} => fd'[e] # -1
                      /\ out'[e] = "no device" => "absent" \in seen'[e]
    BY DEF ExhaustionNeedsLeak
  <1> DEFINE Good == /\ pc'[e] \in {"send", "recv", "close"} => fd'[e] # -1
                     /\ out'[e] = "no device" => "absent" \in seen'[e]
  <1>2. leaked = {}
    BY StepCases DEF Lookup, Socket, SendFails, SendChange, SendDump, RecvAck,
                     RecvShow, link_info_receive, ReturnLeaking, Close, vars
  <1>3. /\ pc[e] \in {"send", "recv", "close"} => fd[e] # -1
        /\ out[e] = "no device" => "absent" \in seen[e]
    BY <1>2 DEF ExhaustionNeedsLeak
  <1>4. CASE Lookup(c) /\ op[c] \in LinkOps
    <2>1. fd[c] = -1 /\ dev[c] # NoDev /\ pc[c] = "lookup"
      BY <1>1, <1>4 DEF CallShape, Lookup
    <2>2. open # Fds
      BY <1>1, <1>2, <2>1, OneIsFree
    <2>3. out'[c] = "no device" => out[c] = "no device" \/ link[dev[c]] = "absent"
      BY <1>1, <1>4, <2>2 DEF Lookup, TypeOK
    <2>4. link[dev[c]] \in seen[c]
      BY <1>1, <2>1 DEF InfoCall
    <2>5. CASE e = c
      <3>1. pc'[e] \in {"idle", "socket"} /\ seen'[e] = seen[e]
        BY <1>1, <1>4, <2>5 DEF Lookup, TypeOK
      <3>2. QED
        BY <1>3, <2>3, <2>4, <2>5, <3>1
    <2>6. CASE e # c
      <3>1. /\ pc'[e] = pc[e] /\ seen'[e] = seen[e] /\ fd'[e] = fd[e]
            /\ out'[e] = out[e]
        BY <1>1, <1>4, <2>6 DEF Lookup, TypeOK
      <3>2. QED
        BY <1>3, <3>1
    <2>7. QED
      BY <2>5, <2>6
  <1>5. CASE Socket(c)
    <2>1. fd[c] = -1
      BY <1>1, <1>5 DEF CallShape, Socket
    <2>2. open # Fds
      BY <1>1, <1>2, <2>1, OneIsFree
    <2>3. PICK f \in Fds \ open : fd' = [fd EXCEPT ![c] = f]
      BY <1>5, <2>2 DEF Socket, Spare
    <2>4. f # -1
      BY DEF Fds
    <2>5. fd'[c] = f /\ \A b \in Callers : b # c => fd'[b] = fd[b] /\ pc'[b] = pc[b]
      BY <1>1, <1>5, <2>3 DEF Socket, TypeOK
    <2>6. out' = out /\ seen' = seen
      BY <1>5 DEF Socket
    <2>7. QED
      BY <1>3, <2>4, <2>5, <2>6
  <1>6. CASE SendFails(c) \/ SendDump(c)
    BY <1>1, <1>3, <1>6 DEF SendFails, SendDump, TypeOK
  <1>7. ASSUME NEW r, SendChange(c, r)
        PROVE  Good
    <2>1. seen[e] \subseteq seen'[e]
      BY <1>1, <1>7, ObserveGrows DEF SendChange
    <2>2. QED
      BY <1>1, <1>3, <1>7, <2>1 DEF SendChange, TypeOK
  <1>8. CASE RecvAck(c)
    <2>1. PICK h \in Headers : out' = [out EXCEPT ![c] = Printed(h)]
      BY <1>8 DEF RecvAck
    <2>2. Printed(h) # "no device"
      BY DEF Printed
    <2>3. out'[e] = "no device" => out[e] = "no device"
      BY <1>1, <2>1, <2>2 DEF TypeOK
    <2>4. seen' = seen
      BY <1>8 DEF RecvAck
    <2>5. pc'[e] \in {"send", "recv", "close"} => fd'[e] # -1
      BY <1>1, <1>3, <1>8 DEF RecvAck, ReturnLeaking, TypeOK
    <2>6. QED
      BY <1>3, <2>3, <2>4, <2>5
  <1>9. CASE RecvShow(c)
    BY <1>1, <1>3, <1>9 DEF RecvShow, ReturnLeaking, TypeOK
  <1>10. CASE link_info_receive(c)
    <2>1. out'[e] = "no device" => out[e] = "no device"
      <3>1. Take(c)
        BY <1>10 DEF link_info_receive
      <3>2. Head(queue[fd[c]]) \in Datagrams
        BY <1>1, <3>1, TakeType
      <3>3. \A n \in Head(queue[fd[c]]).news : n[2] # "no device"
        BY <3>2 DEF Datagrams, LinkStates
      <3>4. CASE UNCHANGED out
        BY <3>4
      <3>5. CASE \E n \in Head(queue[fd[c]]).news : out' = [out EXCEPT ![c] = n[2]]
        <4>1. PICK n \in Head(queue[fd[c]]).news : out' = [out EXCEPT ![c] = n[2]]
          BY <3>5
        <4>2. QED
          BY <1>1, <3>3, <4>1 DEF TypeOK
      <3>6. QED
        BY <1>10, <3>4, <3>5 DEF link_info_receive
    <2>2. /\ seen' = seen
          /\ pc'[e] \in {"send", "recv", "close"} => fd'[e] # -1
      BY <1>1, <1>3, <1>10 DEF link_info_receive, TypeOK
    <2>3. QED
      BY <1>3, <2>1, <2>2
  <1>11. CASE Close(c)
    BY <1>1, <1>3, <1>11 DEF Close, TypeOK
  <1>12. CASE UNCHANGED vars
    BY <1>3, <1>12 DEF vars
  <1>13. QED
    BY <1>4, <1>5, <1>6, <1>7, <1>8, <1>9, <1>10, <1>11, <1>12, StepCases

\* With as many descriptors left by others as there are callers, and sockets to
\* be had, a call goes without one, and a name that exists is reported missing,
\* only after a call has leaked its own.
THEOREM ExhaustionCorrect ==
    ASSUME Spare
    PROVE  Spec => []ExhaustionNeedsLeak
  <1> USE DEF kernelVars, socketVars, callVars, history
  <1>1. Init => ExhaustionNeedsLeak
    BY DEF Init, ExhaustionNeedsLeak
  <1>2. ASSUME IInv, InfoInv, ExhaustionNeedsLeak,
               NEW c \in Callers, NEW o \in Ops, NEW d \in Devices, Call(c, o, d)
        PROVE  ExhaustionNeedsLeak'
    <2>1. /\ \A e \in Callers : e # c => /\ pc'[e] = pc[e] /\ fd'[e] = fd[e]
                                         /\ out'[e] = out[e] /\ seen'[e] = seen[e]
          /\ pc'[c] \in {"lookup", "socket"} /\ out'[c] # "no device"
          /\ leaked' = leaked
      BY <1>2 DEF IInv, TypeOK, Call
    <2>2. QED
      BY <1>2, <2>1 DEF ExhaustionNeedsLeak
  <1>3. ASSUME IInv, ExhaustionNeedsLeak, NEW d \in Devices, LinkChange(d)
        PROVE  ExhaustionNeedsLeak'
    <2>1. /\ UNCHANGED <<pc, fd, out, leaked>>
          /\ \A e \in Callers : seen[e] \subseteq seen'[e]
      BY <1>3, ObserveGrows DEF LinkChange, IInv
    <2>2. QED
      BY <1>3, <2>1 DEF ExhaustionNeedsLeak
  <1>4. ASSUME ExhaustionNeedsLeak, UNCHANGED vars
        PROVE  ExhaustionNeedsLeak'
    BY <1>4 DEF vars, ExhaustionNeedsLeak
  <1>5. IInv /\ InfoInv /\ ExhaustionNeedsLeak /\ [Next]_vars => ExhaustionNeedsLeak'
    BY <1>2, <1>3, <1>4, ExhaustionStep DEF Next
  <1>6. QED
    BY <1>1, <1>5, InvCorrect, InfoInvCorrect, PTL DEF Spec
=============================================================================
