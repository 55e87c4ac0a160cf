--------------------------- MODULE EventLoop_proofs ---------------------------
(***************************************************************************)
(* Safety of nettool's event loop, for any devices, any room of the        *)
(* receive buffer and any number of changes: a change that the loop has    *)
(* not shown is queued, or an error of recvmsg() is due or was printed.    *)
(***************************************************************************)
EXTENDS EventLoop, SequenceTheorems, TLAPS

\* What of the notices of a device stands in a sequence of messages: none, or a
\* last one with the flags f.
About(m, d) == m.type = "NEWLINK" /\ m.dev = d
NoneIn(s, d) == \A j \in 1..Len(s) : ~About(s[j], d)
LastIn(s, d, f) ==
    \E j \in 1..Len(s) :
        /\ About(s[j], d)
        /\ s[j].flags = f
        /\ \A k \in 1..Len(s) : k > j => ~About(s[k], d)

NoneQueued(q, d) == \A i \in 1..Len(q) : NoneIn(q[i], d)
LastQueued(q, d, f) ==
    \E i \in 1..Len(q) :
        /\ LastIn(q[i], d, f)
        /\ \A k \in 1..Len(q) : k > i => NoneIn(q[k], d)

\* The flags of the last notice in the datagram that is handled, or that was
\* handled when none is left there.
LastRead(b, sh, d, f) == LastIn(b, d, f) \/ (NoneIn(b, d) /\ sh[d] = f)

\* The last notice of the device, queued, read or shown, has its flags.
Latest(d) ==
    \/ LastQueued(queue, d, flags[d])
    \/ NoneQueued(queue, d) /\ LastRead(buf, shown, d, flags[d])

\* Without an error of recvmsg(), due or printed, nothing is dropped.
Complete ==
    Bound /\ ~soerr /\ announced = 0 =>
        /\ ~congested
        /\ \A d \in touched \cap present : Latest(d)

EInv ==
    /\ TypeOK
    /\ NeverBlocks
    /\ buf # <<>> => pc = "parse"
    /\ pc = "start" => queue = <<>> /\ touched = {} /\ congested = FALSE
    /\ Complete

-----------------------------------------------------------------------------
(* Sequences of messages.                                                    *)

\* A notice that is appended is the last one.
LEMMA AppendMessage ==
    ASSUME NEW s \in Seq(Messages), NEW m \in Messages, NEW d, NEW f
    PROVE  /\ Append(s, m) \in Seq(Messages)
           /\ About(m, d) /\ m.flags = f => LastIn(Append(s, m), d, f)
           /\ ~About(m, d) /\ NoneIn(s, d) => NoneIn(Append(s, m), d)
           /\ ~About(m, d) /\ LastIn(s, d, f) => LastIn(Append(s, m), d, f)
<1> DEFINE t == Append(s, m)
<1>1. /\ t \in Seq(Messages) /\ Len(t) = Len(s) + 1 /\ Len(s) \in Nat
      /\ t[Len(t)] = m
      /\ \A j \in 1..Len(s) : t[j] = s[j]
  OBVIOUS
<1> HIDE DEF t
<1>2. ASSUME About(m, d), m.flags = f PROVE LastIn(t, d, f)
  BY <1>1, <1>2 DEF LastIn
<1>3. ASSUME ~About(m, d), NoneIn(s, d) PROVE NoneIn(t, d)
  BY <1>1, <1>3 DEF NoneIn
<1>4. ASSUME ~About(m, d), LastIn(s, d, f) PROVE LastIn(t, d, f)
  <2>1. PICK j \in 1..Len(s) : /\ About(s[j], d) /\ s[j].flags = f
                               /\ \A k \in 1..Len(s) : k > j => ~About(s[k], d)
    BY <1>4 DEF LastIn
  <2>2. /\ j \in 1..Len(t) /\ About(t[j], d) /\ t[j].flags = f
    BY <1>1, <2>1
  <2>3. ASSUME NEW k \in 1..Len(t), k > j PROVE ~About(t[k], d)
    <3>1. k \in 1..Len(s) \/ k = Len(t)
      BY <1>1
    <3> QED
      BY <1>1, <1>4, <2>1, <2>3, <3>1
  <2> QED
    BY <2>2, <2>3 DEF LastIn
<1> QED
  BY <1>1, <1>2, <1>3, <1>4 DEF t

\* What is left of a sequence when its first message has been handled.
LEMMA TailMessage ==
    ASSUME NEW s \in Seq(Messages), s # <<>>, NEW d, NEW f
    PROVE  /\ Tail(s) \in Seq(Messages)
           /\ Head(s) \in Messages
           /\ NoneIn(s, d) => NoneIn(Tail(s), d) /\ ~About(Head(s), d)
           /\ LastIn(s, d, f) =>
                 \/ LastIn(Tail(s), d, f)
                 \/ NoneIn(Tail(s), d) /\ About(Head(s), d) /\ Head(s).flags = f
<1> DEFINE t == Tail(s)
<1>1. /\ t \in Seq(Messages) /\ Len(t) = Len(s) - 1 /\ Len(s) \in Nat /\ Len(s) > 0
      /\ Head(s) = s[1] /\ s[1] \in Messages
      /\ \A j \in 1..Len(t) : j + 1 \in 1..Len(s) /\ t[j] = s[j + 1]
  OBVIOUS
<1> HIDE DEF t
<1>2. ASSUME NoneIn(s, d) PROVE NoneIn(t, d) /\ ~About(Head(s), d)
  BY <1>1, <1>2 DEF NoneIn
<1>3. ASSUME LastIn(s, d, f)
      PROVE  \/ LastIn(t, d, f)
             \/ NoneIn(t, d) /\ About(Head(s), d) /\ Head(s).flags = f
  <2>1. PICK j \in 1..Len(s) : /\ About(s[j], d) /\ s[j].flags = f
                               /\ \A k \in 1..Len(s) : k > j => ~About(s[k], d)
    BY <1>3 DEF LastIn
  <2>2. CASE j = 1
    BY <1>1, <2>1, <2>2 DEF NoneIn
  <2>3. CASE j # 1
    <3>1. j - 1 \in 1..Len(t) /\ t[j - 1] = s[j]
      BY <1>1, <2>3
    <3>2. ASSUME NEW k \in 1..Len(t), k > j - 1 PROVE ~About(t[k], d)
      BY <1>1, <2>1, <3>2
    <3> QED
      BY <2>1, <3>1, <3>2 DEF LastIn
  <2> QED
    BY <2>2, <2>3
<1> QED
  BY <1>1, <1>2, <1>3 DEF t

\* A message that is queued, in a datagram of its own or in the last one.
LEMMA QueueMessage ==
    ASSUME NEW q \in Seq(Seq(Messages)), NEW m \in Messages, NEW p, NEW d, NEW f,
           \/ p = Append(q, <<m>>)
           \/ q # <<>> /\ p = [q EXCEPT ![Len(q)] = Append(@, m)]
    PROVE  /\ p \in Seq(Seq(Messages))
           /\ p # <<>>
           /\ About(m, d) /\ m.flags = f => LastQueued(p, d, f)
           /\ ~About(m, d) /\ NoneQueued(q, d) => NoneQueued(p, d)
           /\ ~About(m, d) /\ LastQueued(q, d, f) => LastQueued(p, d, f)
<1>1. Len(q) \in Nat
  OBVIOUS
<1>2. CASE p = Append(q, <<m>>)
  <2>1. /\ p \in Seq(Seq(Messages)) /\ Len(p) = Len(q) + 1 /\ p[Len(p)] = <<m>>
        /\ p # <<>>
        /\ \A i \in 1..Len(q) : p[i] = q[i]
        /\ \A k \in 1..Len(p) : k \in 1..Len(q) \/ k = Len(p)
    BY <1>1, <1>2
  <2>2. /\ About(m, d) /\ m.flags = f => LastIn(<<m>>, d, f)
        /\ ~About(m, d) => NoneIn(<<m>>, d)
    BY DEF LastIn, NoneIn
  <2>3. ASSUME About(m, d), m.flags = f PROVE LastQueued(p, d, f)
    <3>1. LastIn(p[Len(p)], d, f) /\ Len(p) \in 1..Len(p)
      BY <1>1, <2>1, <2>2, <2>3
    <3>2. \A k \in 1..Len(p) : ~(k > Len(p))
      BY <1>1, <2>1
    <3> QED
      BY <3>1, <3>2 DEF LastQueued
  <2>4. ASSUME ~About(m, d), NoneQueued(q, d) PROVE NoneQueued(p, d)
    <3>1. ASSUME NEW k \in 1..Len(p) PROVE NoneIn(p[k], d)
      <4>1. k \in 1..Len(q) \/ k = Len(p)
        BY <2>1
      <4>2. CASE k = Len(p)
        BY <2>1, <2>2, <2>4, <4>2
      <4>3. CASE k \in 1..Len(q)
        <5>1. p[k] = q[k] /\ NoneIn(q[k], d)
          BY <2>1, <2>4, <4>3 DEF NoneQueued
        <5> QED
          BY <5>1
      <4> QED
        BY <4>1, <4>2, <4>3
    <3> QED
      BY <3>1 DEF NoneQueued
  <2>5. ASSUME ~About(m, d), LastQueued(q, d, f) PROVE LastQueued(p, d, f)
    <3>1. PICK i \in 1..Len(q) : /\ LastIn(q[i], d, f)
                                 /\ \A k \in 1..Len(q) : k > i => NoneIn(q[k], d)
      BY <2>5 DEF LastQueued
    <3>2. i \in 1..Len(p) /\ LastIn(p[i], d, f)
      BY <1>1, <2>1, <3>1
    <3>3. ASSUME NEW k \in 1..Len(p), k > i PROVE NoneIn(p[k], d)
      <4>1. k \in 1..Len(q) \/ k = Len(p)
        BY <2>1
      <4>2. CASE k = Len(p)
        BY <2>1, <2>2, <2>5, <4>2
      <4>3. CASE k \in 1..Len(q)
        <5>1. p[k] = q[k] /\ NoneIn(q[k], d)
          BY <2>1, <3>1, <3>3, <4>3
        <5> QED
          BY <5>1
      <4> QED
        BY <4>1, <4>2, <4>3
    <3> QED
      BY <3>2, <3>3 DEF LastQueued
  <2> QED
    BY <2>1, <2>3, <2>4, <2>5
<1>3. CASE q # <<>> /\ p = [q EXCEPT ![Len(q)] = Append(@, m)]
  <2> DEFINE n == Len(q)
             t == Append(q[n], m)
  <2>1. n \in 1..n /\ q[n] \in Seq(Messages)
    BY <1>1, <1>3
  <2>2. /\ t \in Seq(Messages)
        /\ About(m, d) /\ m.flags = f => LastIn(t, d, f)
        /\ ~About(m, d) /\ NoneIn(q[n], d) => NoneIn(t, d)
        /\ ~About(m, d) /\ LastIn(q[n], d, f) => LastIn(t, d, f)
    BY <2>1, AppendMessage
  <2>3. p = [q EXCEPT ![n] = t]
    BY <1>3
  <2> HIDE DEF t
  <2>4. /\ p \in Seq(Seq(Messages)) /\ Len(p) = n /\ p[n] = t
        /\ \A i \in 1..n : i # n => p[i] = q[i]
    BY <2>1, <2>2, <2>3
  <2>5. p # <<>>
    BY <2>1, <2>4
  <2>6. ASSUME About(m, d), m.flags = f PROVE LastQueued(p, d, f)
    BY <1>1, <2>1, <2>2, <2>4, <2>6 DEF LastQueued
  <2>7. ASSUME ~About(m, d), NoneQueued(q, d) PROVE NoneQueued(p, d)
    BY <1>1, <2>1, <2>2, <2>4, <2>7 DEF NoneQueued
  <2>8. ASSUME ~About(m, d), LastQueued(q, d, f) PROVE LastQueued(p, d, f)
    <3>1. PICK i \in 1..Len(q) : /\ LastIn(q[i], d, f)
                                 /\ \A k \in 1..Len(q) : k > i => NoneIn(q[k], d)
      BY <2>8 DEF LastQueued
    <3>2. LastIn(p[i], d, f)
      BY <2>2, <2>4, <2>8, <3>1
    <3>3. ASSUME NEW k \in 1..Len(p), k > i PROVE NoneIn(p[k], d)
      BY <2>2, <2>4, <2>8, <3>1, <3>3
    <3> QED
      BY <2>4, <3>1, <3>2, <3>3 DEF LastQueued
  <2> QED
    BY <2>4, <2>5, <2>6, <2>7, <2>8
<1> QED
  BY <1>2, <1>3

\* A datagram that is taken from the queue.
LEMMA TakeDatagram ==
    ASSUME NEW q \in Seq(Seq(Messages)), q # <<>>, NEW d, NEW f
    PROVE  /\ Tail(q) \in Seq(Seq(Messages)) /\ Head(q) \in Seq(Messages)
           /\ Len(Tail(q)) <= Len(q)
           /\ NoneQueued(q, d) => NoneQueued(Tail(q), d) /\ NoneIn(Head(q), d)
           /\ LastQueued(q, d, f) =>
                 \/ LastQueued(Tail(q), d, f)
                 \/ NoneQueued(Tail(q), d) /\ LastIn(Head(q), d, f)
<1> DEFINE t == Tail(q)
<1>1. /\ t \in Seq(Seq(Messages)) /\ Len(t) = Len(q) - 1 /\ Len(q) \in Nat /\ Len(q) > 0
      /\ Head(q) = q[1] /\ q[1] \in Seq(Messages)
      /\ \A j \in 1..Len(t) : j + 1 \in 1..Len(q) /\ t[j] = q[j + 1]
  OBVIOUS
<1> HIDE DEF t
<1>2. ASSUME NoneQueued(q, d) PROVE NoneQueued(t, d) /\ NoneIn(Head(q), d)
  <2>1. ASSUME NEW k \in 1..Len(t) PROVE NoneIn(t[k], d)
    <3>1. t[k] = q[k + 1] /\ k + 1 \in 1..Len(q)
      BY <1>1
    <3>2. NoneIn(q[k + 1], d)
      BY <1>2, <3>1 DEF NoneQueued
    <3> QED
      BY <3>1, <3>2
  <2> QED
    BY <1>1, <1>2, <2>1 DEF NoneQueued
<1>3. ASSUME LastQueued(q, d, f)
      PROVE  LastQueued(t, d, f) \/ (NoneQueued(t, d) /\ LastIn(Head(q), d, f))
  <2>1. PICK j \in 1..Len(q) : /\ LastIn(q[j], d, f)
                               /\ \A k \in 1..Len(q) : k > j => NoneIn(q[k], d)
    BY <1>3 DEF LastQueued
  <2>2. CASE j = 1
    <3>1. ASSUME NEW k \in 1..Len(t) PROVE NoneIn(t[k], d)
      <4>1. t[k] = q[k + 1] /\ k + 1 \in 1..Len(q) /\ k + 1 > j
        BY <1>1, <2>2
      <4>2. NoneIn(q[k + 1], d)
        BY <2>1, <4>1
      <4> QED
        BY <4>1, <4>2
    <3> QED
      BY <1>1, <2>1, <2>2, <3>1 DEF NoneQueued
  <2>3. CASE j # 1
    <3>1. j - 1 \in 1..Len(t) /\ t[j - 1] = q[j]
      BY <1>1, <2>3
    <3>2. ASSUME NEW k \in 1..Len(t), k > j - 1 PROVE NoneIn(t[k], d)
      <4>1. t[k] = q[k + 1] /\ k + 1 \in 1..Len(q) /\ k + 1 > j
        BY <1>1, <3>2
      <4>2. NoneIn(q[k + 1], d)
        BY <2>1, <4>1
      <4> QED
        BY <4>1, <4>2
    <3> QED
      BY <2>1, <3>1, <3>2 DEF LastQueued
  <2> QED
    BY <2>2, <2>3
<1> QED
  BY <1>1, <1>2, <1>3 DEF t

-----------------------------------------------------------------------------
(* The steps.                                                                *)

\* The loop starts with nothing read and nothing subscribed.
LEMMA InitEInv == Init => EInv
<1> SUFFICES ASSUME Init PROVE EInv
  OBVIOUS
<1>1. /\ queue = <<>> /\ buf = <<>> /\ pc = "start" /\ ~Bound
  BY DEF Init, Bound
<1>2. /\ present \in SUBSET Devices /\ flags \in [Devices -> SUBSET Flags]
      /\ shown \in [Devices -> SUBSET Flags]
      /\ vIfi_flags \in SUBSET Flags /\ touched \in SUBSET Devices
      /\ congested \in BOOLEAN /\ soerr \in BOOLEAN /\ announced \in Nat
  BY Zenon DEF Init
<1>3. changes \in 0..MaxChanges /\ Len(<<>>) <= Room
  BY LoopAssumption DEF Init
<1>4. TypeOK
  BY <1>1, <1>2, <1>3 DEF TypeOK
<1> QED
  BY <1>1, <1>4, Zenon DEF Init, EInv, NeverBlocks, Complete

\* A change of a device that is notified of: what it does to the socket.
LEMMA NotifyKeeps ==
    ASSUME EInv, NEW m \in Messages, Notify(m),
           UNCHANGED <<pc, buf, vIfi_flags, shown, announced>>,
           present' \in SUBSET Devices, flags' \in [Devices -> SUBSET Flags],
           changes' \in 0 .. MaxChanges,
           m.type = "NEWLINK" => flags'[m.dev] = m.flags,
           \A d \in present' : ~About(m, d) => d \in present /\ flags'[d] = flags[d]
    PROVE  EInv'
<1>1. Bound' = Bound /\ (pc = "start" => ~Bound)
  BY DEF Bound
<1>2. touched' = IF Bound /\ m.type = "NEWLINK" THEN touched \cup {m.dev} ELSE touched
  BY DEF Notify
<1>3. /\ touched' \in SUBSET Devices
      /\ queue \in Seq(Seq(Messages)) /\ Len(queue) \in Nat
  BY <1>2 DEF EInv, TypeOK, Messages
<1>4. buf' # <<>> => pc' = "parse"
  BY DEF EInv
<1>5. ASSUME /\ queue' \in Seq(Seq(Messages)) /\ Len(queue') <= Room
             /\ queue' # <<>> => Bound
             /\ congested' \in BOOLEAN /\ soerr' \in BOOLEAN
      PROVE  TypeOK'
  BY <1>1, <1>3, <1>5 DEF EInv, TypeOK
<1>6. CASE ~Bound \/ congested
  <2>1. UNCHANGED <<queue, congested, soerr>>
    BY <1>6 DEF Notify, socketVars
  <2>2. TypeOK'
    BY <1>5, <2>1 DEF EInv, TypeOK
  <2>3. NeverBlocks'
    BY <2>1 DEF EInv, NeverBlocks
  <2>4. Complete'
    BY <1>1, <1>6, <2>1, Zenon DEF EInv, Complete
  <2>5. pc' = "start" => queue' = <<>> /\ touched' = {} /\ congested' = FALSE
    BY <1>1, <1>2, <2>1 DEF EInv
  <2> QED
    BY <1>4, <2>2, <2>3, <2>4, <2>5 DEF EInv
<1>7. CASE Bound /\ ~congested /\ Queued(m) /\ UNCHANGED <<congested, soerr>>
  <2>1. \/ queue' = Append(queue, <<m>>)
        \/ queue # <<>> /\ queue' = [queue EXCEPT ![Len(queue)] = Append(@, m)]
    BY <1>7 DEF Queued
  <2>2. Len(queue') <= Room
    <3>1. Room \in Nat /\ Len(queue) <= Room
      BY LoopAssumption DEF EInv, TypeOK
    <3>2. CASE Len(queue) < Room /\ queue' = Append(queue, <<m>>)
      BY <1>3, <3>1, <3>2
    <3>3. CASE queue' = [queue EXCEPT ![Len(queue)] = Append(@, m)]
      BY <1>3, <3>1, <3>3
    <3> QED
      BY <1>7, <3>2, <3>3 DEF Queued
  <2>3. queue' \in Seq(Seq(Messages)) /\ queue' # <<>>
    BY <1>3, <2>1, QueueMessage
  <2>4. TypeOK' /\ NeverBlocks'
    BY <1>5, <1>7, <2>2, <2>3 DEF EInv, TypeOK, NeverBlocks
  <2>5. ASSUME ~soerr', announced' = 0, NEW d \in touched' \cap present' PROVE Latest(d)'
    <3>1. CASE About(m, d)
      <4>1. m.flags = flags'[d]
        BY <3>1 DEF About
      <4>2. LastQueued(queue', d, flags'[d])
        BY <1>3, <2>1, <3>1, <4>1, QueueMessage
      <4> QED
        BY <4>2 DEF Latest
    <3>2. CASE ~About(m, d)
      <4>1. d \in touched /\ d \in present /\ flags'[d] = flags[d]
        BY <1>2, <2>5, <3>2 DEF About
      <4>2. Latest(d)
        BY <1>7, <2>5, <4>1, Zenon DEF EInv, Complete
      <4>3. /\ NoneQueued(queue, d) => NoneQueued(queue', d)
            /\ LastQueued(queue, d, flags[d]) => LastQueued(queue', d, flags[d])
        BY <1>3, <2>1, <3>2, QueueMessage
      <4> QED
        BY <4>1, <4>2, <4>3, Zenon DEF Latest
    <3> QED
      BY <3>1, <3>2
  <2>6. Complete'
    BY <1>7, <2>5, Zenon DEF Complete
  <2> QED
    BY <1>1, <1>4, <1>7, <2>4, <2>6, Zenon DEF EInv
<1>8. CASE Bound /\ congested' = TRUE /\ soerr' = TRUE /\ UNCHANGED queue
  <2>1. TypeOK' /\ NeverBlocks'
    BY <1>5, <1>8 DEF EInv, TypeOK, NeverBlocks
  <2>2. Complete'
    BY <1>8, Zenon DEF Complete
  <2> QED
    BY <1>1, <1>4, <1>8, <2>1, <2>2, Zenon DEF EInv
<1> QED
  BY <1>6, <1>7, <1>8 DEF Notify

\* A change of a device in the kernel keeps the invariant, whether it is announced or not.
LEMMA KernelKeeps == ASSUME EInv, NEW d \in Devices, KernelChange(d) PROVE EInv'
<1>1. /\ UNCHANGED <<pc, buf, vIfi_flags, shown, announced>>
      /\ changes' \in 0..MaxChanges /\ changes + 1 \in 1..MaxChanges
  BY LoopAssumption DEF KernelChange, EInv, TypeOK
<1>2. /\ present \in SUBSET Devices /\ flags \in [Devices -> SUBSET Flags]
      /\ flags[d] \in SUBSET Flags
  BY DEF EInv, TypeOK
<1>3. ASSUME NEW f \in SUBSET Flags, present' = present \cup {d},
             flags' = [flags EXCEPT ![d] = f],
             Notify(Notice("NEWLINK", d, f))
      PROVE  EInv'
  <2> DEFINE m == Notice("NEWLINK", d, f)
  <2>1. m \in Messages /\ m.type = "NEWLINK" /\ m.dev = d /\ m.flags = f
    BY <1>1 DEF Messages, Notice
  <2>2. /\ present' \in SUBSET Devices /\ flags' \in [Devices -> SUBSET Flags]
        /\ flags'[m.dev] = m.flags
    BY <1>2, <1>3, <2>1
  <2>3. \A e \in present' : ~About(m, e) => e \in present /\ flags'[e] = flags[e]
    BY <1>2, <1>3, <2>1 DEF About
  <2> HIDE DEF m
  <2> QED
    BY <1>1, <1>3, <2>1, <2>2, <2>3, NotifyKeeps DEF m
<1>4. ASSUME NEW t \in {"DELLINK", "NEWADDR"}, present' \subseteq present, flags' = flags,
             Notify(Notice(t, d, flags[d]))
      PROVE  EInv'
  <2> DEFINE m == Notice(t, d, flags[d])
  <2>1. m \in Messages /\ m.type # "NEWLINK"
    BY <1>1, <1>2 DEF Messages, Notice
  <2>2. /\ present' \in SUBSET Devices /\ flags' \in [Devices -> SUBSET Flags]
        /\ \A e \in present' : e \in present /\ flags'[e] = flags[e]
    BY <1>2, <1>4
  <2> HIDE DEF m
  <2> QED
    BY <1>1, <1>4, <2>1, <2>2, NotifyKeeps DEF m
<1> QED
  BY <1>3, <1>4 DEF KernelChange

-----------------------------------------------------------------------------
\* The steps that handle no message: the kernel's state, what was read and what
\* was shown stay.
LEMMA PlainKeeps ==
    ASSUME EInv, util_OpenSocket \/ CloseSocket \/ LoopEvent \/ ReadFails \/ EndOfDatagram
              \/ UNCHANGED vars
    PROVE  EInv'
<1>1. UNCHANGED <<kernelVars, buf, vIfi_flags, shown, touched>>
  BY DEF util_OpenSocket, CloseSocket, LoopEvent, ReadFails, EndOfDatagram, vars, history
<1>2. ASSUME pc' \in {"start", "select", "read", "parse", "command", "exited"},
             queue' = queue \/ queue' = <<>>, queue' # <<>> => Bound',
             congested' \in BOOLEAN, soerr' \in BOOLEAN, announced' \in Nat
      PROVE  TypeOK'
  <2>1. queue \in Seq(Seq(Messages)) /\ Len(queue) <= Room
    BY DEF EInv, TypeOK
  <2>2. <<>> \in Seq(Seq(Messages)) /\ Len(<<>>) <= Room
    BY LoopAssumption
  <2>3. queue' \in Seq(Seq(Messages)) /\ Len(queue') <= Room
    BY <1>2, <2>1, <2>2, Zenon
  <2> QED
    BY <1>1, <1>2, <2>3 DEF EInv, TypeOK, kernelVars
<1>3. ASSUME UNCHANGED queue PROVE \A d : Latest(d)' <=> Latest(d)
  BY <1>1, <1>3 DEF Latest, kernelVars
<1>4. CASE util_OpenSocket
  <2>1. /\ pc = "start" /\ pc' \in {"select", "command", "exited"}
        /\ UNCHANGED <<queue, congested, soerr, announced>>
    <3>1. ASSUME NEW a \in Commands
          PROVE  (CASE a = "none"   -> "exited"
                    [] a = "evloop" -> "select"
                    [] a = "other"  -> "command") \in {"select", "command", "exited"}
      <4>1. a = "none" \/ a = "evloop" \/ a = "other"
        BY LoopAssumption
      <4>2. CASE a = "none"
        BY <4>2
      <4>3. CASE a = "evloop"
        BY <4>3
      <4>4. CASE a = "other"
        BY <4>4
      <4> QED
        BY <4>1, <4>2, <4>3, <4>4
    <3>2. pc' \in {"select", "command", "exited"}
      BY <1>4, <3>1, Zenon DEF util_OpenSocket
    <3> QED
      BY <1>4, <3>2 DEF util_OpenSocket, socketVars, history
  <2>2. queue = <<>> /\ touched = {} /\ congested = FALSE /\ buf = <<>>
    BY <2>1 DEF EInv
  <2>3. TypeOK'
    BY <1>2, <2>1, <2>2 DEF EInv, TypeOK
  <2>4. Complete'
    BY <1>1, <2>1, <2>2 DEF Complete
  <2> QED
    BY <1>1, <2>1, <2>2, <2>3, <2>4 DEF EInv, NeverBlocks
<1>5. CASE CloseSocket
  <2>1. /\ pc = "command" /\ pc' = "exited" /\ queue' = <<>> /\ ~Bound'
        /\ congested' = FALSE /\ soerr' = FALSE /\ announced' = announced
    BY <1>5 DEF CloseSocket, history, Bound
  <2>2. TypeOK'
    BY <1>2, <2>1 DEF EInv, TypeOK
  <2>3. buf' = <<>>
    BY <1>1, <2>1 DEF EInv
  <2> QED
    BY <2>1, <2>2, <2>3 DEF EInv, NeverBlocks, Complete
<1>6. CASE LoopEvent
  <2>1. /\ pc = "select" /\ pc' = "read" /\ (queue # <<>> \/ soerr)
        /\ UNCHANGED <<queue, congested, soerr, announced>> /\ Bound /\ Bound'
    BY <1>6 DEF LoopEvent, socketVars, history, Bound
  <2>2. TypeOK'
    BY <1>2, <2>1 DEF EInv, TypeOK
  <2>3. Complete'
    BY <1>1, <1>3, <2>1, Zenon DEF EInv, Complete, kernelVars
  <2>4. NeverBlocks' /\ buf' = <<>>
    BY <1>1, <2>1 DEF EInv, NeverBlocks
  <2> QED
    BY <2>1, <2>2, <2>3, <2>4 DEF EInv
<1>7. CASE ReadFails
  <2>1. /\ pc = "read" /\ pc' = "select" /\ soerr' = FALSE /\ announced' = announced + 1
        /\ UNCHANGED <<queue, congested>> /\ Bound'
    BY <1>7 DEF ReadFails, Bound
  <2>2. announced' \in Nat /\ announced' # 0
    BY <2>1 DEF EInv, TypeOK
  <2>3. TypeOK'
    BY <1>2, <2>1, <2>2 DEF EInv, TypeOK
  <2>4. buf' = <<>>
    BY <1>1, <2>1 DEF EInv
  <2> QED
    BY <2>1, <2>2, <2>3, <2>4 DEF EInv, NeverBlocks, Complete
<1>8. CASE EndOfDatagram
  <2>1. /\ pc = "parse" /\ pc' = "select" /\ buf = <<>>
        /\ UNCHANGED <<queue, congested, soerr, announced>> /\ Bound /\ Bound'
    BY <1>8 DEF EndOfDatagram, socketVars, history, Bound
  <2>2. TypeOK'
    BY <1>2, <2>1 DEF EInv, TypeOK
  <2>3. Complete'
    BY <1>1, <1>3, <2>1, Zenon DEF EInv, Complete, kernelVars
  <2> QED
    BY <1>1, <2>1, <2>2, <2>3 DEF EInv, NeverBlocks
<1>9. CASE UNCHANGED vars
  <2>1. UNCHANGED <<pc, queue, congested, soerr, announced>> /\ Bound' = Bound
    BY <1>9 DEF vars, socketVars, history, Bound
  <2>2. TypeOK'
    BY <1>2, <2>1 DEF EInv, TypeOK
  <2>3. Complete'
    BY <1>1, <1>3, <2>1, Zenon DEF EInv, Complete, kernelVars
  <2> QED
    BY <1>1, <2>1, <2>2, <2>3 DEF EInv, NeverBlocks
<1> QED
  BY <1>4, <1>5, <1>6, <1>7, <1>8, <1>9

\* A datagram that is read: what was last in the queue is last in what was read.
LEMMA ReadKeeps == ASSUME EInv, ReadDatagram PROVE EInv'
<1>1. /\ pc = "read" /\ pc' = "parse" /\ ~soerr /\ queue # <<>>
      /\ buf' = Head(queue) /\ queue' = Tail(queue)
      /\ UNCHANGED <<present, flags, changes, soerr, vIfi_flags, shown,
                     touched, announced>>
      /\ Bound /\ Bound'
  BY DEF ReadDatagram, kernelVars, history, Bound
<1>2. congested' = (congested /\ queue' # <<>>)
  BY <1>1, Zenon DEF ReadDatagram
<1>3. queue \in Seq(Seq(Messages)) /\ Len(queue) \in Nat /\ Len(queue) <= Room /\ buf = <<>>
  BY <1>1 DEF EInv, TypeOK
<1>4. /\ queue' \in Seq(Seq(Messages)) /\ buf' \in Seq(Messages) /\ Len(queue') <= Room
  BY <1>1, <1>3, LoopAssumption
<1>5. congested' \in BOOLEAN
  BY <1>2, Zenon
<1>6. TypeOK'
  BY <1>1, <1>4, <1>5 DEF EInv, TypeOK
<1>7. ASSUME NEW d, Latest(d) PROVE Latest(d)'
  <2>1. CASE LastQueued(queue, d, flags[d])
    <3>1. \/ LastQueued(queue', d, flags[d])
          \/ NoneQueued(queue', d) /\ LastIn(buf', d, flags[d])
      BY <1>1, <1>3, <2>1, TakeDatagram
    <3> QED
      BY <1>1, <3>1, Zenon DEF Latest, LastRead
  <2>2. CASE NoneQueued(queue, d) /\ LastRead(buf, shown, d, flags[d])
    <3>1. NoneQueued(queue', d) /\ NoneIn(buf', d)
      BY <1>1, <1>3, <2>2, TakeDatagram
    <3>2. shown[d] = flags[d]
      BY <1>3, <2>2 DEF LastRead, LastIn
    <3> QED
      BY <1>1, <3>1, <3>2, Zenon DEF Latest, LastRead
  <2> QED
    BY <1>7, <2>1, <2>2, Zenon DEF Latest
<1>8. Complete'
  BY <1>1, <1>2, <1>7, Zenon DEF EInv, Complete
<1> QED
  BY <1>1, <1>6, <1>8 DEF EInv, NeverBlocks

\* A message that is handled: a notice is shown, another one changes nothing.
LEMMA MessageKeeps == ASSUME EInv, RTM_NEWLINK_Check \/ OtherMessage PROVE EInv'
<1> DEFINE m == Head(buf)
<1>1. /\ pc = "parse" /\ pc' = "parse" /\ buf # <<>> /\ buf' = Tail(buf)
      /\ UNCHANGED <<present, flags, changes, queue, congested, soerr, touched, announced>>
      /\ Bound /\ Bound'
  BY DEF RTM_NEWLINK_Check, OtherMessage, kernelVars, socketVars, history, Bound
<1>2. buf \in Seq(Messages) /\ m \in Messages /\ buf' \in Seq(Messages)
  BY <1>1, TailMessage DEF EInv, TypeOK
<1>3. /\ m.dev \in Devices /\ m.flags \in SUBSET Flags
  BY <1>2 DEF Messages
<1> HIDE DEF m
<1>4. CASE RTM_NEWLINK_Check
  <2>1. /\ m.type = "NEWLINK" /\ vIfi_flags' = m.flags
        /\ shown' = [shown EXCEPT ![m.dev] = m.flags]
    BY <1>4 DEF RTM_NEWLINK_Check, m
  <2>2. /\ shown \in [Devices -> SUBSET Flags] /\ vIfi_flags \in SUBSET Flags
    BY DEF EInv, TypeOK
  <2>3. /\ shown' \in [Devices -> SUBSET Flags] /\ shown'[m.dev] = m.flags
        /\ \A d \in Devices : d # m.dev => shown'[d] = shown[d]
        /\ vIfi_flags' \in SUBSET Flags
    BY <1>3, <2>1, <2>2
  <2>4. TypeOK'
    BY <1>1, <1>2, <2>3 DEF EInv, TypeOK
  <2>5. ASSUME NEW d \in Devices, Latest(d) PROVE Latest(d)'
    <3>1. CASE LastQueued(queue, d, flags[d])
      BY <1>1, <3>1, Zenon DEF Latest
    <3>2. CASE NoneQueued(queue, d) /\ LastIn(buf, d, flags[d])
      <4>1. \/ LastIn(buf', d, flags[d])
            \/ NoneIn(buf', d) /\ About(m, d) /\ m.flags = flags[d]
        BY <1>1, <1>2, <3>2, TailMessage DEF m
      <4>2. About(m, d) /\ m.flags = flags[d] => shown'[d] = flags[d]
        BY <2>3 DEF About
      <4> QED
        BY <1>1, <3>2, <4>1, <4>2, Zenon DEF Latest, LastRead
    <3>3. CASE NoneQueued(queue, d) /\ NoneIn(buf, d) /\ shown[d] = flags[d]
      <4>1. NoneIn(buf', d) /\ ~About(m, d)
        BY <1>1, <1>2, <3>3, TailMessage DEF m
      <4>2. shown'[d] = flags[d]
        BY <2>1, <2>3, <3>3, <4>1 DEF About
      <4> QED
        BY <1>1, <3>3, <4>1, <4>2, Zenon DEF Latest, LastRead
    <3> QED
      BY <2>5, <3>1, <3>2, <3>3, Zenon DEF Latest, LastRead
  <2>6. touched \subseteq Devices
    BY DEF EInv, TypeOK
  <2>7. Complete'
    BY <1>1, <2>5, <2>6 DEF EInv, Complete
  <2> QED
    BY <1>1, <2>1, <2>3, <2>4, <2>7 DEF EInv, NeverBlocks
<1>5. CASE OtherMessage
  <2>1. /\ m.type # "NEWLINK"
        /\ UNCHANGED <<vIfi_flags, shown>>
    BY <1>5 DEF OtherMessage, history, m
  <2>2. TypeOK'
    BY <1>1, <1>2, <2>1 DEF EInv, TypeOK
  <2>3. ASSUME NEW d, Latest(d) PROVE Latest(d)'
    <3>1. /\ NoneIn(buf, d) => NoneIn(buf', d)
          /\ LastIn(buf, d, flags[d]) => LastIn(buf', d, flags[d])
      BY <1>1, <1>2, <2>1, TailMessage DEF About, m
    <3> QED
      BY <1>1, <2>1, <2>3, <3>1, Zenon DEF Latest, LastRead
  <2>4. Complete'
    BY <1>1, <2>3, Zenon DEF EInv, Complete
  <2> QED
    BY <1>1, <2>2, <2>4 DEF EInv, NeverBlocks
<1> QED
  BY <1>4, <1>5

-----------------------------------------------------------------------------
\* The inductive invariant of the loop, its socket and the kernel.
THEOREM LoopInvCorrect == Spec => []EInv
<1>1. EInv /\ [Next]_vars => EInv'
  BY KernelKeeps, PlainKeeps, ReadKeeps, MessageKeeps DEF Next, Program, read_event
<1> QED
  BY <1>1, InitEInv, PTL DEF Spec

\* The variables have their types, and an unbound socket queues nothing.
THEOREM LoopTypeCorrect == Spec => []TypeOK
<1>1. EInv => TypeOK
  BY DEF EInv
<1> QED
  BY <1>1, LoopInvCorrect, PTL

\* recvmsg() is never called with nothing to return.
THEOREM NeverBlocksCorrect == Spec => []NeverBlocks
<1>1. EInv => NeverBlocks
  BY DEF EInv
<1> QED
  BY <1>1, LoopInvCorrect, PTL

\* A change that the waiting loop has not shown is behind a printed error.
THEOREM LossCorrect == Spec => []LossWasAnnounced
<1>1. ASSUME EInv, pc = "select", queue = <<>>, ~soerr, announced = 0,
             NEW d \in touched \cap present
      PROVE  shown[d] = flags[d]
  <2>1. Latest(d) /\ buf = <<>>
    BY <1>1 DEF EInv, Complete, Bound
  <2>2. ~LastQueued(queue, d, flags[d])
    BY <1>1 DEF LastQueued
  <2>3. ~LastIn(buf, d, flags[d])
    BY <2>1 DEF LastIn
  <2> QED
    BY <2>1, <2>2, <2>3 DEF Latest, LastRead
<1>2. EInv => LossWasAnnounced
  BY <1>1, Zenon DEF LossWasAnnounced
<1> QED
  BY <1>2, LoopInvCorrect, PTL

-----------------------------------------------------------------------------
(* The loop implements ChangeFeed.  What is queued and read is in the order  *)
(* of the changes, so that the first message of vBuf is the oldest of all.   *)

Ordered(s) == \A j, k \in 1..Len(s) : j < k => s[j].at < s[k].at

\* Everything said in S is older than everything said in T.
Older(S, T) == \A m \in S, n \in T : m.at < n.at

AllOf(q) == UNION {Range(q[i]) : i \in DOMAIN q}

OrderedQueue(q) ==
    /\ \A i \in 1..Len(q) : Ordered(q[i])
    /\ \A i, k \in 1..Len(q) : i < k => Older(Range(q[i]), Range(q[k]))

OrderInv ==
    /\ Ordered(buf)
    /\ OrderedQueue(queue)
    /\ Older(Range(buf), AllOf(queue))
    /\ \A m \in Pending : m.at <= changes

\* A younger message that is appended.
LEMMA AppendOrdered ==
    ASSUME NEW s \in Seq(Messages), NEW m \in Messages, Ordered(s), Older(Range(s), {m})
    PROVE  /\ Ordered(Append(s, m))
           /\ Range(Append(s, m)) = Range(s) \cup {m}
<1> DEFINE t == Append(s, m)
<1>1. /\ Len(t) = Len(s) + 1 /\ Len(s) \in Nat /\ t[Len(t)] = m
      /\ \A j \in 1..Len(s) : t[j] = s[j]
      /\ DOMAIN t = 1..Len(t) /\ DOMAIN s = 1..Len(s)
      /\ \A j \in 1..Len(t) : j \in 1..Len(s) \/ j = Len(t)
  OBVIOUS
<1> HIDE DEF t
<1>2. Range(t) = Range(s) \cup {m}
  <2>1. \A j \in 1..Len(s) : j \in 1..Len(t)
    BY <1>1
  <2>2. Len(t) \in 1..Len(t)
    BY <1>1
  <2> QED
    BY <1>1, <2>1, <2>2 DEF Range
<1>3. ASSUME NEW j \in 1..Len(t), NEW k \in 1..Len(t), j < k PROVE t[j].at < t[k].at
  <2>1. j \in 1..Len(s) /\ t[j] = s[j] /\ s[j] \in Range(s)
    BY <1>1, <1>3 DEF Range
  <2>2. CASE k = Len(t)
    BY <1>1, <2>1, <2>2 DEF Older
  <2>3. CASE k \in 1..Len(s)
    BY <1>1, <1>3, <2>1, <2>3 DEF Ordered
  <2> QED
    BY <1>1, <2>2, <2>3
<1> QED
  BY <1>2, <1>3 DEF Ordered, t

\* The first of the messages is older than the rest.
LEMMA TailOrdered ==
    ASSUME NEW s \in Seq(Messages), s # <<>>, Ordered(s)
    PROVE  /\ Ordered(Tail(s))
           /\ Range(s) = {Head(s)} \cup Range(Tail(s))
           /\ Older({Head(s)}, Range(Tail(s)))
<1> DEFINE t == Tail(s)
<1>1. /\ Len(t) = Len(s) - 1 /\ Len(s) \in Nat /\ Len(s) > 0 /\ Head(s) = s[1]
      /\ \A j \in 1..Len(t) : j + 1 \in 1..Len(s) /\ t[j] = s[j + 1]
      /\ \A j \in 1..Len(s) : j = 1 \/ (j - 1 \in 1..Len(t) /\ t[j - 1] = s[j])
      /\ DOMAIN t = 1..Len(t) /\ DOMAIN s = 1..Len(s)
  OBVIOUS
<1> HIDE DEF t
<1>2. Ordered(t)
  BY <1>1 DEF Ordered
<1>3. Range(s) = {s[1]} \cup Range(t)
  <2>1. 1 \in 1..Len(s)
    BY <1>1
  <2>2. ASSUME NEW j \in 1..Len(s) PROVE s[j] \in {s[1]} \cup Range(t)
    <3>1. j = 1 \/ (j - 1 \in DOMAIN t /\ t[j - 1] = s[j])
      BY <1>1
    <3> QED
      BY <3>1 DEF Range
  <2>3. ASSUME NEW j \in 1..Len(t) PROVE t[j] \in Range(s)
    <3>1. j + 1 \in DOMAIN s /\ t[j] = s[j + 1]
      BY <1>1
    <3> QED
      BY <3>1 DEF Range
  <2>4. s[1] \in Range(s)
    BY <1>1, <2>1 DEF Range
  <2> QED
    BY <1>1, <2>2, <2>3, <2>4 DEF Range
<1>4. Older({s[1]}, Range(t))
  <2>1. \A j \in 1..Len(t) : s[1].at < t[j].at
    BY <1>1 DEF Ordered
  <2> QED
    BY <1>1, <2>1 DEF Range, Older
<1> QED
  BY <1>1, <1>2, <1>3, <1>4 DEF t

\* A younger message that is queued, in a datagram of its own or in the last one.
LEMMA QueueOrdered ==
    ASSUME NEW q \in Seq(Seq(Messages)), NEW m \in Messages, NEW p,
           OrderedQueue(q), Older(AllOf(q), {m}),
           \/ p = Append(q, <<m>>)
           \/ q # <<>> /\ p = [q EXCEPT ![Len(q)] = Append(@, m)]
    PROVE  /\ OrderedQueue(p)
           /\ AllOf(p) = AllOf(q) \cup {m}
<1>1. /\ Len(q) \in Nat /\ DOMAIN q = 1..Len(q)
      /\ \A i \in 1..Len(q) : q[i] \in Seq(Messages)
  OBVIOUS
<1>2. \A i \in 1..Len(q) : Range(q[i]) \subseteq AllOf(q)
  BY <1>1 DEF AllOf
<1>3. CASE p = Append(q, <<m>>)
  <2>1. /\ Len(p) = Len(q) + 1 /\ p[Len(p)] = <<m>> /\ DOMAIN p = 1..Len(p)
        /\ \A i \in 1..Len(q) : p[i] = q[i] /\ i \in 1..Len(p)
        /\ \A i \in 1..Len(p) : i \in 1..Len(q) \/ i = Len(p)
        /\ Len(p) \in 1..Len(p)
    BY <1>1, <1>3
  <2>2. Ordered(<<m>>) /\ Range(<<m>>) = {m}
    BY DEF Ordered, Range
  <2>3. AllOf(p) = AllOf(q) \cup {m}
    <3>1. ASSUME NEW i \in 1..Len(p) PROVE Range(p[i]) \subseteq AllOf(q) \cup {m}
      BY <1>2, <2>1, <2>2
    <3>2. ASSUME NEW i \in 1..Len(q) PROVE Range(q[i]) \subseteq AllOf(p)
      <4>1. i \in DOMAIN p /\ p[i] = q[i]
        BY <2>1
      <4> QED
        BY <4>1 DEF AllOf
    <3>3. m \in AllOf(p)
      <4>1. Len(p) \in DOMAIN p /\ m \in Range(p[Len(p)])
        BY <2>1, <2>2
      <4> QED
        BY <4>1, Zenon DEF AllOf
    <3>4. AllOf(p) \subseteq AllOf(q) \cup {m}
      BY <2>1, <3>1, Zenon DEF AllOf
    <3>5. AllOf(q) \subseteq AllOf(p)
      BY <1>1, <3>2, Zenon DEF AllOf
    <3> QED
      BY <3>3, <3>4, <3>5
  <2>4. \A i \in 1..Len(p) : Ordered(p[i])
    BY <2>1, <2>2 DEF OrderedQueue
  <2>5. ASSUME NEW i \in 1..Len(p), NEW k \in 1..Len(p), i < k
        PROVE  Older(Range(p[i]), Range(p[k]))
    <3>1. i \in 1..Len(q)
      <4>1. Len(p) = Len(q) + 1 /\ Len(q) \in Nat
        BY <1>1, <2>1
      <4> QED
        BY <2>5, <4>1
    <3>2. p[i] = q[i]
      BY <2>1, <3>1
    <3>3. CASE k = Len(p)
      BY <1>2, <2>1, <2>2, <3>1, <3>2, <3>3 DEF Older
    <3>4. CASE k \in 1..Len(q)
      BY <2>1, <2>5, <3>1, <3>2, <3>4 DEF OrderedQueue
    <3> QED
      BY <2>1, <3>3, <3>4
  <2> QED
    BY <2>3, <2>4, <2>5 DEF OrderedQueue
<1>4. CASE q # <<>> /\ p = [q EXCEPT ![Len(q)] = Append(@, m)]
  <2> DEFINE n == Len(q)
             t == Append(q[n], m)
  <2>1. n \in 1..n /\ q[n] \in Seq(Messages)
    <3>1. n \in 1..n
      BY <1>4
    <3> QED
      BY <1>1, <3>1
  <2>2. Ordered(t) /\ Range(t) = Range(q[n]) \cup {m}
    <3>1. Ordered(q[n])
      BY <2>1 DEF OrderedQueue
    <3>2. Older(Range(q[n]), {m})
      BY <1>2, <2>1 DEF Older
    <3> QED
      BY <2>1, <3>1, <3>2, AppendOrdered
  <2>3. p = [q EXCEPT ![n] = t] /\ t \in Seq(Messages)
    BY <1>4, <2>1
  <2> HIDE DEF t
  <2>4. /\ Len(p) = n /\ p[n] = t /\ DOMAIN p = 1..n
        /\ \A i \in 1..n : i # n => p[i] = q[i]
    BY <2>1, <2>3
  <2> HIDE DEF n
  <2>5. AllOf(p) = AllOf(q) \cup {m}
    <3>1. AllOf(p) \subseteq AllOf(q) \cup {m}
      <4> SUFFICES ASSUME NEW i \in 1..n PROVE Range(p[i]) \subseteq AllOf(q) \cup {m}
        BY <2>4 DEF AllOf
      <4> QED
        BY <1>2, <2>1, <2>2, <2>4 DEF n
    <3>2. m \in AllOf(p)
      BY <2>1, <2>2, <2>4 DEF AllOf
    <3>3. ASSUME NEW i \in 1..n PROVE Range(q[i]) \subseteq AllOf(p)
      <4>1. Range(q[i]) \subseteq Range(p[i])
        BY <2>2, <2>4
      <4> QED
        BY <2>4, <4>1 DEF AllOf
    <3>4. AllOf(q) \subseteq AllOf(p)
      BY <1>1, <3>3 DEF AllOf, n
    <3> QED
      BY <3>1, <3>2, <3>4
  <2>6. \A i \in 1..n : Ordered(p[i])
    BY <2>2, <2>4 DEF OrderedQueue, n
  <2>7. ASSUME NEW i \in 1..n, NEW k \in 1..n, i < k
        PROVE  Older(Range(p[i]), Range(p[k]))
    <3>1. n \in Nat
      BY <1>1 DEF n
    <3>2. i # n
      BY <2>7, <3>1
    <3>3. p[i] = q[i]
      BY <2>4, <3>2
    <3>4. Older(Range(q[i]), Range(q[k])) /\ Older(Range(q[i]), {m})
      BY <1>2, <2>7 DEF OrderedQueue, Older, n
    <3>5. Range(p[k]) \subseteq Range(q[k]) \cup {m}
      BY <2>2, <2>4
    <3> QED
      BY <3>3, <3>4, <3>5, Zenon DEF Older
  <2> QED
    BY <2>4, <2>5, <2>6, <2>7 DEF OrderedQueue
<1> QED
  BY <1>3, <1>4

\* The datagram that is taken is older than those that stay.
LEMMA TakeOrdered ==
    ASSUME NEW q \in Seq(Seq(Messages)), q # <<>>, OrderedQueue(q)
    PROVE  /\ OrderedQueue(Tail(q))
           /\ Ordered(Head(q))
           /\ AllOf(q) = Range(Head(q)) \cup AllOf(Tail(q))
           /\ Older(Range(Head(q)), AllOf(Tail(q)))
<1> DEFINE t == Tail(q)
<1>1. /\ Len(t) = Len(q) - 1 /\ Len(q) \in Nat /\ Len(q) > 0 /\ Head(q) = q[1]
      /\ \A j \in 1..Len(t) : j + 1 \in 1..Len(q) /\ t[j] = q[j + 1]
      /\ \A j \in 1..Len(q) : j = 1 \/ (j - 1 \in 1..Len(t) /\ t[j - 1] = q[j])
      /\ DOMAIN t = 1..Len(t) /\ DOMAIN q = 1..Len(q)
  OBVIOUS
<1> HIDE DEF t
<1>2. 1 \in 1..Len(q)
  BY <1>1
<1>3. OrderedQueue(t)
  <2>1. \A i \in 1..Len(t) : Ordered(t[i])
    BY <1>1 DEF OrderedQueue
  <2>2. ASSUME NEW i \in 1..Len(t), NEW k \in 1..Len(t), i < k
        PROVE  Older(Range(t[i]), Range(t[k]))
    <3>1. i + 1 \in 1..Len(q) /\ k + 1 \in 1..Len(q) /\ i + 1 < k + 1
      BY <1>1, <2>2
    <3>2. Older(Range(q[i + 1]), Range(q[k + 1]))
      BY <3>1, Zenon DEF OrderedQueue
    <3> QED
      BY <1>1, <3>2
  <2> QED
    BY <2>1, <2>2 DEF OrderedQueue
<1>4. Ordered(q[1])
  BY <1>2 DEF OrderedQueue
<1>5. AllOf(q) = Range(q[1]) \cup AllOf(t)
  BY <1>1, <1>2 DEF AllOf
<1>6. Older(Range(q[1]), AllOf(t))
  <2>1. ASSUME NEW i \in 1..Len(t) PROVE Older(Range(q[1]), Range(t[i]))
    <3>1. i + 1 \in 1..Len(q) /\ 1 < i + 1 /\ t[i] = q[i + 1]
      BY <1>1
    <3>2. Older(Range(q[1]), Range(q[i + 1]))
      BY <1>2, <3>1, Zenon DEF OrderedQueue
    <3> QED
      BY <3>1, <3>2
  <2>2. \A n \in AllOf(t) : \E i \in 1..Len(t) : n \in Range(t[i])
    BY <1>1 DEF AllOf
  <2> QED
    BY <2>1, <2>2, Zenon DEF Older
<1> QED
  BY <1>1, <1>3, <1>4, <1>5, <1>6 DEF t
\* The notice of a change is the youngest of all, whether it is kept or dropped.
LEMMA NotifyFeeds ==
    ASSUME EInv, OrderInv, NEW m \in Messages, Notify(m),
           m.at = changes + 1, changes' = changes + 1,
           m.type # "NEWLINK" => m.flags = flags[m.dev],
           flags' = [flags EXCEPT ![m.dev] = m.flags],
           UNCHANGED <<pc, buf, shown, announced>>
    PROVE  OrderInv' /\ Feed!Happen(m)
<1>1. Bound' = Bound /\ changes \in Nat /\ changes' \in Nat
  BY DEF Bound, EInv, TypeOK
<1>2. /\ Pending = AllOf(queue) \cup Range(buf)
      /\ Pending' = AllOf(queue') \cup Range(buf)
  BY DEF Pending, AllOf
<1>3. \A n \in Pending : n \in Messages /\ n.at \in Nat /\ n.at < m.at
  <2>1. \A n \in Pending : n \in Messages
    <3>1. buf \in Seq(Messages) /\ queue \in Seq(Seq(Messages))
      BY DEF EInv, TypeOK
    <3>2. \A j \in DOMAIN buf : buf[j] \in Messages
      BY <3>1
    <3>3. \A i \in DOMAIN queue : queue[i] \in Seq(Messages)
      BY <3>1
    <3>4. \A i \in DOMAIN queue : \A j \in DOMAIN queue[i] : queue[i][j] \in Messages
      BY <3>3
    <3> QED
      BY <3>2, <3>4 DEF Pending, Range
  <2>2. \A n \in Messages : n.at \in Nat
    BY LoopAssumption DEF Messages
  <2>3. \A n \in Pending : n.at <= changes
    BY DEF OrderInv
  <2> QED
    BY <1>1, <2>1, <2>2, <2>3
<1>4. ASSUME UNCHANGED queue PROVE OrderInv' /\ Pending' = Pending
  <2>1. Pending' = Pending
    BY <1>2, <1>4
  <2>2. \A n \in Pending : n.at <= changes'
    BY <1>1, <1>3
  <2> QED
    BY <1>4, <2>1, <2>2 DEF OrderInv
<1>5. ASSUME Queued(m) PROVE OrderInv' /\ Pending' = Pending \cup {m}
  <2>1. \/ queue' = Append(queue, <<m>>)
        \/ queue # <<>> /\ queue' = [queue EXCEPT ![Len(queue)] = Append(@, m)]
    BY <1>5 DEF Queued
  <2>2. queue \in Seq(Seq(Messages)) /\ OrderedQueue(queue) /\ Older(AllOf(queue), {m})
    BY <1>2, <1>3 DEF EInv, TypeOK, OrderInv, Older
  <2>3. OrderedQueue(queue') /\ AllOf(queue') = AllOf(queue) \cup {m}
    BY <2>1, <2>2, QueueOrdered
  <2>4. Pending' = Pending \cup {m}
    BY <1>2, <2>3
  <2>5. Older(Range(buf), AllOf(queue'))
    BY <1>2, <1>3, <2>3 DEF OrderInv, Older
  <2>6. \A n \in Pending' : n.at <= changes'
    BY <1>1, <1>3, <2>4
  <2> QED
    BY <2>3, <2>4, <2>5, <2>6 DEF OrderInv
<1>6. CASE (~Bound \/ congested) /\ UNCHANGED socketVars
  <2>1. UNCHANGED <<queue, congested, soerr>>
    BY <1>6 DEF socketVars
  <2> QED
    BY <1>1, <1>4, <1>6, <2>1 DEF Feed!Happen
<1>7. CASE Bound /\ ~congested /\ Queued(m) /\ UNCHANGED <<congested, soerr>>
  BY <1>1, <1>5, <1>7 DEF Feed!Happen
<1>8. CASE Bound /\ ~congested /\ congested' = TRUE /\ soerr' = TRUE /\ UNCHANGED queue
  BY <1>1, <1>4, <1>8 DEF Feed!Happen
<1> QED
  BY <1>6, <1>7, <1>8 DEF Notify

\* A change of a device is a change that a notice tells of.
LEMMA KernelFeeds ==
    ASSUME EInv, OrderInv, NEW d \in Devices, KernelChange(d)
    PROVE  OrderInv' /\ \E m \in Feed!Notices(changes + 1) : Feed!Happen(m)
<1>1. /\ UNCHANGED <<pc, buf, shown, announced>>
      /\ changes' = changes + 1 /\ changes + 1 \in 1..MaxChanges
  BY LoopAssumption DEF KernelChange, EInv, TypeOK
<1>2. /\ flags \in [Devices -> SUBSET Flags]
      /\ flags[d] \in SUBSET Flags
      /\ flags = [flags EXCEPT ![d] = flags[d]]
  BY DEF EInv, TypeOK
<1>3. ASSUME NEW t \in {"NEWLINK", "DELLINK", "NEWADDR"}, NEW f \in SUBSET Flags,
             t # "NEWLINK" => f = flags[d],
             flags' = [flags EXCEPT ![d] = f],
             Notify(Notice(t, d, f))
      PROVE  OrderInv' /\ \E m \in Feed!Notices(changes + 1) : Feed!Happen(m)
  <2> DEFINE m == Notice(t, d, f)
  <2>1. /\ m.type = t /\ m.dev = d /\ m.flags = f /\ m.at = changes + 1
        /\ m \in Messages /\ m \in Feed!Notices(changes + 1)
    BY <1>1 DEF Notice, Messages, Feed!Notices
  <2>2. Notify(m)
    BY <1>3
  <2> HIDE DEF m
  <2>3. OrderInv' /\ Feed!Happen(m)
    BY <1>1, <1>3, <2>1, <2>2, NotifyFeeds
  <2> QED
    BY <2>1, <2>3
<1>4. \/ \E f \in SUBSET Flags : /\ flags' = [flags EXCEPT ![d] = f]
                                 /\ Notify(Notice("NEWLINK", d, f))
      \/ /\ flags' = flags
         /\ \E t \in {"DELLINK", "NEWADDR"} : Notify(Notice(t, d, flags[d]))
  BY DEF KernelChange
<1>5. CASE \E f \in SUBSET Flags : /\ flags' = [flags EXCEPT ![d] = f]
                                   /\ Notify(Notice("NEWLINK", d, f))
  BY <1>3, <1>5
<1>6. CASE /\ flags' = flags
           /\ \E t \in {"DELLINK", "NEWADDR"} : Notify(Notice(t, d, flags[d]))
  <2>1. PICK t \in {"DELLINK", "NEWADDR"} : Notify(Notice(t, d, flags[d]))
    BY <1>6
  <2>2. flags' = [flags EXCEPT ![d] = flags[d]] /\ t # "NEWLINK"
    BY <1>2, <1>6
  <2> QED
    BY <1>2, <1>3, <2>1, <2>2
<1> QED
  BY <1>4, <1>5, <1>6

\* The messages of vBuf are shown from the oldest on.
LEMMA MessageFeeds ==
    ASSUME EInv, OrderInv, RTM_NEWLINK_Check \/ OtherMessage
    PROVE  OrderInv' /\ \E m \in Pending : Feed!Show(m)
<1> DEFINE m == Head(buf)
<1>1. /\ buf # <<>> /\ buf' = Tail(buf)
      /\ UNCHANGED <<flags, changes, queue, congested, soerr, announced, pc>>
  BY DEF RTM_NEWLINK_Check, OtherMessage, kernelVars, socketVars, history
<1>2. shown' = IF m.type = "NEWLINK" THEN [shown EXCEPT ![m.dev] = m.flags] ELSE shown
  BY DEF RTM_NEWLINK_Check, OtherMessage, history
<1>3. buf \in Seq(Messages) /\ Ordered(buf)
  BY DEF EInv, TypeOK, OrderInv
<1>4. /\ Ordered(buf')
      /\ Range(buf) = {m} \cup Range(buf')
      /\ Older({m}, Range(buf'))
  BY <1>1, <1>3, TailOrdered
<1>5. /\ Pending = AllOf(queue) \cup Range(buf)
      /\ Pending' = AllOf(queue) \cup Range(buf')
  BY <1>1 DEF Pending, AllOf
<1>6. m.at \in Nat
  <2>1. m \in Messages
    BY <1>1, <1>3
  <2> QED
    BY <2>1, LoopAssumption DEF Messages
<1> HIDE DEF m
<1>7. m \in Pending /\ Older({m}, AllOf(queue))
  BY <1>4, <1>5 DEF OrderInv, Older
<1>8. \A n \in Pending \ {m} : m.at < n.at
  BY <1>4, <1>5, <1>7 DEF Older
<1>9. Pending' = Pending \ {m}
  <2>1. m \notin Range(buf') /\ m \notin AllOf(queue)
    BY <1>4, <1>6, <1>7 DEF Older
  <2> QED
    BY <1>4, <1>5, <2>1
<1>10. Bound' = Bound
  BY <1>1 DEF Bound
<1>11. Feed!Show(m)
  BY <1>1, <1>2, <1>7, <1>8, <1>9, <1>10 DEF Feed!Show
<1>12. OrderInv'
  <2>1. Older(Range(buf'), AllOf(queue))
    BY <1>4 DEF OrderInv, Older
  <2>2. \A n \in Pending' : n.at <= changes
    BY <1>9 DEF OrderInv
  <2> QED
    BY <1>1, <1>4, <2>1, <2>2 DEF OrderInv
<1> QED
  BY <1>7, <1>11, <1>12

\* A datagram that is read stays to be shown; the last one ends the dropping.
LEMMA ReadFeeds ==
    ASSUME EInv, OrderInv, ReadDatagram
    PROVE  OrderInv' /\ (Feed!Resume \/ UNCHANGED Feed!vars)
<1>1. /\ pc = "read" /\ pc' = "parse" /\ ~soerr /\ queue # <<>>
      /\ buf' = Head(queue) /\ queue' = Tail(queue)
      /\ UNCHANGED <<flags, changes, soerr, shown, announced>>
      /\ Bound' = Bound
  BY DEF ReadDatagram, kernelVars, history, Bound
<1>2. congested' = congested \/ (congested /\ congested' = FALSE)
  BY DEF ReadDatagram, EInv, TypeOK
<1>3. queue \in Seq(Seq(Messages)) /\ OrderedQueue(queue)
  BY DEF EInv, TypeOK, OrderInv
<1>4. /\ OrderedQueue(queue') /\ Ordered(buf')
      /\ AllOf(queue) = Range(buf') \cup AllOf(queue')
      /\ Older(Range(buf'), AllOf(queue'))
  BY <1>1, <1>3, TakeOrdered
<1>5. Range(buf) = {}
  BY <1>1 DEF EInv, Range
<1>6. Pending' = Pending
  BY <1>4, <1>5 DEF Pending, AllOf
<1>7. OrderInv'
  <2>1. \A n \in Pending' : n.at <= changes'
    BY <1>1, <1>6 DEF OrderInv
  <2> QED
    BY <1>4, <2>1 DEF OrderInv
<1>8. CASE congested' = congested
  BY <1>1, <1>6, <1>7, <1>8 DEF Feed!vars
<1>9. CASE congested /\ congested' = FALSE
  BY <1>1, <1>6, <1>7, <1>9 DEF Feed!Resume
<1> QED
  BY <1>2, <1>8, <1>9

\* The steps that handle no message show nothing.
LEMMA PlainFeeds ==
    ASSUME EInv, OrderInv,
           util_OpenSocket \/ CloseSocket \/ LoopEvent \/ ReadFails \/ EndOfDatagram
              \/ UNCHANGED vars
    PROVE  /\ OrderInv'
           /\ Feed!Listen \/ Feed!Leave \/ Feed!Warn \/ UNCHANGED Feed!vars
<1>1. UNCHANGED <<flags, changes, buf, shown>>
  BY DEF util_OpenSocket, CloseSocket, LoopEvent, ReadFails, EndOfDatagram, vars, history,
         kernelVars
<1>2. ASSUME UNCHANGED queue PROVE OrderInv' /\ Pending' = Pending
  <2>1. Pending' = Pending
    BY <1>1, <1>2 DEF Pending
  <2> QED
    BY <1>1, <1>2, <2>1 DEF OrderInv
<1>3. CASE util_OpenSocket
  <2>1. pc = "start" /\ UNCHANGED <<queue, congested, soerr, announced>>
    BY <1>3 DEF util_OpenSocket, socketVars, history
  <2>2. Bound = FALSE
    BY <2>1 DEF Bound
  <2>3. CASE Bound'
    <3>1. Bound' = TRUE
      BY <2>3 DEF Bound
    <3> QED
      BY <1>1, <1>2, <2>1, <2>2, <3>1 DEF Feed!Listen
  <2>4. CASE ~Bound'
    <3>1. Bound' = FALSE
      BY <2>4 DEF Bound
    <3> QED
      BY <1>1, <1>2, <2>1, <2>2, <3>1 DEF Feed!vars
  <2> QED
    BY <2>3, <2>4
<1>4. CASE CloseSocket
  <2>1. /\ pc = "command" /\ pc' = "exited" /\ queue' = <<>>
        /\ congested' = FALSE /\ soerr' = FALSE /\ announced' = announced
    BY <1>4 DEF CloseSocket, history
  <2>2. buf' = <<>>
    BY <1>1, <2>1 DEF EInv
  <2>3. Range(buf') = {} /\ AllOf(queue') = {}
    BY <2>1, <2>2 DEF Range, AllOf
  <2>4. Pending' = {}
    BY <2>3 DEF Pending, AllOf
  <2>5. Ordered(buf') /\ OrderedQueue(queue')
    BY <2>1, <2>2 DEF Ordered, OrderedQueue
  <2>6. OrderInv'
    BY <2>3, <2>4, <2>5 DEF OrderInv, Older
  <2>7. Bound /\ Bound' = FALSE
    BY <2>1 DEF Bound
  <2> QED
    BY <1>1, <2>1, <2>4, <2>6, <2>7 DEF Feed!Leave
<1>5. CASE ReadFails
  <2>1. /\ pc = "read" /\ pc' = "select" /\ soerr /\ soerr' = FALSE
        /\ announced' = announced + 1 /\ UNCHANGED <<queue, congested>>
    BY <1>5 DEF ReadFails
  <2>2. Bound' = Bound
    BY <2>1 DEF Bound
  <2> QED
    BY <1>1, <1>2, <2>1, <2>2 DEF Feed!Warn
<1>6. CASE LoopEvent \/ EndOfDatagram \/ UNCHANGED vars
  <2>1. UNCHANGED <<queue, congested, soerr, announced>>
    BY <1>6 DEF LoopEvent, EndOfDatagram, vars, socketVars, history
  <2>2. Bound' = Bound
    BY <1>6 DEF LoopEvent, EndOfDatagram, vars, Bound
  <2> QED
    BY <1>1, <1>2, <2>1, <2>2 DEF Feed!vars
<1> QED
  BY <1>3, <1>4, <1>5, <1>6

\* The order of the messages, with what each step is to who watches the output.
LEMMA FeedStep ==
    ASSUME EInv, OrderInv, [Next]_vars
    PROVE  OrderInv' /\ [Feed!Next]_(Feed!vars)
<1>1. CASE \E d \in Devices : KernelChange(d)
  BY <1>1, KernelFeeds DEF Feed!Next
<1>2. CASE RTM_NEWLINK_Check \/ OtherMessage
  BY <1>2, MessageFeeds DEF Feed!Next
<1>3. CASE ReadDatagram
  BY <1>3, ReadFeeds DEF Feed!Next
<1>4. CASE util_OpenSocket \/ CloseSocket \/ LoopEvent \/ ReadFails \/ EndOfDatagram
              \/ UNCHANGED vars
  BY <1>4, PlainFeeds DEF Feed!Next
<1> QED
  BY <1>1, <1>2, <1>3, <1>4, Zenon DEF Next, Program, read_event

\* The messages that wait are in the order of the changes, each one said once.
THEOREM OrderInvCorrect == Spec => []OrderInv
<1>1. Init => OrderInv
  <2> SUFFICES ASSUME Init PROVE OrderInv
    OBVIOUS
  <2>1. queue = <<>> /\ buf = <<>>
    BY DEF Init
  <2>2. Range(buf) = {} /\ AllOf(queue) = {}
    BY <2>1 DEF Range, AllOf
  <2>3. Pending = {}
    BY <2>2 DEF Pending, AllOf
  <2> QED
    BY <2>1, <2>2, <2>3 DEF OrderInv, Ordered, OrderedQueue, Older
<1>2. EInv /\ OrderInv /\ [Next]_vars => OrderInv'
  BY FeedStep
<1> QED
  BY <1>1, <1>2, LoopInvCorrect, PTL DEF Spec

\* The loop shows every notice once and in the order of the changes, and after a
\* drop nothing later before the error was printed: it implements ChangeFeed.
THEOREM FeedImplements == Spec => ImplementsChangeFeed
<1>1. Init => Feed!Init
  <2> SUFFICES ASSUME Init PROVE Feed!Init
    OBVIOUS
  <2>1. /\ queue = <<>> /\ buf = <<>> /\ pc = "start"
        /\ flags \in [Devices -> SUBSET Flags] /\ changes = 0 /\ congested = FALSE
        /\ soerr = FALSE /\ announced = 0 /\ shown = [d \in Devices |-> {}]
    BY Zenon DEF Init
  <2>2. Pending = {}
    BY <2>1 DEF Pending, Range
  <2>3. Bound = FALSE
    BY <2>1 DEF Bound
  <2> QED
    BY <2>1, <2>2, <2>3, Zenon DEF Feed!Init
<1>2. EInv /\ OrderInv /\ [Next]_vars => [Feed!Next]_(Feed!vars)
  BY FeedStep
<1> QED
  BY <1>1, <1>2, LoopInvCorrect, OrderInvCorrect, PTL
     DEF Spec, ImplementsChangeFeed, Feed!Spec
=============================================================================
