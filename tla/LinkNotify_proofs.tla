------------------------- MODULE LinkNotify_proofs -------------------------
(***************************************************************************)
(* Safety of nettool_link_notify() for any number of callers and threads.  *)
(***************************************************************************)
EXTENDS LinkNotify, FiniteSetTheorems, TLAPS

\* The invariant holds at first: nobody has called.
LEMMA InitInv == Init => IInv
  <1> SUFFICES ASSUME Init PROVE IInv
    OBVIOUS
  <1>1. TypeOK
    BY DEF Init, TypeOK
  <1>2. /\ ~done
        /\ late = {}
        /\ g_ModuleInit = 0
        /\ \A c \in Callers : pc[c] = "idle" /\ vRetcode[c] = "none"
    BY DEF Init
  <1> QED
    BY <1>1, <1>2 DEF IInv

\* No step of a call breaks it.
LEMMA NextInv == IInv /\ [Next]_vars => IInv'
  <1> SUFFICES ASSUME IInv, [Next]_vars PROVE IInv'
    OBVIOUS
  <1>1. CASE UNCHANGED vars
    BY <1>1 DEF vars, IInv, TypeOK
  <1>2. ASSUME NEW c \in Callers, Call(c) PROVE IInv'
    BY <1>2 DEF Call, IInv, TypeOK
  <1>3. ASSUME NEW c \in Callers, getModuleInit(c) PROVE IInv'
    BY <1>3 DEF getModuleInit, IInv, TypeOK
  <1>4. ASSUME NEW c \in Callers, CreateThread(c) PROVE IInv'
    BY <1>4 DEF CreateThread, IInv, TypeOK
  <1>5. ASSUME NEW c \in Callers, setModuleInit(c) PROVE IInv'
    BY <1>5 DEF setModuleInit, Return, IInv, TypeOK
  <1>6. ASSUME NEW c \in Callers, ip_link_add_notification(c) PROVE IInv'
    BY <1>6 DEF ip_link_add_notification, Return, IInv, TypeOK
  <1> QED
    BY <1>1, <1>2, <1>3, <1>4, <1>5, <1>6 DEF Next, nettool_link_notify

\* The inductive invariant of the module's flag, its thread and the calls.
THEOREM InvCorrect == Spec => []IInv
  BY InitInv, NextInv, PTL DEF Spec

\* The variables have their types.
THEOREM TypeCorrect == Spec => []TypeOK
  <1>1. IInv => TypeOK
    BY DEF IInv
  <1> QED
    BY <1>1, InvCorrect, PTL

\* A call that begins after another has returned never makes a thread.
THEOREM LateCorrect == Spec => []LateCallsMakeNone
  <1>1. IInv => LateCallsMakeNone
    BY DEF IInv, LateCallsMakeNone
  <1> QED
    BY <1>1, InvCorrect, PTL

\* A call that returned 0 leaves a thread, unless pthread_create() ever failed.
THEOREM ZeroCorrect == Spec => []ZeroMeansThread
  <1>1. IInv => ZeroMeansThread
    BY DEF IInv, ZeroMeansThread
  <1> QED
    BY <1>1, InvCorrect, PTL

\* The callers that may still make a thread: on their way to it, or not yet
\* past the flag while it is not set.
MayMake == {c \in Callers : \/ pc[c] = "create"
                            \/ g_ModuleInit = 0 /\ pc[c] \in {"idle", "test"}}

\* A thread is paid for by a caller that can make no other.
OInv ==
    /\ IsFiniteSet(running)
    /\ Cardinality(running) + Cardinality(MayMake) <= Cardinality(Callers)

\* Fewer callers are left to make a thread when one has made it.
LEMMA MayMakeFinite ==
    /\ IsFiniteSet(MayMake) /\ Cardinality(MayMake) \in Nat
    /\ Cardinality(Callers) \in Nat
  BY LinkNotifyAssumption, FS_Subset, FS_CardinalityType DEF MayMake

\* No caller has a thread when the program starts.
LEMMA InitMade == Init => OInv
  <1> SUFFICES ASSUME Init PROVE OInv
    OBVIOUS
  <1>1. running = {} /\ MayMake = Callers
    BY DEF Init, MayMake
  <1> QED
    BY <1>1, FS_EmptySet, MayMakeFinite DEF OInv

\* Every step keeps the account of who may make the singleton.
LEMMA NextMade == IInv /\ OInv /\ [Next]_vars => OInv'
  <1> SUFFICES ASSUME IInv, OInv, [Next]_vars PROVE OInv'
    OBVIOUS
  <1>1. /\ Cardinality(running) \in Nat /\ IsFiniteSet(running)
        /\ Cardinality(MayMake) \in Nat /\ IsFiniteSet(MayMake)
        /\ Cardinality(Callers) \in Nat
    BY MayMakeFinite, FS_CardinalityType DEF OInv
  <1>2. ASSUME MayMake' \subseteq MayMake, running' = running PROVE OInv'
    <2>1. Cardinality(MayMake') <= Cardinality(MayMake) /\ Cardinality(MayMake') \in Nat
      BY <1>1, <1>2, FS_Subset, FS_CardinalityType
    <2> QED
      BY <1>1, <1>2, <2>1 DEF OInv
  <1>3. ASSUME NEW c \in Callers, NEW t \in Threads \ running, c \in MayMake,
               MayMake' = MayMake \ {c}, running' = running \cup {t}
        PROVE  OInv'
    <2>1. IsFiniteSet(running') /\ Cardinality(running') = Cardinality(running) + 1
      BY <1>1, <1>3, FS_AddElement
    <2>2. Cardinality(MayMake') = Cardinality(MayMake) - 1
      BY <1>1, <1>3, FS_RemoveElement
    <2> QED
      BY <1>1, <2>1, <2>2 DEF OInv
  <1>4. CASE UNCHANGED vars
    BY <1>2, <1>4 DEF vars, MayMake
  <1>5. ASSUME NEW c \in Callers, Call(c) PROVE OInv'
    BY <1>2, <1>5 DEF Call, MayMake, IInv, TypeOK
  <1>6. ASSUME NEW c \in Callers, getModuleInit(c) PROVE OInv'
    BY <1>2, <1>6 DEF getModuleInit, MayMake, IInv, TypeOK
  <1>7. ASSUME NEW c \in Callers, CreateThread(c) PROVE OInv'
    <2>1. /\ c \in MayMake /\ MayMake' = MayMake \ {c}
      BY <1>7 DEF CreateThread, MayMake, IInv, TypeOK
    <2>2. CASE UNCHANGED running
      BY <1>2, <2>1, <2>2
    <2>3. CASE \E t \in Threads \ running : running' = running \cup {t}
      BY <1>3, <2>1, <2>3
    <2> QED
      BY <1>7, <2>2, <2>3 DEF CreateThread
  <1>8. ASSUME NEW c \in Callers, setModuleInit(c) PROVE OInv'
    BY <1>2, <1>8 DEF setModuleInit, Return, MayMake, IInv, TypeOK
  <1>9. ASSUME NEW c \in Callers, ip_link_add_notification(c) PROVE OInv'
    BY <1>2, <1>9 DEF ip_link_add_notification, Return, MayMake, IInv, TypeOK
  <1> QED
    BY <1>4, <1>5, <1>6, <1>7, <1>8, <1>9 DEF Next, nettool_link_notify

\* However often they call, callers never make more threads than there are
\* callers.
THEOREM ThreadsBounded == Spec => []OneThreadEach
  <1>1. OInv => OneThreadEach
    BY MayMakeFinite, FS_CardinalityType DEF OInv, OneThreadEach
  <1> QED
    BY <1>1, InvCorrect, InitMade, NextMade, PTL DEF Spec
=============================================================================
