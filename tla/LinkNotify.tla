----------------------------- MODULE LinkNotify -----------------------------
(***************************************************************************)
(* nettool_link_notify() of libnettool's ip_link.c: the first call makes   *)
(* the thread that is to watch the links, the flag g_ModuleInit keeps the  *)
(* later ones from making another.  The flag is tested, the thread made    *)
(* and the flag set in separate steps and without a lock, so that calls of *)
(* several threads interleave.  The thread sleeps for ever.                *)
(***************************************************************************)
EXTENDS Naturals, FiniteSets

CONSTANTS
    Callers,      \* threads that call nettool_link_notify()
    Threads,      \* ids pthread_create() may give
    None,         \* no id: g_ThreadID at first
    CreateMayFail \* whether pthread_create() may fail

ASSUME LinkNotifyAssumption ==
    /\ IsFiniteSet(Callers)
    /\ None \notin Threads
    /\ CreateMayFail \in BOOLEAN

VARIABLES
    g_ModuleInit, \* "the module is initialised"
    g_ThreadID,   \* the id of the thread
    running,      \* the threads that were made; they never end
    pc,           \* where a caller is
    vRetcode,     \* its return code: "0", "-1", "EAGAIN", or "none" yet
    late,         \* history: callers whose call began after one had finished
    done,         \* history: a call has returned after the flag was set
    failed        \* history: pthread_create() has failed

vars == <<g_ModuleInit, g_ThreadID, running, pc, vRetcode, late, done, failed>>

Init ==
    /\ g_ModuleInit = 0
    /\ g_ThreadID = None
    /\ running = {}
    /\ pc = [c \in Callers |-> "idle"]
    /\ vRetcode = [c \in Callers |-> "none"]
    /\ late = {}
    /\ done = FALSE
    /\ failed = FALSE

\* A call begins; one without a device, a function or a flag is refused.
Call(c) ==
    /\ pc[c] = "idle"
    /\ \/ /\ pc' = [pc EXCEPT ![c] = "test"]
          /\ vRetcode' = [vRetcode EXCEPT ![c] = "0"]
          /\ late' = IF done THEN late \cup {c} ELSE late \ {c}
       \/ /\ vRetcode' = [vRetcode EXCEPT ![c] = "-1"]
          /\ UNCHANGED <<pc, late>>
    /\ UNCHANGED <<g_ModuleInit, g_ThreadID, running, done, failed>>

\* Mutant: the flag is not looked at.
getModuleInitIgnored(c) ==
    /\ pc[c] = "test"
    /\ pc' = [pc EXCEPT ![c] = "create"]
    /\ UNCHANGED <<g_ModuleInit, g_ThreadID, running, vRetcode, late, done,
                   failed>>

getModuleInit(c) ==
    /\ pc[c] = "test"
    /\ pc' = [pc EXCEPT ![c] = IF g_ModuleInit = 0 THEN "create" ELSE "add"]
    /\ UNCHANGED <<g_ModuleInit, g_ThreadID, running, vRetcode, late, done,
                   failed>>

CreateThread(c) ==
    /\ pc[c] = "create"
    /\ \/ \E t \in Threads \ running :
             /\ running' = running \cup {t}
             /\ g_ThreadID' = t
             /\ UNCHANGED <<vRetcode, failed>>
       \/ /\ CreateMayFail
          /\ vRetcode' = [vRetcode EXCEPT ![c] = "EAGAIN"]
          /\ failed' = TRUE
          /\ UNCHANGED <<running, g_ThreadID>>
    /\ pc' = [pc EXCEPT ![c] = "set"]
    /\ UNCHANGED <<g_ModuleInit, late, done>>

Return(c) ==
    /\ pc' = [pc EXCEPT ![c] = "idle"]
    /\ done' = TRUE
    /\ late' = late \ {c}

\* Mutant: the flag is set when the thread could not be made, and only then.
setModuleInitOnError(c) ==
    /\ pc[c] = "set"
    /\ g_ModuleInit' = IF vRetcode[c] = "0" THEN g_ModuleInit ELSE 1
    /\ IF vRetcode[c] = "0"
       THEN pc' = [pc EXCEPT ![c] = "add"] /\ UNCHANGED <<late, done>>
       ELSE Return(c)
    /\ UNCHANGED <<g_ThreadID, running, vRetcode, failed>>

\* Mutant: the flag counts the calls that have set it.
setModuleInitCounts(c) ==
    /\ pc[c] = "set"
    /\ g_ModuleInit' = g_ModuleInit + 1
    /\ IF vRetcode[c] = "0"
       THEN pc' = [pc EXCEPT ![c] = "add"] /\ UNCHANGED <<late, done>>
       ELSE Return(c)
    /\ UNCHANGED <<g_ThreadID, running, vRetcode, failed>>

\* The flag is set whether or not there is a thread.
setModuleInit(c) ==
    /\ pc[c] = "set"
    /\ g_ModuleInit' = 1
    /\ IF vRetcode[c] = "0"
       THEN pc' = [pc EXCEPT ![c] = "add"] /\ UNCHANGED <<late, done>>
       ELSE Return(c)
    /\ UNCHANGED <<g_ThreadID, running, vRetcode, failed>>

\* A notification is allocated and forgotten: nothing is registered.
ip_link_add_notification(c) ==
    /\ pc[c] = "add"
    /\ Return(c)
    /\ UNCHANGED <<g_ModuleInit, g_ThreadID, running, vRetcode, failed>>

nettool_link_notify(c) ==
    \/ Call(c)
    \/ getModuleInit(c)
    \/ CreateThread(c)
    \/ setModuleInit(c)
    \/ ip_link_add_notification(c)

Next == \E c \in Callers : nettool_link_notify(c)

Spec == Init /\ [][Next]_vars
-----------------------------------------------------------------------------

\* Types.
TypeOK ==
    /\ g_ModuleInit \in {0, 1}
    /\ g_ThreadID \in Threads \cup {None}
    /\ running \in SUBSET Threads
    /\ pc \in [Callers -> {"idle", "test", "create", "set", "add"}]
    /\ vRetcode \in [Callers -> {"none", "0", "-1", "EAGAIN"}]
    /\ late \in SUBSET Callers
    /\ done \in BOOLEAN
    /\ failed \in BOOLEAN

\* A caller makes a thread once at most, however often it calls: there are never
\* more threads than callers that raced for the first call.
OneThreadEach == Cardinality(running) <= Cardinality(Callers)

\* Only calls that overlap the first one can make a second thread: a call that
\* begins after any call has returned from initialising finds the flag set.
LateCallsMakeNone == \A c \in late : pc[c] \notin {"create", "set"}

\* A call that returned 0 leaves a watching thread behind, and g_ThreadID names
\* one, unless pthread_create() has failed some time before.
ZeroMeansThread ==
    \A c \in Callers :
        pc[c] = "idle" /\ vRetcode[c] = "0" /\ ~failed =>
            /\ g_ModuleInit = 1
            /\ g_ThreadID \in running

\* What makes these inductive: the flag is set once a call has returned from
\* testing it, the ids are those of threads, and a call on its way to returning
\* 0 has made its thread or found the flag set.
IInv ==
    /\ TypeOK
    /\ done => g_ModuleInit = 1
    /\ late # {} => done
    /\ \A c \in late : pc[c] \in {"test", "add"}
    /\ \A c \in Callers :
          /\ pc[c] = "add" => g_ModuleInit = 1
          /\ pc[c] = "idle" /\ vRetcode[c] = "0" => g_ModuleInit = 1
          /\ pc[c] \in {"test", "create", "add"} => vRetcode[c] = "0"
          /\ pc[c] = "set" /\ vRetcode[c] = "0" => g_ThreadID \in running
          /\ pc[c] = "set" /\ vRetcode[c] # "0" => failed
    /\ g_ModuleInit = 1 /\ ~failed => g_ThreadID \in running

\* ip_link.c:35 "singleton int module": the module has one thread.
Singleton == Cardinality(running) <= 1
=============================================================================
