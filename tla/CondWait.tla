------------------------------ MODULE CondWait ------------------------------
(***************************************************************************)
(* test_cpp/src/Test_condition_variable.c: a worker waits on a condition   *)
(* variable for at most 20 s, again and again and without a predicate;     *)
(* main_ConditionVariable() signals it once after a minute, without the    *)
(* mutex, and returns, while the worker runs on until the process ends.    *)
(*                                                                         *)
(* The clock is the real-time clock that both gettimeofday() and the wait  *)
(* use, bounded by CvLastDate; nobody sets it.  A wait may return without  *)
(* cause, as POSIX allows.                                                 *)
(***************************************************************************)
EXTENDS Timespec

CONSTANTS
    CvTimeout,  \* seconds of ConditionVariable_wait(): 20 in the code
    CvSleeps,   \* turns of sleep(1) before the signal: 60 in the code
    CvLastDate  \* the last date of the clock, in nanoseconds

ASSUME CondWaitAssumption ==
    /\ {CvTimeout, CvLastDate} \subseteq Nat
    /\ CvSleeps \in Nat \ {0}

VARIABLES
    cvMain,   \* [pc, sleeps left, end of the sleep in nanoseconds]
    cvWorker, \* ConditionVariable_funcThread: "none", "date", "lock", "enter",
              \* "waiting", "woken", "unlock"
    m_mutex,  \* "free" or "worker"
    cvClock,  \* CLOCK_REALTIME
    absTimeToWait

condVars == <<cvMain, cvWorker, m_mutex, cvClock, absTimeToWait>>
workerVars == <<m_mutex, absTimeToWait>>

CondInit ==
    /\ cvMain = [pc |-> "off", sleeps |-> CvSleeps, until |-> 0]
    /\ cvWorker = "none"
    /\ m_mutex = "free"
    /\ cvClock = Zero
    /\ absTimeToWait = Zero

CvRuns == cvMain.pc \notin {"off", "done"}

\* The thread is made, or is not: nobody looks.  usleep() is shorter than
\* what the clock tells apart.
main_ConditionVariable ==
    /\ cvMain.pc = "off"
    /\ cvMain' = [cvMain EXCEPT !.pc = "sleep",
                                !.until = Nanoseconds(cvClock) + NsPerSec]
    /\ cvWorker' = "date" \/ UNCHANGED cvWorker
    /\ UNCHANGED <<cvClock, workerVars>>

CvSleepEnds ==
    /\ cvMain.pc = "sleep"
    /\ Nanoseconds(cvClock) >= cvMain.until
    /\ cvMain' = IF cvMain.sleeps = 1
                 THEN [cvMain EXCEPT !.pc = "signal"]
                 ELSE [cvMain EXCEPT !.sleeps = @ - 1,
                                     !.until = Nanoseconds(cvClock) + NsPerSec]
    /\ UNCHANGED <<cvWorker, cvClock, workerVars>>

\* pthread_cond_signal(), without the mutex: the worker is woken if it waits; if
\* it does not, the signal is lost, and the worker may begin to wait after it.
CvSignal ==
    /\ cvMain.pc = "signal"
    /\ cvMain' = [cvMain EXCEPT !.pc = "leaving"]
    /\ cvWorker' = IF cvWorker = "waiting" THEN "woken" ELSE cvWorker
    /\ UNCHANGED <<cvClock, workerVars>>

\* main() returns, which ends the worker with the process wherever it is.
CvExit ==
    /\ cvMain.pc = "leaving"
    /\ cvMain' = [cvMain EXCEPT !.pc = "done"]
    /\ UNCHANGED <<cvWorker, cvClock, workerVars>>

CvGoes(from, to) ==
    /\ CvRuns /\ cvWorker = from /\ cvWorker' = to
    /\ UNCHANGED <<cvMain, cvClock>>

\* The date plus a timeout of whole seconds; a carry only above a second, which
\* the nanoseconds of a date never are.
AbsoluteTime(now) ==
    IF now.nsec > NsPerSec
    THEN [sec |-> now.sec + CvTimeout + 1, nsec |-> now.nsec - NsPerSec]
    ELSE [sec |-> now.sec + CvTimeout, nsec |-> now.nsec]

ReadDate ==
    /\ CvGoes("date", "lock")
    /\ absTimeToWait' = AbsoluteTime(cvClock)
    /\ UNCHANGED m_mutex

Lock ==
    /\ CvGoes("lock", "enter")
    /\ m_mutex = "free" /\ m_mutex' = "worker"
    /\ UNCHANGED absTimeToWait

\* pthread_cond_timedwait(): the mutex is released and the wait begun in one.
WaitBegins ==
    /\ CvGoes("enter", "waiting")
    /\ m_mutex' = "free"
    /\ UNCHANGED absTimeToWait

\* The wait is over for the time or for the signal; what it returns is not
\* looked at.
WaitEndsForCause ==
    /\ \/ CvGoes("waiting", "unlock") /\ Nanoseconds(cvClock) >= Nanoseconds(absTimeToWait)
       \/ CvGoes("woken", "unlock")
    /\ m_mutex = "free" /\ m_mutex' = "worker"
    /\ UNCHANGED absTimeToWait

\* It returns without cause.
WaitReturnsEarly ==
    /\ CvGoes("waiting", "unlock")
    /\ m_mutex = "free" /\ m_mutex' = "worker"
    /\ UNCHANGED absTimeToWait

Unlock ==
    /\ CvGoes("unlock", "date")
    /\ m_mutex' = "free"
    /\ UNCHANGED absTimeToWait

ConditionVariable_wait == ReadDate \/ Lock \/ WaitBegins \/ WaitEndsForCause \/ Unlock

CvTick ==
    /\ CvRuns
    /\ Nanoseconds(cvClock) < CvLastDate
    /\ cvClock' = ts_Add(cvClock, [sec |-> 1 \div NsPerSec,
                                   nsec |-> 1 % NsPerSec])
    /\ UNCHANGED <<cvMain, cvWorker, workerVars>>

CondMain == CvSleepEnds \/ CvSignal \/ CvExit

CondNext == CondMain \/ ConditionVariable_wait \/ WaitReturnsEarly \/ CvTick

\* Both threads run when they can, and time passes; no wait has to return early.
CondFairness ==
    /\ WF_condVars(CondMain)
    /\ WF_condVars(ConditionVariable_wait)
    /\ WF_condVars(CvTick)

-----------------------------------------------------------------------------
(* Properties.                                                              *)

\* The values the variables take; the absolute time is one that
\* pthread_cond_timedwait() accepts.
CondTypeOK ==
    /\ cvMain \in [pc : {"off", "sleep", "signal", "leaving", "done"},
                   sleeps : 0..CvSleeps, until : Nat]
    /\ m_mutex \in {"free", "worker"}
    /\ cvClock \in Timespecs
    /\ absTimeToWait \in Timespecs

\* A signal that is lost costs the worker no more than its timeout: every wait
\* ends, unless the process does first.  And the process ends, wherever the
\* worker is, with the mutex or without (Test_condition_variable.c 74, 97, 106).
\* What would end after the last date of the model is left open.
CondEnds ==
    /\ cvWorker = "waiting" ~> \/ cvWorker # "waiting"
                               \/ cvMain.pc = "done"
                               \/ Nanoseconds(absTimeToWait) > CvLastDate
    /\ cvMain.pc # "off" ~> cvMain.pc = "done" \/ cvMain.until > CvLastDate
=============================================================================
