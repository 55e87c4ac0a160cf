----------------------------- MODULE WaitSignal -----------------------------
(***************************************************************************)
(* test_cpp/src/Test_waitSignal.c: a worker waits for SIG_STOP with        *)
(* sigtimedwait(), works, and computes from the dates of the wake-up and   *)
(* of the end of the work how long to wait next, so that it starts every   *)
(* two seconds.  main_WaitSignal() sends SIG_STOP at every key.            *)
(*                                                                         *)
(* SIG_STOP is a real-time signal: those that are sent while one pends are *)
(* queued, up to a limit.  The clock is bounded by MaxDate, the keys by    *)
(* MaxKeys.                                                                *)
(***************************************************************************)
EXTENDS Timespec

CONSTANTS
    MaxDate,   \* the last date of the clock, in nanoseconds
    MaxKeys,   \* how many keys are pressed
    QueueLimit \* how many signals may pend (RLIMIT_SIGPENDING)

ASSUME WaitSignalAssumption ==
    /\ MaxDate \in Nat
    /\ MaxKeys \in Nat
    /\ QueueLimit \in Nat \ {0}

VARIABLES
    wsMain,      \* main_WaitSignal: "off", or "keys" in its loop
    wsWorker,    \* where WaitSignal_funcThread is
    wsBlocked,   \* the worker blocks SIG_STOP
    wsAlive,     \* FALSE: a signal has ended the process
    wsClock,     \* CLOCK_MONOTONIC_RAW
    g_Timeout,
    g_DateStart, \* the date of the last wake-up
    wsDeadline,  \* when the wait ends, in nanoseconds
    wsQueue,     \* signals that pend for the worker
    wsKeys       \* keys pressed

waitVars == <<wsMain, wsWorker, wsBlocked, wsAlive, wsClock, g_Timeout,
              g_DateStart, wsDeadline, wsQueue, wsKeys>>

vDateStart == [sec |-> 2, nsec |-> 0]
WsWorkerPc == {"none", "config", "loop", "waiting", "woken", "work"}

WaitSignalInit ==
    /\ wsMain = "off"
    /\ wsWorker = "none"
    /\ wsBlocked = FALSE
    /\ wsAlive = TRUE
    /\ wsClock = Zero
    /\ g_Timeout = Zero
    /\ g_DateStart = Zero
    /\ wsDeadline = 0
    /\ wsQueue = 0
    /\ wsKeys = 0

\* The thread is made, or is not: nobody looks.
main_WaitSignal ==
    /\ wsMain = "off"
    /\ wsMain' = "keys"
    /\ wsWorker' = "config" \/ UNCHANGED wsWorker
    /\ UNCHANGED <<wsBlocked, wsAlive, wsClock, g_Timeout, g_DateStart,
                   wsDeadline, wsQueue, wsKeys>>

\* pthread_sigqueue(): ends a process whose worker does not block the signal
\* yet or does not exist, and fails with EAGAIN when too many pend.
Key ==
    /\ wsAlive /\ wsMain = "keys"
    /\ wsKeys < MaxKeys
    /\ wsKeys' = wsKeys + 1
    /\ wsAlive' = (wsWorker # "none" /\ wsBlocked)
    /\ wsQueue' = IF wsBlocked /\ wsQueue < QueueLimit THEN wsQueue + 1
                                                      ELSE wsQueue
    /\ UNCHANGED <<wsMain, wsWorker, wsBlocked, wsClock, g_Timeout,
                   g_DateStart, wsDeadline>>

Goes(from, to) ==
    /\ wsAlive /\ wsWorker = from /\ wsWorker' = to
    /\ UNCHANGED <<wsMain, wsAlive, wsClock, wsKeys>>

\* Mutant: the mask is made but not set.
ConfigNotMasked ==
    /\ Goes("config", "loop")
    /\ g_Timeout' = [g_Timeout EXCEPT !.sec = 2]
    /\ UNCHANGED <<wsBlocked, g_DateStart, wsDeadline, wsQueue>>

\* The signal is blocked, and the first wait is to take 2 s.
WaitSignal_Config ==
    /\ Goes("config", "loop")
    /\ wsBlocked' = TRUE
    /\ g_Timeout' = [g_Timeout EXCEPT !.sec = 2]
    /\ UNCHANGED <<g_DateStart, wsDeadline, wsQueue>>

\* sigtimedwait() is called.
WaitStarts ==
    /\ Goes("loop", "waiting")
    /\ wsDeadline' = Nanoseconds(wsClock) + Nanoseconds(g_Timeout)
    /\ UNCHANGED <<wsBlocked, g_Timeout, g_DateStart, wsQueue>>

\* Mutant: the set that is waited for does not hold the signal.
WaitEndsDeaf ==
    /\ Goes("waiting", "woken")
    /\ Nanoseconds(wsClock) >= wsDeadline
    /\ UNCHANGED <<wsBlocked, g_Timeout, g_DateStart, wsDeadline, wsQueue>>

\* It takes a signal, or returns EAGAIN when none came in time.
WaitEnds ==
    /\ Goes("waiting", "woken")
    /\ \/ wsQueue > 0 /\ wsQueue' = wsQueue - 1
       \/ wsQueue = 0 /\ Nanoseconds(wsClock) >= wsDeadline /\ UNCHANGED wsQueue
    /\ UNCHANGED <<wsBlocked, g_Timeout, g_DateStart, wsDeadline>>

\* The wake-up is dated after sigtimedwait() has returned.
WakeUpDate ==
    /\ Goes("woken", "work")
    /\ g_DateStart' = wsClock
    /\ UNCHANGED <<wsBlocked, g_Timeout, wsDeadline, wsQueue>>

\* The work is done, at some date: what is left of the two seconds.
NextTimeout ==
    /\ Goes("work", "loop")
    /\ g_Timeout' = ts_Subtract(vDateStart, ts_Subtract(wsClock, g_DateStart))
    /\ UNCHANGED <<wsBlocked, g_DateStart, wsDeadline, wsQueue>>

WaitSignal_funcThread ==
    \/ WaitSignal_Config
    \/ WaitStarts
    \/ WaitEnds
    \/ WakeUpDate
    \/ NextTimeout

WaitSignalTick ==
    /\ wsAlive /\ wsMain = "keys"
    /\ Nanoseconds(wsClock) < MaxDate
    /\ wsClock' = ts_Add(wsClock, [sec |-> 1 \div NsPerSec,
                                   nsec |-> 1 % NsPerSec])
    /\ UNCHANGED <<wsMain, wsWorker, wsBlocked, wsAlive, g_Timeout,
                   g_DateStart, wsDeadline, wsQueue, wsKeys>>

WaitSignalNext == Key \/ WaitSignal_funcThread \/ WaitSignalTick

\* The worker is scheduled and time passes; nobody has to press a key.
WaitSignalFairness ==
    WF_waitVars(WaitSignal_funcThread) /\ WF_waitVars(WaitSignalTick)

WaitSignalSpec ==
    /\ WaitSignalInit
    /\ [][main_WaitSignal \/ WaitSignalNext]_waitVars
    /\ WaitSignalFairness

-----------------------------------------------------------------------------
(* Properties.                                                              *)

\* The values the variables take.
WaitSignalTypeOK ==
    /\ wsMain \in {"off", "keys"}
    /\ wsWorker \in WsWorkerPc
    /\ wsBlocked \in BOOLEAN
    /\ wsAlive \in BOOLEAN
    /\ wsClock \in Timespecs
    /\ g_DateStart \in Timespecs
    /\ wsDeadline \in Nat
    /\ wsQueue \in 0..QueueLimit
    /\ wsKeys \in 0..MaxKeys

\* sigtimedwait() is never asked for an invalid time (it would fail at once,
\* and the loop would spin) nor for more than a period, however long the work
\* took: the subtractions stop at zero (Test_waitSignal.c 199, 200).
TimeoutIsValid ==
    /\ g_Timeout \in Timespecs
    /\ Nanoseconds(g_Timeout) <= Nanoseconds(vDateStart)

\* A wait that no signal ends lasts until two seconds after the last wake-up,
\* however the work and the delays around the dates fall, and is never asked
\* for an invalid time (187, 199, 200).
PeriodKept ==
    /\ TimeoutIsValid
    /\ wsWorker = "waiting" =>
          wsDeadline >= Nanoseconds(g_DateStart) + Nanoseconds(vDateStart)

\* Signals that pend are taken one by one, without waiting for time to pass
\* in between (69): a worker that is behind its period catches up.
KeysAnswered == (wsQueue > 0) ~> (wsQueue = 0 \/ ~wsAlive)

\* A key ends the process only while the worker does not block the signal
\* yet, or could not be made (151, 254, 268).
WaitDiesUnmasked == ~wsAlive => wsWorker \in {"none", "config"}
=============================================================================
