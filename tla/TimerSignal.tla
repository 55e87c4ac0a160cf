---------------------------- MODULE TimerSignal ----------------------------
(***************************************************************************)
(* test_cpp/src/Timer.c: a POSIX timer that sends SIGRTMIN to the process  *)
(* after one second and then every two, a worker that waits for SIGRTMIN   *)
(* with sigtimedwait(), and main_Timer(), which sleeps, raises the stop    *)
(* flag gExit and wakes the worker with one more SIGRTMIN.                 *)
(*                                                                         *)
(* The handler is installed and the signal blocked by the worker, for the  *)
(* worker alone: the timer is armed before that, main_Timer's own thread   *)
(* never blocks the signal, and the handler ends by having it ignored.     *)
(***************************************************************************)
EXTENDS Naturals

CONSTANTS
    Sleeps,     \* turns of the loop of sleep(1): 10 in the code
    WaitSeconds \* timeout of sigtimedwait(): 1000 in the code

ASSUME TimerAssumption ==
    /\ Sleeps \in Nat \ {0}
    /\ WaitSeconds \in Nat \ {0}

VARIABLES
    tmMain,     \* main_Timer: [pc, turns left, seconds of sleep left]
    tmWorker,   \* Timer_funcThread: [pc, seconds of the wait left]
    gExit,      \* the stop flag
    expiry,     \* seconds to the next expiry of the timer
    alive,      \* FALSE: a signal has ended the process
    action,     \* what SIGRTMIN does: "default", "handler" or "ignore"
    pending,    \* SIGRTMIN is pending for the "process", for the "worker"
    inHandler,  \* the threads that are inside Timer_handler
    handled,    \* history: how often each thread has run Timer_handler
    stopTaken   \* history: the worker's wait has taken the signal of the stop

timerVars == <<tmMain, tmWorker, gExit, expiry, alive, action, pending,
               inHandler, handled, stopTaken>>
signalVars == <<expiry, alive, action, pending, inHandler, handled, stopTaken>>

TmThreads == {"main", "worker"}
MainPc == {"off", "thread", "sleep", "stop", "queue", "join", "unblock", "done"}
WorkerPc == {"none", "start", "installed", "wait", "check", "done"}

TimerInit ==
    /\ tmMain = [pc |-> "off", turns |-> Sleeps, left |-> 0]
    /\ tmWorker = [pc |-> "none", left |-> 0]
    /\ gExit = FALSE
    /\ expiry = 1
    /\ alive = TRUE
    /\ action = "default"
    /\ pending = {}
    /\ inHandler = {}
    /\ handled = [t \in TmThreads |-> 0]
    /\ stopTaken = FALSE

MainGoes(pc) == tmMain' = [tmMain EXCEPT !.pc = pc]
WorkerGoes(pc) == tmWorker' = [tmWorker EXCEPT !.pc = pc]
MainRuns(pc) == alive /\ tmMain.pc = pc /\ "main" \notin inHandler
WorkerRuns(pc) == alive /\ tmWorker.pc = pc /\ "worker" \notin inHandler
               /\ tmMain.pc # "done"

\* The worker holds SIGRTMIN back: by its mask, or inside the handler.
WorkerBlocks == tmWorker.pc \in {"wait", "check"} \/ "worker" \in inHandler

-----------------------------------------------------------------------------
(* main_Timer and what it calls.                                            *)

\* The timer is made and armed for 1 s, then every 2 s; with another number
\* of arguments, or if a call fails, the program ends.
main_Timer ==
    /\ tmMain.pc = "off"
    /\ MainGoes("thread") \/ MainGoes("done")
    /\ UNCHANGED <<tmWorker, gExit, signalVars>>

\* pthread_create() may fail; nobody looks.
Timer_CreateThread ==
    /\ MainRuns("thread")
    /\ tmMain' = [tmMain EXCEPT !.pc = "sleep", !.left = 1]
    /\ WorkerGoes("start") \/ UNCHANGED tmWorker
    /\ UNCHANGED <<gExit, signalVars>>

\* Mutant: the loop takes one turn too many.
SleepEndsLate ==
    /\ MainRuns("sleep")
    /\ tmMain.left = 0
    /\ tmMain' = IF tmMain.turns = 0
                 THEN [tmMain EXCEPT !.pc = "stop"]
                 ELSE [tmMain EXCEPT !.turns = @ - 1, !.left = 1]
    /\ UNCHANGED <<tmWorker, gExit, signalVars>>

\* sleep(1) ends after a second, or early when the handler has run.
SleepEnds ==
    /\ MainRuns("sleep")
    /\ tmMain.left = 0
    /\ tmMain' = IF tmMain.turns = 1
                 THEN [tmMain EXCEPT !.pc = "stop"]
                 ELSE [tmMain EXCEPT !.turns = @ - 1, !.left = 1]
    /\ UNCHANGED <<tmWorker, gExit, signalVars>>

SetExit(from, to) ==
    /\ MainRuns(from)
    /\ MainGoes(to)
    /\ gExit' = TRUE
    /\ UNCHANGED <<tmWorker, signalVars>>

\* pthread_sigqueue(vTreadID, SIGRTMIN): kills a process that has no action
\* for the signal or no such thread, is dropped when it is ignored and not
\* blocked or when the thread has ended, and is queued otherwise.
SendStop(from, to) ==
    /\ MainRuns(from)
    /\ MainGoes(to)
    /\ alive' = (tmWorker.pc \notin {"none", "start"})
    /\ pending' = IF \/ tmWorker.pc \in {"none", "start", "done"}
                     \/ action = "ignore" /\ ~WorkerBlocks
                  THEN pending ELSE pending \cup {"worker"}
    /\ UNCHANGED <<tmWorker, gExit, expiry, action, inHandler, handled,
                   stopTaken>>

\* Mutant: the signal is sent before the flag is set.
StopTimerSignalFirst == SendStop("stop", "queue") \/ SetExit("queue", "join")

\* Mutant: the flag is not set.
StopTimerNoFlag ==
    SendStop("queue", "join") \/ (MainRuns("stop") /\ MainGoes("queue")
        /\ UNCHANGED <<tmWorker, gExit, signalVars>>)

\* Mutant: the flag is set but no signal is sent.
StopTimerUnsignalled ==
    SetExit("stop", "queue") \/ (MainRuns("queue") /\ MainGoes("join")
        /\ UNCHANGED <<tmWorker, gExit, signalVars>>)

Timer_StopTimer == SetExit("stop", "queue") \/ SendStop("queue", "join")

Join ==
    /\ MainRuns("join")
    /\ tmWorker.pc = "done"
    /\ MainGoes("unblock")
    /\ UNCHANGED <<tmWorker, gExit, signalVars>>

\* SIG_UNBLOCK for main's thread, which never blocked it; then main returns.
Unblock ==
    /\ MainRuns("unblock")
    /\ MainGoes("done")
    /\ UNCHANGED <<tmWorker, gExit, signalVars>>

-----------------------------------------------------------------------------
(* Timer_funcThread.                                                        *)

\* Mutant: sigprocmask() comes before sigaction().
ConfigureSignalLate ==
    \/ /\ WorkerRuns("start")
       /\ WorkerGoes("installed")
       /\ UNCHANGED action
    \/ /\ WorkerRuns("installed")
       /\ action' = "handler"
       /\ tmWorker' = [pc |-> "wait", left |-> WaitSeconds]

\* sigaction(), then sigprocmask(), then the first sigtimedwait().
ConfigureSignal ==
    \/ /\ WorkerRuns("start")
       /\ action' = "handler"
       /\ WorkerGoes("installed")
    \/ /\ WorkerRuns("installed")
       /\ tmWorker' = [pc |-> "wait", left |-> WaitSeconds]
       /\ UNCHANGED action

Timer_ConfigureSignal ==
    /\ ConfigureSignal
    /\ UNCHANGED <<tmMain, gExit, expiry, alive, pending, inHandler, handled,
                   stopTaken>>

\* sigtimedwait() takes a signal of the worker's or of the process, or ends
\* by its timeout.
Wait ==
    /\ WorkerRuns("wait")
    /\ WorkerGoes("check")
    /\ \/ \E where \in pending :
             /\ pending' = pending \ {where}
             /\ stopTaken' = (stopTaken \/ where = "worker")
       \/ /\ tmWorker.left = 0
          /\ UNCHANGED <<pending, stopTaken>>
    /\ UNCHANGED <<tmMain, gExit, expiry, alive, action, inHandler, handled>>

CheckExit ==
    /\ WorkerRuns("check")
    /\ tmWorker' = IF gExit THEN [tmWorker EXCEPT !.pc = "done"]
                   ELSE [pc |-> "wait", left |-> WaitSeconds]
    /\ UNCHANGED <<tmMain, gExit, signalVars>>

-----------------------------------------------------------------------------
(* Timer_handler, in whichever thread takes the signal.  It interrupts the   *)
(* sleep of main's thread.                                                   *)

HandlerStarts(t, where) ==
    /\ alive /\ tmMain.pc # "done"
    /\ action = "handler"
    /\ where \in pending
    /\ t = "worker" => tmWorker.pc = "installed"
    /\ where = "worker" => t = "worker"
    /\ t \notin inHandler
    /\ pending' = pending \ {where}
    /\ inHandler' = inHandler \cup {t}
    /\ handled' = [handled EXCEPT ![t] = @ + 1]
    /\ tmMain' = IF t = "main" THEN [tmMain EXCEPT !.left = 0] ELSE tmMain
    /\ UNCHANGED <<tmWorker, gExit, expiry, alive, action, stopTaken>>

\* Mutant: the handler does not have the signal ignored.
HandlerEndsArmed(t) ==
    /\ alive /\ tmMain.pc # "done"
    /\ t \in inHandler
    /\ inHandler' = inHandler \ {t}
    /\ UNCHANGED <<tmMain, tmWorker, gExit, expiry, alive, action, pending,
                   handled, stopTaken>>

\* signal(sig, SIG_IGN) also discards what is pending, for every thread.
HandlerEnds(t) ==
    /\ alive /\ tmMain.pc # "done"
    /\ t \in inHandler
    /\ action' = "ignore"
    /\ pending' = {}
    /\ inHandler' = inHandler \ {t}
    /\ UNCHANGED <<tmMain, tmWorker, gExit, expiry, alive, handled, stopTaken>>

Timer_handler ==
    \E t \in TmThreads :
        HandlerEnds(t) \/ \E where \in pending : HandlerStarts(t, where)

-----------------------------------------------------------------------------
(* A second passes.  At an expiry the signal ends a process that has no       *)
(* action for it, is discarded when it is ignored and main's thread, which it *)
(* is offered to first, does not block it, and pends otherwise; a second one  *)
(* while one pends only counts as an overrun.                                 *)

OneLess(n) == IF n = 0 THEN 0 ELSE n - 1

Expire ==
    /\ expiry' = 2
    /\ alive' = (action # "default")
    /\ pending' = IF action = "handler" \/ "main" \in inHandler
                  THEN pending \cup {"process"} ELSE pending

TimerTick ==
    /\ alive /\ tmMain.pc \notin {"off", "done"}
    /\ tmMain' = [tmMain EXCEPT !.left = OneLess(@)]
    /\ tmWorker' = [tmWorker EXCEPT !.left = OneLess(@)]
    /\ \/ expiry = 1 /\ Expire
       \/ expiry = 2 /\ expiry' = 1 /\ UNCHANGED <<alive, pending>>
    /\ UNCHANGED <<gExit, action, inHandler, handled, stopTaken>>

MainStep == Timer_CreateThread \/ SleepEnds \/ Timer_StopTimer \/ Join \/ Unblock
WorkerStep == Timer_ConfigureSignal \/ Wait \/ CheckExit

TimerNext == MainStep \/ WorkerStep \/ Timer_handler \/ TimerTick

\* Threads are scheduled, signals that are not blocked are delivered and time
\* passes.
TimerFairness ==
    /\ WF_timerVars(MainStep)
    /\ WF_timerVars(WorkerStep)
    /\ WF_timerVars(Timer_handler)
    /\ WF_timerVars(TimerTick)

TimerSpec ==
    TimerInit /\ [][main_Timer \/ TimerNext]_timerVars /\ TimerFairness

-----------------------------------------------------------------------------
(* Properties.                                                              *)

\* The values the variables take.
TimerTypeOK ==
    /\ tmMain \in [pc : MainPc, turns : 1..Sleeps, left : 0..1]
    /\ tmWorker \in [pc : WorkerPc, left : 0..WaitSeconds]
    /\ gExit \in BOOLEAN
    /\ expiry \in 1..2
    /\ alive \in BOOLEAN
    /\ action \in {"default", "handler", "ignore"}
    /\ pending \subseteq {"process", "worker"}
    /\ inHandler \subseteq TmThreads
    /\ handled \in [TmThreads -> Nat]
    /\ stopTaken \in BOOLEAN

\* A worker that has taken the signal of the stop does not wait again: gExit
\* is read after the wait and was set before the signal was sent (Timer.c 176,
\* 180, 239, 242).
StopIsNotMissed == stopTaken => tmWorker.pc \in {"check", "done"}

\* Main's join is behind a worker that will see the stop by a signal that
\* waits for it, or has just woken, unless a signal was handled meanwhile and
\* SIG_IGN threw the stop away: then only the timeout of 1000 s ends the join
\* (Timer.c 86, 242, 288).
OnlyHandlerDelaysStop ==
    tmMain.pc = "join" /\ alive /\ tmWorker.pc # "none" =>
        \/ tmWorker.pc \in {"check", "done"}
        \/ "worker" \in pending
        \/ handled["main"] + handled["worker"] > 0

\* A signal ends the process only while the worker has not installed the
\* handler: an expiry or a stop that comes earlier than the worker, or a
\* worker that could not be made (Timer.c 269, 272, 139).
TimerDiesUnprepared == ~alive => tmWorker.pc \in {"none", "start"}

\* No thread runs the handler twice, however often the timer expires: the
\* first run ends by having the signal ignored (Timer.c 86, 217).
HandledOnce == \A t \in TmThreads : handled[t] <= 1

\* main_Timer ends: the worker leaves by the signal or by its timeout, unless
\* the process was ended by a signal (Timer.c 180, 288).
TimerEnds == (tmMain.pc = "thread") ~> (tmMain.pc = "done" \/ ~alive)

\* Once the worker has blocked the signal "temporarily" (Timer.c 142), it is
\* held back until it is unblocked "so that timer notification can be
\* delivered" (Timer.c 297).
BlockedUntilUnblocked ==
    [][ tmWorker.pc \in {"wait", "check"} /\ tmMain.pc # "unblock" =>
            handled' = handled ]_timerVars
=============================================================================
