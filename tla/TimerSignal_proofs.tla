-------------------------- MODULE TimerSignal_proofs --------------------------
(***************************************************************************)
(* Proofs about the timer of TimerSignal: who is ended by its signal, how  *)
(* often its handler runs, and that the stop reaches the worker, for any   *)
(* number of sleeps and any timeout of the worker's wait.                  *)
(***************************************************************************)
EXTENDS TimerSignal, TLAPS

\* The action of the signal tells how far the worker has come.
ActionFollowsWorker ==
    /\ tmMain.pc \in {"off", "thread"} => tmWorker.pc = "none"
    /\ action = "default" <=> tmWorker.pc \in {"none", "start"}
    /\ inHandler # {} => action # "default"
    /\ alive \/ action = "default"

\* A thread that has run the handler has had the signal ignored, unless it is
\* still in it; the signal is ignored by nobody else.
HandlerIgnores ==
    /\ \A t \in TmThreads :
          /\ t \in inHandler => handled[t] = 1
          /\ t \notin inHandler => handled[t] = 0
                \/ (handled[t] = 1 /\ action = "ignore")
    /\ action = "ignore" => \E t \in TmThreads : handled[t] = 1

\* The stop is signalled after it has been flagged.
StopIsFlagged ==
    /\ tmMain.pc \in {"queue", "join"} => gExit
    /\ "worker" \in pending => gExit
    /\ stopTaken => gExit

TInv ==
    /\ TimerTypeOK
    /\ ActionFollowsWorker
    /\ HandlerIgnores
    /\ StopIsFlagged
    /\ StopIsNotMissed
    /\ OnlyHandlerDelaysStop

MainRecords == [pc : MainPc, turns : 1..Sleeps, left : 0..1]

-----------------------------------------------------------------------------
\* The record of main_Timer keeps its type when it goes on or counts down.
LEMMA MainRecordKept ==
    ASSUME NEW m \in MainRecords, NEW p \in MainPc, NEW n \in 0..1
    PROVE  /\ [m EXCEPT !.pc = p] \in MainRecords
           /\ [m EXCEPT !.pc = p, !.left = n] \in MainRecords
           /\ [m EXCEPT !.left = n] \in MainRecords
           /\ m.turns # 1 => [m EXCEPT !.turns = @ - 1, !.left = n] \in MainRecords
<1>1. m.pc \in MainPc /\ m.turns \in 1..Sleeps /\ m.left \in 0..1
  BY DEF MainRecords
<1>2. m.turns # 1 => m.turns - 1 \in 1..Sleeps
  BY <1>1, TimerAssumption
<1>3. [m EXCEPT !.pc = p] \in MainRecords
  BY <1>1 DEF MainRecords
<1>4. [m EXCEPT !.pc = p, !.left = n] \in MainRecords
  BY <1>1 DEF MainRecords
<1>5. [m EXCEPT !.left = n] \in MainRecords
  BY <1>1 DEF MainRecords
<1>6. ASSUME m.turns # 1 PROVE [m EXCEPT !.turns = @ - 1, !.left = n] \in MainRecords
  BY <1>1, <1>2, <1>6 DEF MainRecords
<1> QED
  BY <1>3, <1>4, <1>5, <1>6

\* The inductive invariant holds at the start: no worker, no signal.
LEMMA InitTInv == TimerInit => TInv
<1> SUFFICES ASSUME TimerInit PROVE TInv
  OBVIOUS
<1> USE DEF TimerInit
<1>1. TimerTypeOK
  <2>1. tmMain \in [pc : MainPc, turns : 1..Sleeps, left : 0..1]
    BY TimerAssumption DEF MainPc
  <2>2. tmWorker \in [pc : WorkerPc, left : 0..WaitSeconds]
    BY TimerAssumption DEF WorkerPc
  <2>3. handled \in [TmThreads -> Nat] /\ expiry \in 1..2
    OBVIOUS
  <2> QED
    BY <2>1, <2>2, <2>3 DEF TimerTypeOK
<1>2. ActionFollowsWorker /\ HandlerIgnores
  BY DEF ActionFollowsWorker, HandlerIgnores
<1>3. StopIsFlagged /\ StopIsNotMissed /\ OnlyHandlerDelaysStop
  BY DEF StopIsFlagged, StopIsNotMissed, OnlyHandlerDelaysStop
<1> QED
  BY <1>1, <1>2, <1>3 DEF TInv

\* Whatever main_Timer does, up to the join, keeps the invariant.
LEMMA MainKeeps == TInv /\ (main_Timer \/ MainStep) => TInv'
<1> USE DEF TInv, TimerTypeOK, ActionFollowsWorker, HandlerIgnores,
            StopIsFlagged, StopIsNotMissed, OnlyHandlerDelaysStop, TmThreads,
            MainPc, WorkerPc, signalVars, MainGoes, MainRuns, WorkerGoes
<1> SUFFICES ASSUME TInv, main_Timer \/ MainStep PROVE TInv'
  OBVIOUS
<1>1. CASE main_Timer
  BY <1>1 DEF main_Timer
<1>2. CASE Timer_CreateThread
  <2> USE <1>2 DEF Timer_CreateThread
  <2>1. tmMain' \in MainRecords
    <3>1. tmMain \in MainRecords
      BY DEF MainRecords
    <3>2. "sleep" \in MainPc /\ 1 \in 0..1
      OBVIOUS
    <3>3. tmMain' = [tmMain EXCEPT !.pc = "sleep", !.left = 1]
      OBVIOUS
    <3>4. [tmMain EXCEPT !.pc = "sleep", !.left = 1] \in MainRecords
      BY ONLY <3>1, <3>2, MainRecordKept
    <3> QED
      BY ONLY <3>3, <3>4
  <2>2. tmWorker' \in [pc : WorkerPc, left : 0..WaitSeconds]
    OBVIOUS
  <2>3. tmMain'.pc = "sleep" /\ tmWorker'.pc \in {"none", "start"}
    OBVIOUS
  <2> QED
    BY <2>1, <2>2, <2>3 DEF MainRecords
<1>3. CASE SleepEnds
  <2> USE <1>3 DEF SleepEnds
  <2>1. tmMain' \in MainRecords
    <3>1. tmMain \in MainRecords
      BY DEF MainRecords
    <3>2. "stop" \in MainPc /\ 1 \in 0..1
      OBVIOUS
    <3>3. \/ tmMain' = [tmMain EXCEPT !.pc = "stop"]
          \/ /\ tmMain.turns # 1
             /\ tmMain' = [tmMain EXCEPT !.turns = @ - 1, !.left = 1]
      OBVIOUS
    <3>4. /\ [tmMain EXCEPT !.pc = "stop"] \in MainRecords
          /\ tmMain.turns # 1 =>
                [tmMain EXCEPT !.turns = @ - 1, !.left = 1] \in MainRecords
      BY ONLY <3>1, <3>2, MainRecordKept
    <3> QED
      BY ONLY <3>3, <3>4
  <2>2. tmMain'.pc \in {"sleep", "stop"}
    OBVIOUS
  <2> QED
    BY <2>1, <2>2 DEF MainRecords
<1>4. CASE SetExit("stop", "queue")
  BY <1>4 DEF SetExit
<1>5. CASE SendStop("queue", "join")
  <2> USE <1>5 DEF SendStop
  <2>1. tmMain' = [tmMain EXCEPT !.pc = "join"] /\ gExit
    OBVIOUS
  <2>2. TimerTypeOK'
    BY <2>1
  <2>3. ActionFollowsWorker' /\ HandlerIgnores'
    BY <2>1
  <2>4. StopIsFlagged' /\ StopIsNotMissed'
    BY <2>1
  <2>5. OnlyHandlerDelaysStop'
    <3>1. action = "ignore" => handled["main"] + handled["worker"] > 0
      OBVIOUS
    <3> QED
      BY <2>1, <3>1
  <2> QED
    BY <2>2, <2>3, <2>4, <2>5
<1>6. CASE Join
  BY <1>6 DEF Join
<1>7. CASE Unblock
  BY <1>7 DEF Unblock
<1> QED
  BY <1>1, <1>2, <1>3, <1>4, <1>5, <1>6, <1>7 DEF MainStep, Timer_StopTimer

\* So does the worker.
LEMMA WorkerKeeps == TInv /\ WorkerStep => TInv'
<1> USE DEF TInv, TimerTypeOK, ActionFollowsWorker, HandlerIgnores,
            StopIsFlagged, StopIsNotMissed, OnlyHandlerDelaysStop, TmThreads,
            MainPc, WorkerPc, signalVars, WorkerRuns, WorkerGoes
<1> SUFFICES ASSUME TInv, WorkerStep PROVE TInv'
  OBVIOUS
<1>1. CASE Timer_ConfigureSignal
  BY <1>1, TimerAssumption DEF Timer_ConfigureSignal, ConfigureSignal
<1>2. CASE Wait
  BY <1>2 DEF Wait
<1>3. CASE CheckExit
  BY <1>3, TimerAssumption DEF CheckExit
<1> QED
  BY <1>1, <1>2, <1>3 DEF WorkerStep

\* So do the handler, in either thread, and the passing of time.
LEMMA HandlerKeeps == TInv /\ (Timer_handler \/ TimerTick) => TInv'
<1> USE DEF TInv, TimerTypeOK, ActionFollowsWorker, HandlerIgnores,
            StopIsFlagged, StopIsNotMissed, OnlyHandlerDelaysStop, TmThreads,
            MainPc, WorkerPc
<1>1. ASSUME TInv, NEW t \in TmThreads, NEW where \in pending, HandlerStarts(t, where)
      PROVE  TInv'
  BY <1>1 DEF HandlerStarts
<1>2. ASSUME TInv, NEW t \in TmThreads, HandlerEnds(t)
      PROVE  TInv'
  BY <1>2 DEF HandlerEnds
<1>3. ASSUME TInv, TimerTick
      PROVE  TInv'
  <2> USE <1>3 DEF TimerTick, Expire
  <2>1. tmMain' \in [pc : MainPc, turns : 1..Sleeps, left : 0..1]
        /\ tmMain'.pc = tmMain.pc
    BY DEF OneLess
  <2>2. tmWorker' \in [pc : WorkerPc, left : 0..WaitSeconds]
        /\ tmWorker'.pc = tmWorker.pc
    BY TimerAssumption DEF OneLess
  <2>3. expiry' \in 1..2
    <3>1. expiry' = 1 \/ expiry' = 2
      BY Zenon
    <3> QED
      BY ONLY <3>1
  <2>4. alive' \in BOOLEAN
    BY ZenonT(20)
  <2>5. pending' \subseteq {"process", "worker"}
    OBVIOUS
  <2>6. /\ tmMain' \in [pc : MainPc, turns : 1..Sleeps, left : 0..1]
        /\ tmWorker' \in [pc : WorkerPc, left : 0..WaitSeconds]
        /\ UNCHANGED <<gExit, action, inHandler, handled, stopTaken>>
    BY <2>1, <2>2
  <2>7. ActionFollowsWorker' /\ HandlerIgnores'
    BY <2>1, <2>2
  <2>8. StopIsFlagged' /\ StopIsNotMissed'
    BY <2>1, <2>2
  <2>9. OnlyHandlerDelaysStop'
    BY <2>1, <2>2
  <2> QED
    BY ONLY TInv, <2>3, <2>4, <2>5, <2>6, <2>7, <2>8, <2>9
<1> QED
  BY <1>1, <1>2, <1>3 DEF Timer_handler

\* TInv holds in every state of the timer's program.
THEOREM TInvCorrect == TimerSpec => []TInv
<1>1. TInv /\ UNCHANGED timerVars => TInv'
  BY DEF timerVars, TInv, TimerTypeOK, ActionFollowsWorker, HandlerIgnores,
         StopIsFlagged, StopIsNotMissed, OnlyHandlerDelaysStop
<1>2. TInv /\ [main_Timer \/ TimerNext]_timerVars => TInv'
  BY <1>1, MainKeeps, WorkerKeeps, HandlerKeeps DEF TimerNext
<1> QED
  BY <1>2, InitTInv, PTL DEF TimerSpec

\* The variables keep their types.
THEOREM TimerTypeCorrect == TimerSpec => []TimerTypeOK
<1>1. TInv => TimerTypeOK
  BY DEF TInv
<1> QED
  BY <1>1, TInvCorrect, PTL

\* The worker that has taken the stop's signal does not wait again.
THEOREM StopCorrect == TimerSpec => []StopIsNotMissed
<1>1. TInv => StopIsNotMissed
  BY DEF TInv
<1> QED
  BY <1>1, TInvCorrect, PTL

\* The join waits for a worker that has the stop, or a handler has run.
THEOREM DelayCorrect == TimerSpec => []OnlyHandlerDelaysStop
<1>1. TInv => OnlyHandlerDelaysStop
  BY DEF TInv
<1> QED
  BY <1>1, TInvCorrect, PTL

\* The signal ends the process only before the worker has its handler.
THEOREM DeathCorrect == TimerSpec => []TimerDiesUnprepared
<1>1. TInv => TimerDiesUnprepared
  BY DEF TInv, ActionFollowsWorker, TimerDiesUnprepared
<1> QED
  BY <1>1, TInvCorrect, PTL

\* The handler runs at most once in each thread.
THEOREM HandledCorrect == TimerSpec => []HandledOnce
<1>1. TInv => HandledOnce
  BY DEF TInv, HandlerIgnores, HandledOnce
<1> QED
  BY <1>1, TInvCorrect, PTL
=============================================================================
