-------------------------- MODULE Experiments_proofs --------------------------
(***************************************************************************)
(* What holds of the whole program of Experiments, for every value of its  *)
(* constants: each experiment keeps an inductive invariant of its own, and *)
(* a step of the program is a step of one experiment that leaves the       *)
(* variables of the others alone.                                          *)
(***************************************************************************)
EXTENDS Experiments, TimerSignal_proofs, Timespec_proofs, AddressText_proofs

-----------------------------------------------------------------------------
(* Steps of the program as steps of one experiment.                         *)

\* Seen from one experiment, the program takes its steps or none.
LEMMA StepOfOne ==
    ASSUME [Next]_vars
    PROVE  /\ [main_Timer \/ TimerNext]_timerVars
           /\ [main_WaitSignal \/ WaitSignalNext]_waitVars
           /\ [main_Sleep \/ SleepNext]_sleepVars
           /\ [main_ConditionVariable \/ CondNext]_condVars
           /\ [CountDown_1 \/ CountDown_2 \/ (\E m \in CdMinutes : CCountDown(m))
                 \/ CountDownNext]_countDownVars
           /\ [(\E w \in Waiters : WaitFifoChar(w)) \/ FifoNext]_fifoVars
           /\ [GpioSelect_Poll \/ GpioSelect_Select \/ GpioNext]_gpioVars
           /\ [Net_inet_pton \/ AddressNext]_addressVars
           /\ [Net_1 \/ Net_2 \/ NetLibNext]_netLibVars
  BY Zenon DEF Next, Main, Caller, Runs, vars, TimerOnly, WaitOnly, SleepOnly, CondOnly,
         CountDownOnly, FifoOnly, GpioOnly, AddressOnly, NetLibOnly

-----------------------------------------------------------------------------
(* Test_waitSignal.c: the period, for every length of a second and every    *)
(* course of signals and work.                                              *)

Period == Nanoseconds(vDateStart)
DateTypes == {wsClock, g_DateStart, g_Timeout} \subseteq Timespecs

\* The clock is never before the wake-up it has dated, and the wait that is
\* about to begin, or has begun, ends a period after the wake-up or later.
WInv ==
    /\ DateTypes
    /\ wsDeadline \in Nat
    /\ TimeoutIsValid
    /\ wsMain = "off" => wsWorker = "none"
    /\ Nanoseconds(wsClock) >= Nanoseconds(g_DateStart)
    /\ wsWorker \in {"none", "config"} => g_Timeout = Zero /\ g_DateStart = Zero
    /\ wsWorker = "loop" =>
          Nanoseconds(wsClock) + Nanoseconds(g_Timeout)
              >= Nanoseconds(g_DateStart) + Period
    /\ PeriodKept

\* A date is a number of nanoseconds, and the period is two seconds.
LEMMA NanosecondsNat ==
    /\ \A t \in Timespecs : Nanoseconds(t) \in Nat
    /\ Zero \in Timespecs /\ Nanoseconds(Zero) = 0
    /\ vDateStart \in Timespecs /\ Period \in Nat
<1>1. NsPerSec \in Nat /\ NsPerSec > 0
  BY TimespecAssumption
<1>2. ASSUME NEW t \in Timespecs PROVE Nanoseconds(t) \in Nat
  <2>1. t.sec \in Nat /\ t.nsec \in 0..NsPerSec - 1
    BY DEF Timespecs
  <2>2. t.sec * NsPerSec \in Nat
    BY <1>1, <2>1
  <2> QED
    BY <1>1, <2>1, <2>2 DEF Nanoseconds
<1>3. Zero \in Timespecs /\ Nanoseconds(Zero) = 0
  BY <1>1 DEF Zero, Timespecs, Nanoseconds
<1>4. vDateStart \in Timespecs
  BY <1>1 DEF vDateStart, Timespecs
<1> QED
  BY <1>2, <1>3, <1>4 DEF Period

\* The clock goes forward by a date.
LEMMA TickIsDate == [sec |-> 1 \div NsPerSec, nsec |-> 1 % NsPerSec] \in Timespecs
<1>1. NsPerSec \in Nat /\ NsPerSec > 0
  BY TimespecAssumption
<1>2. 1 \div NsPerSec \in Nat /\ 1 % NsPerSec \in 0..NsPerSec - 1
  BY <1>1
<1> QED
  BY <1>2 DEF Timespecs

\* Before the worker runs there is no wake-up and no timeout.
LEMMA InitWInv == WaitSignalInit => WInv
  BY NanosecondsNat
  DEF WaitSignalInit, WInv, DateTypes, TimeoutIsValid, PeriodKept, Period

\* The steps that compute a date: configuration, wait, wake-up, next timeout.
LEMMA DateSteps ==
    ASSUME WInv, WaitSignal_Config \/ WaitStarts \/ WakeUpDate \/ NextTimeout
    PROVE  WInv'
<1>1. /\ wsClock \in Timespecs /\ g_DateStart \in Timespecs /\ g_Timeout \in Timespecs
      /\ Nanoseconds(wsClock) \in Nat /\ Nanoseconds(g_DateStart) \in Nat
      /\ Nanoseconds(g_Timeout) \in Nat
      /\ Nanoseconds(g_DateStart) <= Nanoseconds(wsClock)
      /\ vDateStart \in Timespecs /\ Period \in Nat
      /\ Nanoseconds(g_Timeout) <= Period
  BY NanosecondsNat DEF WInv, DateTypes, TimeoutIsValid, Period
<1>2. CASE WaitSignal_Config
  <2>1. g_Timeout = Zero /\ g_DateStart = Zero
    BY <1>2 DEF WInv, WaitSignal_Config, Goes
  <2>2. g_Timeout' = vDateStart
    BY <1>2, <2>1 DEF WaitSignal_Config, Zero, vDateStart
  <2>3. /\ UNCHANGED <<wsMain, wsClock, g_DateStart, wsDeadline>> /\ wsWorker # "none"
        /\ wsWorker' = "loop"
    BY <1>2 DEF WaitSignal_Config, Goes
  <2> QED
    BY <1>1, <2>1, <2>2, <2>3, NanosecondsNat
    DEF WInv, DateTypes, TimeoutIsValid, PeriodKept, Period
<1>3. CASE WaitStarts
  <2>1. /\ UNCHANGED <<wsMain, wsClock, g_DateStart, g_Timeout>>
        /\ wsWorker = "loop" /\ wsWorker' = "waiting"
        /\ wsDeadline' = Nanoseconds(wsClock) + Nanoseconds(g_Timeout)
    BY <1>3 DEF WaitStarts, Goes
  <2> QED
    BY <1>1, <2>1 DEF WInv, DateTypes, TimeoutIsValid, PeriodKept, Period
<1>4. CASE WakeUpDate
  <2>1. /\ UNCHANGED <<wsMain, wsClock, wsDeadline, g_Timeout>> /\ wsWorker # "none"
        /\ wsWorker' = "work" /\ g_DateStart' = wsClock
    BY <1>4 DEF WakeUpDate, Goes
  <2> QED
    BY <1>1, <2>1 DEF WInv, DateTypes, TimeoutIsValid, PeriodKept, Period
<1>5. CASE NextTimeout
  <2> DEFINE worked == ts_Subtract(wsClock, g_DateStart)
  <2>1. /\ UNCHANGED <<wsMain, wsClock, g_DateStart, wsDeadline>> /\ wsWorker # "none"
        /\ wsWorker' = "loop" /\ g_Timeout' = ts_Subtract(vDateStart, worked)
    BY <1>5 DEF NextTimeout, Goes
  <2>2. /\ worked \in Timespecs /\ Nanoseconds(worked) \in Nat
        /\ Nanoseconds(worked) = Nanoseconds(wsClock) - Nanoseconds(g_DateStart)
    BY <1>1, SubtractIsDifference, NanosecondsNat
  <2> HIDE DEF worked
  <2>3. /\ g_Timeout' \in Timespecs /\ Nanoseconds(g_Timeout') \in Nat
        /\ Period <= Nanoseconds(worked) => Nanoseconds(g_Timeout') = 0
        /\ Period >= Nanoseconds(worked) =>
              Nanoseconds(g_Timeout') = Period - Nanoseconds(worked)
    BY <1>1, <2>1, <2>2, SubtractIsDifference, NanosecondsNat DEF Period
  <2> QED
    BY <1>1, <2>1, <2>2, <2>3 DEF WInv, DateTypes, TimeoutIsValid, PeriodKept, Period
<1> QED
  BY <1>2, <1>3, <1>4, <1>5

\* A later clock keeps what is promised of a deadline or of a timeout.
LEMMA TickStep == WInv /\ WaitSignalTick => WInv'
<1> SUFFICES ASSUME WInv, WaitSignalTick PROVE WInv'
  OBVIOUS
<1> DEFINE tick == [sec |-> 1 \div NsPerSec, nsec |-> 1 % NsPerSec]
<1>1. /\ wsClock \in Timespecs /\ tick \in Timespecs
      /\ Nanoseconds(wsClock) \in Nat /\ Nanoseconds(tick) \in Nat
      /\ Nanoseconds(g_DateStart) \in Nat /\ Nanoseconds(g_Timeout) \in Nat
      /\ Period \in Nat
  BY NanosecondsNat, TickIsDate DEF WInv, DateTypes
<1>2. /\ wsClock' = ts_Add(wsClock, tick)
      /\ UNCHANGED <<wsMain, wsWorker, g_Timeout, g_DateStart, wsDeadline>>
  BY DEF WaitSignalTick
<1> HIDE DEF tick
<1>3. /\ wsClock' \in Timespecs /\ Nanoseconds(wsClock') \in Nat
      /\ Nanoseconds(wsClock') >= Nanoseconds(wsClock)
  BY <1>1, <1>2, AddIsSum
<1> QED
  BY <1>1, <1>2, <1>3 DEF WInv, DateTypes, TimeoutIsValid, PeriodKept, Period

\* The other steps leave the dates alone.
LEMMA OtherSteps == WInv /\ (main_WaitSignal \/ Key \/ WaitEnds \/ UNCHANGED waitVars) => WInv'
<1> SUFFICES ASSUME WInv, main_WaitSignal \/ Key \/ WaitEnds \/ UNCHANGED waitVars
             PROVE  WInv'
  OBVIOUS
<1>1. UNCHANGED <<wsClock, g_Timeout, g_DateStart, wsDeadline>>
  BY DEF main_WaitSignal, Key, WaitEnds, Goes, waitVars
<1>2. \/ wsWorker' = wsWorker /\ wsMain' \in {wsMain, "keys"}
      \/ wsWorker' = "woken" /\ wsMain' = wsMain /\ wsWorker # "none"
      \/ wsMain = "off" /\ wsWorker' = "config" /\ wsMain' = "keys"
  BY DEF main_WaitSignal, Key, WaitEnds, Goes, waitVars
<1> QED
  BY <1>1, <1>2 DEF WInv, DateTypes, TimeoutIsValid, PeriodKept, Period

\* The inductive invariant of the dates.
THEOREM WInvCorrect == WaitSignalSpec => []WInv
<1>1. WInv /\ [main_WaitSignal \/ WaitSignalNext]_waitVars => WInv'
  BY DateSteps, TickStep, OtherSteps DEF WaitSignalNext, WaitSignal_funcThread
<1> QED
  BY <1>1, InitWInv, PTL DEF WaitSignalSpec

\* Whatever the work takes, a wait that no signal ends lasts until a period
\* after the last wake-up, and is asked for a valid time.
THEOREM PeriodCorrect == WaitSignalSpec => []PeriodKept
<1>1. WInv => PeriodKept
  BY DEF WInv
<1> QED
  BY <1>1, WInvCorrect, PTL

-----------------------------------------------------------------------------
(* Sleep.c: the thread that has got behind its mask is safe from the keys.  *)

SInv ==
    /\ slMain = "off" => slWorker = "none"
    /\ slWorker \in {"none", "start", "masked", "sleep"}
    /\ slWorker \in {"masked", "sleep"} => slBlocked /\ slAlive
    /\ slLeft \in Nat
    /\ slLeft > 0 => slWorker = "sleep"

\* The invariant of the sleeper, and what each of its steps may not do.
LEMMA SleepKeeps ==
    /\ SleepInit => SInv
    /\ SInv /\ [main_Sleep \/ SleepNext]_sleepVars =>
          /\ SInv'
          /\ slWorker \in {"masked", "sleep"} => slAlive'
          /\ slLeft > 0 => slLeft' >= slLeft - 1
<1> USE SleepAssumption DEF SInv
<1>1. SleepInit => SInv
  BY DEF SleepInit
<1>2. ASSUME SInv, main_Sleep
      PROVE  SInv' /\ (slWorker \notin {"masked", "sleep"}) /\ slLeft' = slLeft
  BY <1>2 DEF main_Sleep
<1>3. ASSUME SInv, SleepKey
      PROVE  /\ SInv'
             /\ slWorker \in {"masked", "sleep"} => slAlive'
             /\ slLeft > 0 => slLeft' = slLeft
  <2>1. /\ slMain = "keys" /\ slAlive
        /\ UNCHANGED <<slMain, slWorker, slBlocked, slCaught>>
        /\ slLeft' = IF slBlocked THEN slLeft ELSE 0
    BY <1>3 DEF SleepKey
  <2>2. slWorker \in {"masked", "sleep"} => slBlocked /\ slWorker # "none"
    BY <1>3
  <2>3. slWorker \in {"masked", "sleep"} => slAlive'
    BY <1>3, <2>2, Zenon DEF SleepKey
  <2>4. slLeft > 0 => slBlocked
    BY <1>3, <2>2
  <2>5. slLeft' \in Nat /\ (slLeft > 0 => slLeft' = slLeft)
           /\ (slLeft' > 0 => slLeft > 0)
    BY <1>3, <2>1, <2>4
  <2>6. slWorker' \in {"masked", "sleep"} => slBlocked' /\ slAlive'
    BY <2>1, <2>2, <2>3, Zenon
  <2> QED
    BY <1>3, <2>1, <2>3, <2>5, <2>6
<1>4. ASSUME SInv, Sleep_funcThread
      PROVE  SInv' /\ slAlive' /\ (slLeft > 0 => slLeft' >= slLeft - 1)
  BY <1>4 DEF Sleep_funcThread, SetMask, SetHandler, SleepAgain
<1>5. ASSUME SInv, SleepTick
      PROVE  SInv' /\ slAlive' /\ slLeft' = slLeft - 1
  BY <1>5 DEF SleepTick
<1>6. ASSUME SInv, UNCHANGED sleepVars
      PROVE  /\ SInv'
             /\ slWorker \in {"masked", "sleep"} => slAlive'
             /\ slLeft' = slLeft
  BY <1>6 DEF sleepVars
<1>7. SInv => slLeft \in Nat
  OBVIOUS
<1> QED
  BY <1>1, <1>2, <1>3, <1>4, <1>5, <1>6, <1>7 DEF SleepNext

-----------------------------------------------------------------------------
(* Test_condition_variable.c: the absolute time of a wait is a date.         *)

CInv == cvClock \in Timespecs /\ absTimeToWait \in Timespecs

\* No carry is needed: the absolute time is a date, later by whole seconds.
LEMMA AbsoluteTimeIsDate ==
    ASSUME NEW now \in Timespecs
    PROVE  AbsoluteTime(now) \in Timespecs
<1>1. /\ NsPerSec \in Nat /\ NsPerSec > 0 /\ CvTimeout \in Nat
      /\ now.sec \in Nat /\ now.nsec \in 0..NsPerSec - 1
  BY TimespecAssumption, CondWaitAssumption DEF Timespecs
<1>2. AbsoluteTime(now) = [sec |-> now.sec + CvTimeout, nsec |-> now.nsec]
  BY <1>1 DEF AbsoluteTime
<1> QED
  BY <1>1, <1>2 DEF Timespecs

\* The invariant of the waiter.
LEMMA CondKeeps ==
    /\ CondInit => CInv
    /\ CInv /\ [main_ConditionVariable \/ CondNext]_condVars => CInv'
<1> USE DEF CInv
<1>1. CondInit => CInv
  BY NanosecondsNat DEF CondInit
<1>2. ASSUME CInv, main_ConditionVariable \/ CondMain PROVE CInv'
  BY <1>2 DEF main_ConditionVariable, CondMain, CvSleepEnds, CvSignal, CvExit, workerVars
<1>3. ASSUME CInv, ReadDate PROVE CInv'
  BY <1>3, AbsoluteTimeIsDate DEF ReadDate, CvGoes
<1>4. ASSUME CInv, Lock \/ WaitBegins \/ WaitEndsForCause \/ WaitReturnsEarly \/ Unlock
      PROVE  CInv'
  BY <1>4 DEF Lock, WaitBegins, WaitEndsForCause, WaitReturnsEarly, Unlock, CvGoes
<1>5. ASSUME CInv, CvTick PROVE CInv'
  <2>1. absTimeToWait' = absTimeToWait
    BY <1>5 DEF CvTick, workerVars
  <2>2. cvClock' = ts_Add(cvClock, [sec |-> 1 \div NsPerSec, nsec |-> 1 % NsPerSec])
    BY <1>5 DEF CvTick
  <2>3. cvClock' \in Timespecs
    BY <1>5, <2>2, TickIsDate, AddIsSum
  <2> QED
    BY <1>5, <2>1, <2>3
<1>6. ASSUME CInv, UNCHANGED condVars PROVE CInv'
  BY <1>6 DEF condVars
<1> QED
  BY <1>1, <1>2, <1>3, <1>4, <1>5, <1>6 DEF CondNext, ConditionVariable_wait

-----------------------------------------------------------------------------
(* Test_waitSignal.c: the worker that has left its configuration has the     *)
(* signal blocked, so that no key ends the process any more.                 *)

WMasked ==
    /\ wsMain = "off" => wsWorker = "none"
    /\ wsWorker \notin {"none", "config"} => wsBlocked
    /\ WaitDiesUnmasked

\* The signal is never unblocked.
LEMMA WaitKeepsMask ==
    /\ WaitSignalInit => WMasked
    /\ WMasked /\ [main_WaitSignal \/ WaitSignalNext]_waitVars => WMasked'
<1> USE DEF WMasked, WaitDiesUnmasked
<1>1. WaitSignalInit => WMasked
  BY Zenon DEF WaitSignalInit
<1>2. WMasked /\ main_WaitSignal => WMasked'
  BY DEF main_WaitSignal
<1>3. ASSUME WMasked, Key PROVE WMasked'
  <2>1. UNCHANGED <<wsMain, wsWorker, wsBlocked>>
    BY <1>3 DEF Key
  <2>2. wsWorker \notin {"none", "config"} => wsAlive'
    BY <1>3, Zenon DEF Key
  <2> QED
    BY <1>3, <2>1, <2>2, Zenon
<1>4. ASSUME WMasked, WaitSignal_Config PROVE WMasked'
  BY <1>4, Zenon DEF WaitSignal_Config, Goes
<1>5. ASSUME WMasked, WaitStarts \/ WaitEnds \/ WakeUpDate \/ NextTimeout
      PROVE  WMasked'
  <2>1. /\ wsWorker \notin {"none", "config"} /\ wsAlive' /\ wsMain # "off"
        /\ UNCHANGED <<wsMain, wsBlocked>>
    BY <1>5 DEF WaitStarts, WaitEnds, WakeUpDate, NextTimeout, Goes
  <2> QED
    BY <1>5, <2>1, Zenon
<1>6. ASSUME WMasked, WaitSignalTick \/ UNCHANGED waitVars PROVE WMasked'
  BY <1>6, Zenon DEF WaitSignalTick, waitVars
<1> QED
  BY <1>1, <1>2, <1>3, <1>4, <1>5, <1>6 DEF WaitSignalNext, WaitSignal_funcThread

-----------------------------------------------------------------------------
(* NetLib.c: what Net_2() prints is what it read, and what it reads is the   *)
(* answer to the request that it has sent.                                   *)

NInv ==
    /\ nlPc \in {"off", "socket", "send"} => nlQueue = <<>> /\ nlShown = <<>>
    /\ nlCall = "Net_2" =>
          /\ nlPc = "recv" =>
                /\ nlShown = <<>>
                /\ nlQueue = <<>> \/ (nlSent = TRUE /\ nlQueue = << <<nlDecision>> >>)
          /\ nlPc = "walk" =>
                nlShown = <<>> /\ nlSent = TRUE /\ nlDatagram = <<nlDecision>>
          /\ nlPc \in {"done", "exit"} =>
                nlShown = <<>> \/ (nlSent = TRUE /\ nlShown = <<Said(nlDecision)>>)
          /\ nlPc \in {"off", "socket", "send", "recv", "walk", "done", "exit"}

\* The answer is the first message of the only datagram.
LEMMA NetLibKeeps ==
    /\ NetLibInit => NInv
    /\ NInv /\ [Net_1 \/ Net_2 \/ NetLibNext]_netLibVars => NInv'
<1> USE DEF NInv, nlKernelVars, walkVars, NlGoes
<1>1. NetLibInit => NInv
  BY DEF NetLibInit
<1>2. NInv /\ (Net_1 \/ Net_2) => NInv'
  BY DEF Net_1, Net_2, NlBegins
<1>3. NInv /\ NlSocket => NInv'
  BY DEF NlSocket
<1>4. ASSUME NInv, NlSendAdd PROVE NInv'
  <2>1. /\ nlCall' = "Net_2" /\ nlPc' = "recv" /\ nlShown' = <<>>
        /\ nlQueue = <<>>
    BY <1>4 DEF NlSendAdd
  <2>2. CASE UNCHANGED <<nlSent, nlKernelVars>>
    BY <2>1, <2>2
  <2>3. ASSUME nlSent' = TRUE, NEW v \in NlErrors \cup {"OK", "EEXIST"}, KernelAdds(v)
        PROVE  NInv'
    <3>1. nlDecision' = v /\ nlQueue' = Append(nlQueue, <<v>>)
      BY <2>3 DEF KernelAdds, add_ip_flags
    <3>2. nlQueue' = << <<v>> >>
      BY <2>1, <3>1
    <3> QED
      BY <2>1, <2>3, <3>1, <3>2
  <2> QED
    BY <1>4, <2>2, <2>3 DEF NlSendAdd
<1>5. NInv /\ NlSendGet => NInv'
  BY DEF NlSendGet
<1>6. ASSUME NInv, NlRecv PROVE NInv'
  BY <1>6 DEF NlRecv
<1>7. NInv /\ NlRecvFails => NInv'
  BY DEF NlRecvFails
<1>8. ASSUME NInv, NlParse PROVE NInv'
  BY <1>8 DEF NlParse
<1>9. NInv /\ NlWalk => NInv'
  BY DEF NlWalk
<1>10. NInv /\ (NlOthers \/ UNCHANGED netLibVars) => NInv'
  BY DEF NlOthers, netLibVars
<1> QED
  BY <1>1, <1>2, <1>3, <1>4, <1>5, <1>6, <1>7, <1>8, <1>9, <1>10
  DEF NetLibNext, NlStep

\* Only an acknowledgement is called a success.
LEMMA OnlyOkIsSuccess == ASSUME NEW v, Said(v) = "Success" PROVE v = "OK"
  BY DEF Said

-----------------------------------------------------------------------------
(* WaitFifo.cpp: a waiter's FIFO keeps its name until another removes it.    *)

FifoRecords == [pc : FifoPc, fd : Waiters \cup {NoFifo}, len : Nat,
                result : {"none", "found", "error"}]

\* A waiter that works on a FIFO shares its name, or has lost it to a rival.
InTouch(w) ==
    At(w, "poll") \/ At(w, "ioctl") \/ At(w, "read") =>
        /\ ffWaiter[w].fd \in Waiters
        /\ ffWaiter[w].fd # ffName => ffRemover[ffWaiter[w].fd] \notin {w, NoFifo}

FInv ==
    /\ ffWaiter \in [Waiters -> FifoRecords]
    /\ ffName \in Waiters \cup {NoFifo}
    /\ ffRemover \in [Waiters -> Waiters \cup {NoFifo}]
    /\ ffBytes \in [Waiters -> Seq(STRING)]
    /\ \A w \in Waiters : InTouch(w)

\* A waiter's new record, by the fields that change.
LEMMA NewRecord ==
    ASSUME NEW r \in FifoRecords, NEW pc \in FifoPc, NEW fd \in Waiters \cup {NoFifo},
           NEW n \in Nat, NEW result \in {"none", "found", "error"}
    PROVE  /\ [r EXCEPT !.pc = pc] \in FifoRecords
           /\ [r EXCEPT !.pc = pc, !.fd = fd] \in FifoRecords
           /\ [r EXCEPT !.pc = pc, !.len = n] \in FifoRecords
           /\ [r EXCEPT !.pc = pc, !.result = result] \in FifoRecords
  BY DEF FifoRecords

\* What a step of one waiter has to show: the others keep their records, and a
\* name that another waiter's FIFO loses is taken by somebody else.
LEMMA OneWaiter ==
    ASSUME FInv, NEW v \in Waiters,
           NEW r \in FifoRecords, ffWaiter' = [ffWaiter EXCEPT ![v] = r],
           r.pc \in {"poll", "ioctl", "read"} =>
              /\ r.fd \in Waiters
              /\ r.fd # ffName' => ffRemover'[r.fd] \notin {v, NoFifo},
           ffName' \in Waiters \cup {NoFifo},
           ffRemover' \in [Waiters -> Waiters \cup {NoFifo}],
           ffBytes' \in [Waiters -> Seq(STRING)],
           \A f \in Waiters : f # ffName' =>
              \/ ffRemover'[f] = v
              \/ f # ffName /\ ffRemover'[f] = ffRemover[f]
    PROVE  FInv'
<1>1. ffWaiter' \in [Waiters -> FifoRecords]
  BY DEF FInv
<1>2. ASSUME NEW u \in Waiters PROVE InTouch(u)'
  <2>1. CASE u = v
    <3>1. ffWaiter'[u] = r
      BY <2>1 DEF FInv
    <3> QED
      BY <2>1, <3>1 DEF InTouch, At
  <2>2. CASE u # v
    <3>1. ffWaiter'[u] = ffWaiter[u]
      BY <2>2 DEF FInv
    <3>2. InTouch(u)
      BY DEF FInv
    <3> QED
      BY <2>2, <3>1, <3>2, FifoAssumption DEF InTouch, At
  <2> QED
    BY <2>1, <2>2
<1> QED
  BY <1>1, <1>2 DEF FInv

\* The steps of one waiter.
LEMMA WaiterKeeps ==
    ASSUME FInv, NEW v \in Waiters,
           WaitFifoChar(v) \/ WaiterStep(v) \/ PollInterrupted(v)
    PROVE  FInv'
<1> DEFINE r == ffWaiter[v]
           Goes1(p) == ffWaiter' = [ffWaiter EXCEPT ![v] = [r EXCEPT !.pc = p]]
           Fails1 == ffWaiter' = [ffWaiter EXCEPT ![v] =
                                     [r EXCEPT !.pc = "close", !.result = "error"]]
<1>1. r \in FifoRecords /\ InTouch(v)
  BY DEF FInv
<1>2. /\ \A p : FfGoes(v, p) <=> Goes1(p)
      /\ FfFails(v) <=> Fails1
  BY <1>1 DEF FfGoes, FfFails, FInv, FifoRecords
<1>3. /\ ffName \in Waiters \cup {NoFifo}
      /\ ffRemover \in [Waiters -> Waiters \cup {NoFifo}]
      /\ ffBytes \in [Waiters -> Seq(STRING)]
  BY DEF FInv
<1> HIDE DEF r
<1>4. ASSUME Fails1, UNCHANGED <<nameVars, byteVars>> PROVE FInv'
  <2>1. [r EXCEPT !.pc = "close", !.result = "error"] \in FifoRecords
    BY <1>1, NewRecord DEF FifoPc
  <2> QED
    BY <1>1, <1>3, <1>4, <2>1, OneWaiter DEF nameVars, byteVars, FifoRecords
<1>5. ASSUME NEW p \in FifoPc \ {"poll", "ioctl", "read"}, Goes1(p),
             UNCHANGED <<nameVars, byteVars>>
      PROVE  FInv'
  <2>1. [r EXCEPT !.pc = p] \in FifoRecords
    BY <1>1, NewRecord
  <2> QED
    BY <1>1, <1>3, <1>5, <2>1, OneWaiter DEF nameVars, byteVars, FifoRecords
<1>6. CASE WaitFifoChar(v)
  BY <1>2, <1>5, <1>6 DEF WaitFifoChar, FifoPc
<1>7. CASE Unlink(v)
  <2>1. PICK p \in {"mkfifo", "done"} : Goes1(p)
    BY <1>2, <1>7 DEF Unlink
  <2>2. [r EXCEPT !.pc = p] \in FifoRecords
    BY <1>1, NewRecord DEF FifoPc
  <2>3. /\ ffName' = NoFifo
        /\ ffRemover' = [f \in Waiters |-> IF f = ffName THEN v ELSE ffRemover[f]]
        /\ UNCHANGED ffBytes
    BY <1>7 DEF Unlink, byteVars
  <2> QED
    BY <1>1, <1>3, <2>1, <2>2, <2>3, OneWaiter DEF FifoRecords
<1>8. CASE MkFifo(v)
  <2>1. CASE FfFails(v) /\ UNCHANGED ffName
    BY <1>2, <1>4, <1>8, <2>1 DEF MkFifo, nameVars
  <2>2. CASE ffName = NoFifo /\ ffName' = v /\ FfGoes(v, "open")
    <3>1. [r EXCEPT !.pc = "open"] \in FifoRecords
      BY <1>1, NewRecord DEF FifoPc
    <3>2. Goes1("open") /\ UNCHANGED <<ffRemover, ffBytes>>
      BY <1>2, <1>8, <2>2 DEF MkFifo, byteVars
    <3>3. /\ [r EXCEPT !.pc = "open"].pc = "open"
          /\ ffName' \in Waiters \cup {NoFifo}
          /\ \A f \in Waiters : f # ffName
      BY <1>1, <2>2, FifoAssumption DEF FifoRecords
    <3>4. /\ ffRemover' \in [Waiters -> Waiters \cup {NoFifo}]
          /\ ffBytes' \in [Waiters -> Seq(STRING)]
          /\ \A f \in Waiters : ffRemover'[f] = ffRemover[f]
      BY <1>3, <3>2
    <3> HIDE DEF Goes1
    <3>5. ffWaiter' = [ffWaiter EXCEPT ![v] = [r EXCEPT !.pc = "open"]]
      BY <3>2 DEF Goes1
    <3> QED
      BY <3>1, <3>3, <3>4, <3>5, OneWaiter
  <2> QED
    BY <1>8, <2>1, <2>2 DEF MkFifo
<1>9. CASE OpenFifo(v)
  <2>1. CASE FfFails(v)
    BY <1>2, <1>4, <1>9, <2>1 DEF OpenFifo
  <2>2. CASE /\ ffName # NoFifo
             /\ ffWaiter' = [ffWaiter EXCEPT ![v].pc = "poll", ![v].fd = ffName]
    <3>1. [r EXCEPT !.pc = "poll", !.fd = ffName] \in FifoRecords
      BY <1>1, <1>3, NewRecord DEF FifoPc
    <3>2. ffWaiter' = [ffWaiter EXCEPT ![v] = [r EXCEPT !.pc = "poll", !.fd = ffName]]
      BY <2>2 DEF FInv, r
    <3> QED
      BY <1>1, <1>3, <1>9, <2>2, <3>1, <3>2, OneWaiter
      DEF OpenFifo, FifoRecords, nameVars, byteVars
  <2> QED
    BY <1>9, <2>1, <2>2 DEF OpenFifo
<1>10. ASSUME NEW q \in FifoRecords, ffWaiter' = [ffWaiter EXCEPT ![v] = q],
              q.fd = r.fd, r.pc \in {"poll", "ioctl", "read"},
              UNCHANGED nameVars, ffBytes' \in [Waiters -> Seq(STRING)]
       PROVE  FInv'
  <2>1. /\ r.fd \in Waiters
        /\ r.fd # ffName => ffRemover[r.fd] \notin {v, NoFifo}
    BY <1>1, <1>10 DEF InTouch, At, r
  <2> QED
    BY <1>3, <1>10, <2>1, OneWaiter DEF nameVars
<1>11. CASE PollFifo(v)
  <2>1. [r EXCEPT !.pc = "ioctl"] \in FifoRecords
    BY <1>1, NewRecord DEF FifoPc
  <2>2. r.pc = "poll" /\ Goes1("ioctl") /\ UNCHANGED <<nameVars, ffBytes>>
    BY <1>2, <1>11 DEF PollFifo, At, r, byteVars
  <2> QED
    BY <1>1, <1>3, <1>10, <2>1, <2>2 DEF FifoRecords
<1>12. CASE PollInterrupted(v)
  BY <1>2, <1>4, <1>12 DEF PollInterrupted
<1>13. CASE IoctlFifo(v)
  <2> DEFINE n == Len(ffBytes[r.fd])
             p == IF n > 0 THEN "read" ELSE "poll"
  <2>1. r.pc = "ioctl" /\ UNCHANGED <<nameVars, ffBytes>>
    BY <1>13 DEF IoctlFifo, At, r, byteVars
  <2>2. n \in Nat
    BY <1>1, <1>3, <2>1 DEF InTouch, At, r
  <2>3. ffWaiter' = [ffWaiter EXCEPT ![v] = [r EXCEPT !.pc = p, !.len = n]]
    BY <1>13 DEF IoctlFifo, FInv, r
  <2> HIDE DEF n
  <2>4. [r EXCEPT !.pc = p, !.len = n] \in FifoRecords
    BY <1>1, <2>2, NewRecord DEF FifoPc
  <2> QED
    BY <1>1, <1>3, <1>10, <2>1, <2>3, <2>4 DEF FifoRecords
<1>14. CASE ReadFifo(v)
  <2>1. r.pc = "read" /\ UNCHANGED nameVars
    BY <1>14 DEF ReadFifo, At, r
  <2>2. r.fd \in Waiters /\ ffBytes[r.fd] \in Seq(STRING)
    BY <1>1, <1>3, <2>1 DEF InTouch, At, r
  <2> DEFINE bytes == ffBytes[r.fd]
             n == IF r.len < Len(bytes) THEN r.len ELSE Len(bytes)
  <2>3. /\ n \in Nat
        /\ ffBytes' = [ffBytes EXCEPT ![r.fd] = SubSeq(bytes, n + 1, Len(bytes))]
    <3>1. r.len \in Nat /\ Len(bytes) \in Nat
      BY <1>1, <2>2 DEF FifoRecords
    <3>2. ffBytes' = [ffBytes EXCEPT ![r.fd] = SubSeq(bytes, n + 1, Len(bytes))]
      BY <1>14, Zenon DEF ReadFifo, r
    <3> QED
      BY <3>1, <3>2
  <2> HIDE DEF n
  <2>4. ffBytes' \in [Waiters -> Seq(STRING)]
    BY <1>3, <2>2, <2>3
  <2>5. PICK q : /\ q \in {[r EXCEPT !.pc = "close", !.result = "found"],
                           [r EXCEPT !.pc = "poll"]}
                 /\ ffWaiter' = [ffWaiter EXCEPT ![v] = q]
    BY <1>14 DEF ReadFifo, FfGoes, FInv, r
  <2>6. q \in FifoRecords /\ q.fd = r.fd
    <3>1. /\ [r EXCEPT !.pc = "close", !.result = "found"] \in FifoRecords
          /\ [r EXCEPT !.pc = "poll"] \in FifoRecords
      BY <1>1, NewRecord DEF FifoPc
    <3>2. /\ [r EXCEPT !.pc = "close", !.result = "found"].fd = r.fd
          /\ [r EXCEPT !.pc = "poll"].fd = r.fd
      BY <1>1 DEF FifoRecords
    <3> QED
      BY <2>5, <3>1, <3>2
  <2> QED
    BY <1>10, <2>1, <2>4, <2>5, <2>6
<1>15. CASE CloseFifo(v)
  <2>1. [r EXCEPT !.pc = "remove", !.fd = NoFifo] \in FifoRecords
    BY <1>1, NewRecord DEF FifoPc
  <2>2. ffWaiter' = [ffWaiter EXCEPT ![v] = [r EXCEPT !.pc = "remove", !.fd = NoFifo]]
    BY <1>15 DEF CloseFifo, FInv, r
  <2>3. ffBytes' \in [Waiters -> Seq(STRING)]
    <3>1. ffBytes' = ffBytes \/ ffBytes' = [ffBytes EXCEPT ![r.fd] = <<>>]
      BY <1>15, Zenon DEF CloseFifo, r
    <3>2. <<>> \in Seq(STRING)
      OBVIOUS
    <3> QED
      BY <1>3, <3>1, <3>2
  <2>4. UNCHANGED <<ffName, ffRemover>>
    BY <1>15 DEF CloseFifo, nameVars
  <2> QED
    BY <1>1, <1>3, <2>1, <2>2, <2>3, <2>4, OneWaiter DEF FifoRecords
<1> QED
  BY <1>6, <1>7, <1>8, <1>9, <1>11, <1>12, <1>13, <1>14, <1>15 DEF WaiterStep

\* Every step of the fifo experiment keeps its part of the invariant.
LEMMA FifoKeeps ==
    /\ FifoInit => FInv
    /\ FInv /\ [(\E w \in Waiters : WaitFifoChar(w)) \/ FifoNext]_fifoVars => FInv'
<1>1. FifoInit => FInv
  BY FifoAssumption DEF FifoInit, FInv, InTouch, At, FifoRecords, FifoPc
<1>2. ASSUME FInv, WriteFifo PROVE FInv'
  <2>1. UNCHANGED <<ffWaiter, ffName, ffRemover>>
    BY <1>2 DEF WriteFifo, nameVars
  <2>2. ffBytes' \in [Waiters -> Seq(STRING)]
    <3>1. PICK text \in FfTexts : ffBytes' = [ffBytes EXCEPT ![ffName] = @ \o text]
      BY <1>2 DEF WriteFifo
    <3>2. ffName \in Waiters /\ text \in Seq(STRING)
      BY <1>2, FifoAssumption DEF WriteFifo, FInv
    <3>3. ffBytes[ffName] \o text \in Seq(STRING)
      BY <1>2, <3>2 DEF FInv
    <3> QED
      BY <1>2, <3>1, <3>2, <3>3 DEF FInv
  <2> QED
    BY <1>2, <2>1, <2>2 DEF FInv, InTouch, At
<1>3. ASSUME FInv, UNCHANGED fifoVars PROVE FInv'
  BY <1>3 DEF fifoVars, FInv, InTouch, At
<1> QED
  BY <1>1, <1>2, <1>3, WaiterKeeps DEF FifoNext

-----------------------------------------------------------------------------
(* test.cpp: what whole seconds tell of the time that has passed.            *)

DInv ==
    /\ cdBegan \in Nat /\ cdClock \in Nat
    /\ m_Timeout \in Int
    /\ cdPc = "first" => cdStart = Uptime(cdBegan)
    /\ cdPc = "second" => cdStart = TvSec(cdBegan)

\* A number of ticks lies between its whole seconds and the next second.
LEMMA DivBounds ==
    ASSUME NEW x \in Nat, NEW d \in Nat, d > 0
    PROVE  /\ x \div d \in Nat
           /\ (x \div d) * d \in Nat
           /\ (x \div d) * d <= x
           /\ x < (x \div d) * d + d
  OBVIOUS

\* More seconds are more ticks.
LEMMA ProductGrows ==
    ASSUME NEW a \in Int, NEW b \in Int, NEW d \in Nat, a <= b
    PROVE  a * d \in Int /\ b * d \in Int /\ a * d <= b * d
  OBVIOUS

\* Of two counts of whole seconds, the time between is less than a second
\* shorter than the difference.
LEMMA SecondsApart ==
    ASSUME NEW x \in Nat, NEW y \in Nat, NEW d \in Nat, d > 0, NEW n \in Int,
           (y \div d) - (x \div d) >= n
    PROVE  y - x > (n - 1) * d
<1>1. /\ x \div d \in Nat /\ y \div d \in Nat
      /\ (x \div d) * d \in Nat /\ (y \div d) * d \in Nat
      /\ x < (x \div d) * d + d /\ (y \div d) * d <= y
  BY DivBounds
<1> DEFINE p == x \div d
           q == y \div d
<1> HIDE DEF p, q
<1>2. p \in Nat /\ q \in Nat /\ n + p <= q /\ n + p \in Int
  BY <1>1 DEF p, q
<1>3. (n + p) * d <= q * d /\ (n + p) * d \in Int
  BY <1>2, ProductGrows
<1>4. (n + p) * d = n * d + p * d /\ (n - 1) * d = n * d - d
  BY <1>2
<1>5. n * d \in Int /\ p * d \in Int
  BY <1>2
<1> QED
  BY <1>1, <1>2, <1>3, <1>4, <1>5 DEF p, q

\* Every step of the counter of minutes keeps its part of the invariant.
LEMMA CountDownKeeps ==
    /\ CountDownInit => DInv
    /\ DInv /\ [CountDown_1 \/ CountDown_2 \/ (\E m \in CdMinutes : CCountDown(m))
                    \/ CountDownNext]_countDownVars => DInv'
<1> USE CountDownAssumption DEF DInv
<1>1. CountDownInit => DInv
  BY DEF CountDownInit
<1>2. ASSUME DInv, CountDown_1 PROVE DInv'
  BY <1>2 DEF CountDown_1, CdBegins, CdCalled
<1>3. ASSUME CountDown_2 PROVE DInv'
  BY <1>3 DEF CountDown_2, CdBegins, CdCalled
<1>4. ASSUME DInv, NEW m \in CdMinutes, CCountDown(m) \/ setTimeoutMin(m) PROVE DInv'
  BY <1>4 DEF CCountDown, setTimeoutMin, CdCalled
<1>5. ASSUME DInv, CdWakes \/ CCountDown_Start \/ CdTick \/ UNCHANGED countDownVars
      PROVE  DInv'
  BY <1>5 DEF CdWakes, CCountDown_Start, CdTick, countDownVars
<1> QED
  BY <1>1, <1>2, <1>3, <1>4, <1>5 DEF CountDownNext

\* What whole seconds at both ends say of the time between.
LEMMA WithinASecond == DInv => EarlyByLessThanASecond
<1> SUFFICES ASSUME DInv PROVE EarlyByLessThanASecond
  OBVIOUS
<1>1. /\ TicksPerSec \in Nat /\ TicksPerSec > 0 /\ CdLimit \in Nat
      /\ cdBegan \in Nat /\ cdClock \in Nat /\ m_Timeout \in Int
      /\ cdClock + TicksPerSec - 1 \in Nat /\ cdBegan + TicksPerSec - 1 \in Nat
  BY CountDownAssumption DEF DInv
<1>2. ASSUME cdPc = "first", CCounter_isTimeout
      PROVE  cdClock - cdBegan > m_Timeout * TicksPerSec
  <2>1. /\ (cdClock + TicksPerSec - 1) \div TicksPerSec \in Nat
        /\ (cdBegan + TicksPerSec - 1) \div TicksPerSec \in Nat
    BY <1>1, DivBounds
  <2>2. ((cdClock + TicksPerSec - 1) \div TicksPerSec)
           - ((cdBegan + TicksPerSec - 1) \div TicksPerSec) >= m_Timeout + 1
    BY <1>1, <1>2, <2>1 DEF DInv, CCounter_isTimeout, Uptime
  <2>3. (cdClock + TicksPerSec - 1) - (cdBegan + TicksPerSec - 1)
           > (m_Timeout + 1 - 1) * TicksPerSec
    BY <1>1, <2>2, SecondsApart
  <2>4. m_Timeout + 1 - 1 = m_Timeout
    BY <1>1
  <2>5. m_Timeout * TicksPerSec \in Int
    BY <1>1
  <2> QED
    BY <1>1, <2>3, <2>4, <2>5
<1>3. ASSUME cdPc = "second", CountDown_2_ends
      PROVE  cdClock - cdBegan > (CdLimit - 1) * TicksPerSec
  <2>1. (cdClock \div TicksPerSec) - (cdBegan \div TicksPerSec) >= CdLimit
    BY <1>1, <1>3 DEF DInv, CountDown_2_ends, TvSec
  <2> QED
    BY <1>1, <2>1, SecondsApart
<1> QED
  BY <1>2, <1>3 DEF EarlyByLessThanASecond

-----------------------------------------------------------------------------
(* The program.                                                             *)

EInv == TInv /\ WInv /\ WMasked /\ SInv /\ CInv /\ DInv /\ FInv /\ NInv /\ AInv

\* The invariants of the experiments hold together, whichever is chosen.
THEOREM EInvCorrect == Spec => []EInv
<1>1. Init => EInv
  BY InitTInv, InitWInv, WaitKeepsMask, SleepKeeps, CondKeeps, CountDownKeeps,
     FifoKeeps, NetLibKeeps, AddressKeeps
  DEF Init, EInv
<1>2. ASSUME EInv, [Next]_vars PROVE EInv'
  <2>1. TInv'
    <3>1. TInv /\ UNCHANGED timerVars => TInv'
      BY DEF timerVars, TInv, TimerTypeOK, ActionFollowsWorker, HandlerIgnores,
             StopIsFlagged, StopIsNotMissed, OnlyHandlerDelaysStop
    <3> QED
      BY <1>2, <3>1, StepOfOne, MainKeeps, WorkerKeeps, HandlerKeeps
      DEF EInv, TimerNext
  <2>2. WInv'
    BY <1>2, StepOfOne, DateSteps, TickStep, OtherSteps
    DEF EInv, WaitSignalNext, WaitSignal_funcThread
  <2>3. WMasked' /\ SInv'
    BY <1>2, StepOfOne, WaitKeepsMask, SleepKeeps DEF EInv
  <2>4. CInv' /\ DInv'
    BY <1>2, StepOfOne, CondKeeps, CountDownKeeps DEF EInv
  <2>5. FInv' /\ NInv'
    BY <1>2, StepOfOne, FifoKeeps, NetLibKeeps DEF EInv
  <2>6. AInv'
    BY <1>2, StepOfOne, AddressKeeps, Zenon DEF EInv
  <2> QED
    BY <2>1, <2>2, <2>3, <2>4, <2>5, <2>6, Zenon DEF EInv
<1> QED
  BY <1>1, <1>2, PTL DEF Spec

\* Timer.c: the worker that has taken the signal of the stop does not wait
\* again.
THEOREM StopNotMissed == Spec => []StopIsNotMissed
<1>1. EInv => StopIsNotMissed
  BY DEF EInv, TInv
<1> QED
  BY <1>1, EInvCorrect, PTL

\* Timer.c: only a handler that ran can leave the join to the timeout.
THEOREM StopDelayedByHandler == Spec => []OnlyHandlerDelaysStop
<1>1. EInv => OnlyHandlerDelaysStop
  BY DEF EInv, TInv
<1> QED
  BY <1>1, EInvCorrect, PTL

\* Timer.c: no thread runs the handler twice.
THEOREM HandlerRunsOnce == Spec => []HandledOnce
<1>1. EInv => HandledOnce
  BY DEF EInv, TInv, HandlerIgnores, HandledOnce
<1> QED
  BY <1>1, EInvCorrect, PTL

\* Test_waitSignal.c: an undisturbed wait lasts until a period after the last
\* wake-up, however long the work took.
THEOREM PeriodIsKept == Spec => []PeriodKept
<1>1. EInv => PeriodKept
  BY DEF EInv, WInv
<1> QED
  BY <1>1, EInvCorrect, PTL

\* CCounter.cpp, test.cpp: CCounter waits more than its timeout, and CountDown_2()
\* ends less than a second early at most.
THEOREM CountsWithinASecond == Spec => []EarlyByLessThanASecond
<1>1. EInv => EarlyByLessThanASecond
  BY WithinASecond DEF EInv
<1> QED
  BY <1>1, EInvCorrect, PTL

\* WaitFifo.cpp: a FIFO under a waiter loses its name only to a rival.
THEOREM OrphansByRival == Spec => []OrphansHaveRival
<1>1. EInv => OrphansHaveRival
  BY Zenon DEF EInv, FInv, InTouch, OrphansHaveRival
<1> QED
  BY <1>1, EInvCorrect, PTL

\* Network.c: the fields printed of an IPv6 text of hexadecimal groups are those it
\* stands for, whatever the groups and wherever "::" stands, and the bit found in
\* an empty Str is the last one.
THEOREM ExpansionCorrect == Spec => []ExpansionIsRight
<1>1. EInv => ExpansionIsRight
  BY AddressKeeps, Zenon DEF EInv
<1> QED
  BY <1>1, EInvCorrect, PTL

\* NetLib.c: Success is printed only for a request that was accepted.
THEOREM SuccessIsEarned == Spec => []SuccessIsTrue
<1>1. ASSUME NInv, nlCall = "Net_2", nlShown = <<"Success">>
      PROVE  nlSent /\ nlDecision = "OK"
  <2>1. nlSent = TRUE /\ nlShown = <<Said(nlDecision)>>
    BY <1>1 DEF NInv
  <2>2. Said(nlDecision) = "Success"
    BY <1>1, <2>1
  <2> QED
    BY <2>1, <2>2, OnlyOkIsSuccess
<1>2. EInv => SuccessIsTrue
  BY <1>1 DEF EInv, SuccessIsTrue
<1> QED
  BY <1>2, EInvCorrect, PTL

\* Timer.c, Test_waitSignal.c, Sleep.c: a signal ends the process only before
\* the thread it is meant for has prepared itself.
THEOREM DeathIsEarly == Spec => []DiesOnlyUnprepared
<1>1. TInv => TimerDiesUnprepared
  BY DEF TInv, ActionFollowsWorker, TimerDiesUnprepared
<1>2. SInv => (~slAlive => slWorker \in {"none", "start"})
  BY Zenon DEF SInv
<1>3. EInv => DiesOnlyUnprepared
  BY <1>1, <1>2, Zenon DEF EInv, WMasked, DiesOnlyUnprepared
<1> QED
  BY <1>3, EInvCorrect, PTL

\* Sleep.c: no key cuts a sleep short or ends the process once the thread has
\* blocked the signal.
THEOREM SleepsKept == Spec => SleepsUndisturbed
<1> DEFINE kept == /\ slWorker \in {"masked", "sleep"} => slAlive'
                   /\ slLeft > 0 => slLeft' >= slLeft - 1
<1>1. EInv /\ [Next]_vars => [kept]_sleepVars
  BY StepOfOne, SleepKeeps, Zenon DEF EInv
<1> QED
  BY <1>1, EInvCorrect, PTL DEF Spec, SleepsUndisturbed

-----------------------------------------------------------------------------
(* CCountDown.cpp: an expiry that stays.                                     *)

\* Dates and minutes are whole numbers.
OInv ==
    /\ cdClock \in Nat
    /\ cdObject \in [start : Nat, min : Int]

\* A shorter time has no more whole seconds.
LEMMA QuotientGrows ==
    ASSUME NEW x \in Nat, NEW y \in Nat, NEW d \in Nat, d > 0, x <= y
    PROVE  /\ x \div d \in Nat /\ y \div d \in Nat
           /\ x \div d <= y \div d
<1> DEFINE p == x \div d
           q == y \div d
<1>1. /\ p \in Nat /\ q \in Nat /\ p * d \in Nat /\ q * d \in Nat
      /\ p * d <= x /\ y < q * d + d
  BY DivBounds
<1> HIDE DEF p, q
<1>2. ASSUME q < p PROVE FALSE
  <2>1. q + 1 \in Int /\ q + 1 <= p
    BY <1>1, <1>2
  <2>2. (q + 1) * d <= p * d
    BY <1>1, <2>1, ProductGrows
  <2>3. (q + 1) * d = q * d + d
    BY <1>1
  <2> QED
    BY <1>1, <2>2, <2>3
<1> QED
  BY <1>1, <1>2 DEF p, q

\* What is left until a date shrinks.
LEMMA DifferenceShrinks ==
    ASSUME NEW date \in Int, NEW x \in Nat, NEW y \in Nat, x <= y
    PROVE  /\ date - x \in Int /\ date - y \in Int
           /\ date - y <= date - x
  OBVIOUS

\* Every step of the countdowns keeps dates, and lets the clock only go on while
\* the object stays.
LEMMA ObjectKeeps ==
    /\ CountDownInit => OInv
    /\ OInv /\ [CountDown_1 \/ CountDown_2 \/ (\E m \in CdMinutes : CCountDown(m))
                    \/ CountDownNext]_countDownVars =>
          /\ OInv'
          /\ cdPc = "object" => cdClock' \in {cdClock, cdClock + 1}
<1> USE CountDownAssumption DEF OInv
<1>1. CountDownInit => OInv
  BY DEF CountDownInit
<1>2. ASSUME OInv, CountDown_1 \/ CountDown_2
      PROVE  OInv' /\ cdPc = "off"
  BY <1>2 DEF CountDown_1, CountDown_2, CdBegins, CdCalled
<1>3. ASSUME OInv, NEW m \in CdMinutes, CCountDown(m) \/ setTimeoutMin(m)
      PROVE  OInv' /\ (cdPc = "off" \/ cdClock' = cdClock)
  <2>1. m \in Int
    OBVIOUS
  <2>2. CASE CCountDown(m)
    BY <1>3, <2>1, <2>2 DEF CCountDown, CdCalled
  <2>3. CASE setTimeoutMin(m)
    BY <1>3, <2>1, <2>3 DEF setTimeoutMin
  <2> QED
    BY <1>3, <2>2, <2>3
<1>4. ASSUME OInv, CdWakes \/ CCountDown_Start \/ CdTick \/ UNCHANGED countDownVars
      PROVE  OInv' /\ cdClock' \in {cdClock, cdClock + 1}
  BY <1>4 DEF CdWakes, CCountDown_Start, CdTick, countDownVars
<1> QED
  BY <1>1, <1>2, <1>3, <1>4 DEF CountDownNext

\* With the object as it was, time that goes on neither takes an expiry back nor
\* adds to what is left.
LEMMA TimeGoesOn ==
    ASSUME OInv, cdObject' = cdObject, cdClock' \in {cdClock, cdClock + 1}
    PROVE  /\ isTimeout => isTimeout'
           /\ ~isTimeout' => getTimeLeft' <= getTimeLeft
<1>1. PICK date \in Int : getTimeoutDate = date /\ getTimeoutDate' = date
  <2>1. TicksPerSec \in Nat /\ SecPerMin \in Nat
    BY CountDownAssumption
  <2> QED
    BY <2>1 DEF getTimeoutDate, OInv
<1>2. /\ cdClock \in Nat /\ cdClock' \in Nat /\ cdClock <= cdClock'
      /\ TicksPerSec \in Nat /\ TicksPerSec > 0
  BY CountDownAssumption DEF OInv
<1>3. /\ date - cdClock \in Int /\ date - cdClock' \in Int
      /\ date - cdClock' <= date - cdClock
  <2>1. date \in Int
    BY <1>1, Zenon
  <2> QED
    BY <1>2, <2>1, DifferenceShrinks, Zenon
<1>4. ASSUME isTimeout PROVE isTimeout'
  BY <1>1, <1>3, <1>4 DEF isTimeout
<1>5. ASSUME ~isTimeout' PROVE getTimeLeft' <= getTimeLeft
  <2>1. date - cdClock' \in Nat /\ date - cdClock \in Nat
    BY <1>1, <1>3, <1>5 DEF isTimeout
  <2>2. (date - cdClock') \div TicksPerSec <= (date - cdClock) \div TicksPerSec
    BY <1>2, <1>3, <2>1, QuotientGrows
  <2> QED
    BY <1>1, <2>1, <2>2 DEF getTimeLeft
<1> QED
  BY <1>4, <1>5

\* Once a CCountDown is over it stays over, and until then the time left never
\* grows, for any minutes and any resolution of the clock (CCountDown.cpp 130,
\* 191).
THEOREM ExpiryStays == Spec => ExpiryIsStable
<1>1. Init => OInv
  BY ObjectKeeps DEF Init
<1>2. OInv /\ [Next]_vars => OInv'
  BY StepOfOne, ObjectKeeps
<1>3. ASSUME OInv, [Next]_vars
      PROVE  [ cdPc = "object" /\ cdObject' = cdObject =>
                  /\ isTimeout => isTimeout'
                  /\ ~isTimeout' => getTimeLeft' <= getTimeLeft ]_countDownVars
  BY <1>3, StepOfOne, ObjectKeeps, TimeGoesOn
<1> QED
  BY <1>1, <1>2, <1>3, PTL DEF Spec, ExpiryIsStable

-----------------------------------------------------------------------------
(* Type correctness: what the invariants above leave open.                   *)

\* Test_waitSignal.c: signals and keys stay within their limits.
WTypes ==
    /\ wsMain \in {"off", "keys"}
    /\ wsWorker \in WsWorkerPc
    /\ wsBlocked \in BOOLEAN
    /\ wsAlive \in BOOLEAN
    /\ wsQueue \in 0..QueueLimit
    /\ wsKeys \in 0..MaxKeys

\* One signal is queued or taken at a time.
LEMMA WaitTypes ==
    /\ WaitSignalInit => WTypes
    /\ WTypes /\ [main_WaitSignal \/ WaitSignalNext]_waitVars => WTypes'
<1> USE WaitSignalAssumption DEF WTypes, WsWorkerPc
<1>1. ASSUME WaitSignalInit PROVE WTypes
  <2>1. wsQueue \in 0..QueueLimit /\ wsKeys \in 0..MaxKeys
    BY <1>1 DEF WaitSignalInit
  <2> QED
    BY <1>1, <2>1, Zenon DEF WaitSignalInit
<1>2. ASSUME WTypes, main_WaitSignal PROVE WTypes'
  BY <1>2, Zenon DEF main_WaitSignal
<1>3. ASSUME WTypes, Key PROVE WTypes'
  <2>1. wsQueue' \in 0..QueueLimit /\ wsKeys' \in 0..MaxKeys
    BY <1>3 DEF Key
  <2>2. wsAlive' \in BOOLEAN
    BY <1>3, Zenon DEF Key
  <2> QED
    BY <1>3, <2>1, <2>2, Zenon DEF Key
<1>4. ASSUME WTypes, WaitSignal_Config \/ WaitStarts \/ WakeUpDate \/ NextTimeout
      PROVE  WTypes'
  BY <1>4, Zenon DEF WaitSignal_Config, WaitStarts, WakeUpDate, NextTimeout, Goes
<1>5. ASSUME WTypes, WaitEnds PROVE WTypes'
  <2>1. wsQueue' \in 0..QueueLimit
    BY <1>5 DEF WaitEnds
  <2> QED
    BY <1>5, <2>1, Zenon DEF WaitEnds, Goes
<1>6. ASSUME WTypes, WaitSignalTick \/ UNCHANGED waitVars PROVE WTypes'
  BY <1>6, Zenon DEF WaitSignalTick, waitVars
<1> QED
  BY <1>1, <1>2, <1>3, <1>4, <1>5, <1>6 DEF WaitSignalNext, WaitSignal_funcThread

\* Sleep.c: a sleep starts with its whole time and only gets shorter.
LEMMA SleepTypes ==
    /\ SleepInit => SleepTypeOK
    /\ SleepTypeOK /\ [main_Sleep \/ SleepNext]_sleepVars => SleepTypeOK'
<1> USE SleepAssumption DEF SleepTypeOK
<1>1. ASSUME SleepInit PROVE SleepTypeOK
  <2>1. slLeft \in 0..SleepSeconds
    BY <1>1 DEF SleepInit
  <2> QED
    BY <1>1, <2>1, Zenon DEF SleepInit
<1>2. ASSUME SleepTypeOK, main_Sleep PROVE SleepTypeOK'
  BY <1>2, Zenon DEF main_Sleep
<1>3. ASSUME SleepTypeOK, SleepKey PROVE SleepTypeOK'
  <2>1. slLeft' \in 0..SleepSeconds
    BY <1>3 DEF SleepKey
  <2>2. slAlive' \in BOOLEAN /\ slPending' \in BOOLEAN
    BY <1>3, Zenon DEF SleepKey
  <2> QED
    BY <1>3, <2>1, <2>2, Zenon DEF SleepKey
<1>4. ASSUME SleepTypeOK, Sleep_funcThread \/ SleepTick PROVE SleepTypeOK'
  <2>1. slLeft' \in 0..SleepSeconds
    BY <1>4 DEF Sleep_funcThread, SetMask, SetHandler, SleepAgain, SleepTick
  <2> QED
    BY <1>4, <2>1, Zenon DEF Sleep_funcThread, SetMask, SetHandler, SleepAgain, SleepTick
<1>5. ASSUME SleepTypeOK, UNCHANGED sleepVars PROVE SleepTypeOK'
  BY <1>5, Zenon DEF sleepVars
<1> QED
  BY <1>1, <1>2, <1>3, <1>4, <1>5 DEF SleepNext

\* Test_condition_variable.c: main() counts its sleeps down to the signal.
CTypes ==
    /\ cvMain \in [pc : {"off", "sleep", "signal", "leaving", "done"},
                   sleeps : 0..CvSleeps, until : Nat]
    /\ cvMain.pc \in {"off", "sleep"} => cvMain.sleeps > 0
    /\ m_mutex \in {"free", "worker"}

\* There is a sleep left as long as main() sleeps.
LEMMA CondTypes ==
    /\ CondInit => CTypes
    /\ CInv /\ CTypes /\ [main_ConditionVariable \/ CondNext]_condVars => CTypes'
<1> USE CondWaitAssumption, TimespecAssumption DEF CTypes
<1>1. CondInit => CTypes
  BY DEF CondInit
<1>2. ASSUME CInv, CTypes, main_ConditionVariable \/ CvSleepEnds PROVE CTypes'
  <2>1. Nanoseconds(cvClock) + NsPerSec \in Nat
    BY <1>2, NanosecondsNat DEF CInv
  <2>2. PICK later \in Nat :
            \/ cvMain' = [cvMain EXCEPT !.pc = "sleep", !.until = later]
            \/ cvMain.sleeps = 1 /\ cvMain' = [cvMain EXCEPT !.pc = "signal"]
            \/ /\ cvMain.sleeps # 1 /\ cvMain.pc = "sleep"
               /\ cvMain' = [cvMain EXCEPT !.sleeps = @ - 1, !.until = later]
    BY <1>2, <2>1, Zenon DEF main_ConditionVariable, CvSleepEnds
  <2>3. m_mutex' = m_mutex /\ cvMain.pc \in {"off", "sleep"}
    BY <1>2, Zenon DEF main_ConditionVariable, CvSleepEnds, workerVars
  <2>4. cvMain \in [pc : {"off", "sleep", "signal", "leaving", "done"}, sleeps : 0..CvSleeps, until : Nat]
           /\ cvMain.sleeps > 0
    BY <1>2, <2>3
  <2>5. CASE cvMain' = [cvMain EXCEPT !.pc = "sleep", !.until = later]
    BY <1>2, <2>3, <2>4, <2>5
  <2>6. CASE cvMain.sleeps = 1 /\ cvMain' = [cvMain EXCEPT !.pc = "signal"]
    BY <1>2, <2>3, <2>4, <2>6
  <2>7. CASE /\ cvMain.sleeps # 1 /\ cvMain.pc = "sleep"
             /\ cvMain' = [cvMain EXCEPT !.sleeps = @ - 1, !.until = later]
    <3>1. cvMain.sleeps - 1 \in 0..CvSleeps /\ cvMain.sleeps - 1 > 0
      BY <2>4, <2>7
    <3> QED
      BY <1>2, <2>3, <2>4, <2>7, <3>1
  <2> QED
    BY <2>2, <2>5, <2>6, <2>7
<1>3. ASSUME CTypes, CvSignal \/ CvExit PROVE CTypes'
  BY <1>3 DEF CvSignal, CvExit, workerVars
<1>4. ASSUME CTypes,
             ConditionVariable_wait \/ WaitReturnsEarly \/ CvTick \/ UNCHANGED condVars
      PROVE  CTypes'
  BY <1>4, Zenon DEF ConditionVariable_wait, ReadDate, Lock, WaitBegins, WaitEndsForCause,
         WaitReturnsEarly, Unlock, CvGoes, CvTick, condVars, workerVars
<1> QED
  BY <1>1, <1>2, <1>3, <1>4 DEF CondNext, CondMain

\* test.cpp: the loops sleep until a date.
LEMMA CountDownTypes ==
    /\ CountDownInit => CountDownTypeOK
    /\ CountDownTypeOK /\ [CountDown_1 \/ CountDown_2 \/ (\E m \in CdMinutes : CCountDown(m))
                             \/ CountDownNext]_countDownVars => CountDownTypeOK'
<1> USE CountDownAssumption DEF CountDownTypeOK
<1>1. CountDownInit => CountDownTypeOK
  BY DEF CountDownInit
<1>2. ASSUME CountDownTypeOK, CountDown_1 \/ CountDown_2 PROVE CountDownTypeOK'
  BY <1>2 DEF CountDown_1, CountDown_2, CdBegins, CdCalled
<1>3. ASSUME CountDownTypeOK, NEW m \in CdMinutes, CCountDown(m) \/ setTimeoutMin(m)
      PROVE  CountDownTypeOK'
  BY <1>3 DEF CCountDown, setTimeoutMin, CdCalled
<1>4. ASSUME CountDownTypeOK, CdWakes \/ CCountDown_Start \/ CdTick \/ UNCHANGED countDownVars
      PROVE  CountDownTypeOK'
  BY <1>4 DEF CdWakes, CCountDown_Start, CdTick, countDownVars
<1> QED
  BY <1>1, <1>2, <1>3, <1>4 DEF CountDownNext

\* GpioSelect.c: what may be shown is what the attribute may hold.
PInv == GpioTypeOK /\ gpCarrier \in {"0", "1", "down"}

\* One byte at most is read after each return to the start of the file.
LEMMA GpioKeeps ==
    /\ GpioInit => PInv
    /\ PInv /\ [GpioSelect_Poll \/ GpioSelect_Select \/ GpioNext]_gpioVars => PInv'
<1> USE DEF PInv, GpioTypeOK
<1>1. ASSUME GpioInit PROVE PInv
  <2>1. gpOffset \in 0..1 /\ vTv \in 0..GpSelectSeconds
    BY <1>1, GpioAssumption DEF GpioInit
  <2> QED
    BY <1>1, <2>1, Zenon DEF GpioInit
<1>2. ASSUME PInv, GpioSelect_Poll \/ GpioSelect_Select PROVE PInv'
  <2>1. GpSelectSeconds \in 0..GpSelectSeconds
    BY GpioAssumption
  <2> QED
    BY <1>2, <2>1, Zenon DEF GpioSelect_Poll, GpioSelect_Select, GpioStarts
<1>3. ASSUME PInv, GpioStep PROVE PInv'
  <2>1. 0 \in 0..1 /\ 1 \in 0..1
    OBVIOUS
  <2>2. CASE GpioReads("first") \/ GpioReads("read")
    BY <1>3, <2>1, <2>2, Zenon DEF GpioReads, carrierVars
  <2>3. CASE GpioSeeks \/ GpioWaits
    BY <1>3, <2>1, <2>3, Zenon DEF GpioSeeks, GpioWaits, carrierVars
  <2> QED
    BY <1>3, <2>2, <2>3, Zenon DEF GpioStep
<1>4. ASSUME PInv, GpioTick PROVE PInv'
  <2>1. vTv \in 0..GpSelectSeconds /\ vTv > 0 /\ vTv' = vTv - 1
    BY <1>4, Zenon DEF GpioTick
  <2>2. vTv' \in 0..GpSelectSeconds
    BY <2>1, GpioAssumption
  <2> QED
    BY <1>4, <2>2, Zenon DEF GpioTick, carrierVars
<1>5. ASSUME PInv, GpioChanges \/ UNCHANGED gpioVars PROVE PInv'
  BY <1>5, Zenon DEF GpioChanges, gpioVars, carrierVars
<1> QED
  BY <1>1, <1>2, <1>3, <1>4, <1>5, Zenon DEF GpioNext

\* NetLib.c: the table holds addresses and nothing else, whoever changes it.
LEMMA NetLibTypes ==
    /\ NetLibInit => NetLibTypeOK
    /\ NetLibTypeOK /\ [Net_1 \/ Net_2 \/ NetLibNext]_netLibVars => NetLibTypeOK'
<1> USE DEF NetLibTypeOK, nlKernelVars, walkVars
<1>1. NetLibInit => NetLibTypeOK
  BY Zenon DEF NetLibInit
<1>2. ASSUME NetLibTypeOK, Net_1 \/ Net_2 PROVE NetLibTypeOK'
  <2>1. nlTable' \subseteq NlAddresses
    BY <1>2 DEF Net_1, Net_2, NlBegins
  <2> QED
    BY <1>2, <2>1, Zenon DEF Net_1, Net_2, NlBegins
<1>3. ASSUME NetLibTypeOK, NlSocket \/ NlRecv \/ NlRecvFails \/ NlParse \/ NlWalk
      PROVE  NetLibTypeOK'
  <2>1. nlPc' \in {"exit", "done", "send", "walk"}
    BY <1>3, Zenon DEF NlSocket, NlRecv, NlRecvFails, NlParse, NlWalk, NlGoes
  <2> QED
    BY <1>3, <2>1, Zenon DEF NlSocket, NlRecv, NlRecvFails, NlParse, NlWalk
<1>4. ASSUME NetLibTypeOK, NlSendAdd PROVE NetLibTypeOK'
  <2>1. CASE UNCHANGED <<nlSent, nlKernelVars>>
    BY <1>4, <2>1, Zenon DEF NlSendAdd, NlGoes
  <2>2. CASE nlSent' = TRUE /\ \E v \in NlErrors \cup {"OK", "EEXIST"} : KernelAdds(v)
    <3>1. /\ nlTable' = nlTable \cup {NEW_IP} \/ nlTable' = nlTable
          /\ nlDecision' \in NlErrors \cup {"none", "OK", "EEXIST"}
      BY <2>2 DEF KernelAdds
    <3>2. nlTable' \subseteq NlAddresses
      BY <1>4, <3>1, NetLibAssumption
    <3> QED
      BY <1>4, <2>2, <3>1, <3>2, Zenon DEF NlSendAdd, NlGoes
  <2> QED
    BY <1>4, <2>1, <2>2, Zenon DEF NlSendAdd
<1>5. ASSUME NetLibTypeOK, NlSendGet PROVE NetLibTypeOK'
  <2>1. UNCHANGED <<nlTable, nlDecision>> /\ (nlSent' = TRUE \/ nlSent' = nlSent)
    BY <1>5, Zenon DEF NlSendGet, KernelDumps
  <2>2. nlPc' \in {"recv", "done"}
    BY <1>5, Zenon DEF NlSendGet, NlGoes
  <2> QED
    BY <1>5, <2>1, <2>2, Zenon
<1>6. ASSUME NetLibTypeOK, NlOthers \/ UNCHANGED netLibVars PROVE NetLibTypeOK'
  <2>1. nlTable' \subseteq NlAddresses
    BY <1>6 DEF NlOthers, netLibVars
  <2> QED
    BY <1>6, <2>1, Zenon DEF NlOthers, netLibVars
<1> QED
  BY <1>1, <1>2, <1>3, <1>4, <1>5, <1>6, Zenon DEF NetLibNext, NlStep

\* WaitFifo.cpp: no FIFO holds more than FfMaxBytes, so ReadBuffer has room for
\* what FIONREAD has found.
FRoom == \A w \in Waiters : Len(ffBytes[w]) <= FfMaxBytes /\ ffWaiter[w].len <= FfMaxBytes

\* What a step may put into a FIFO and into the length of a waiter.
LEMMA RoomOfStep ==
    ASSUME FInv, FRoom, NEW v \in Waiters,
           \/ ffBytes' = ffBytes
           \/ \E f \in Waiters, text \in Seq(STRING) :
                 Len(text) <= FfMaxBytes /\ ffBytes' = [ffBytes EXCEPT ![f] = text],
           NEW r, ffWaiter' = [ffWaiter EXCEPT ![v] = r], r.len <= FfMaxBytes
    PROVE  FRoom'
<1>1. ASSUME NEW w \in Waiters PROVE Len(ffBytes[w])' <= FfMaxBytes
  BY DEF FInv, FRoom
<1>2. ASSUME NEW w \in Waiters PROVE ffWaiter[w].len' <= FfMaxBytes
  BY DEF FInv, FRoom
<1> QED
  BY <1>1, <1>2 DEF FRoom

\* The steps of one waiter: only ioctl() sets a length, and only read() and the
\* last close() take bytes away.
LEMMA WaiterRoom ==
    ASSUME FInv, FRoom, NEW v \in Waiters,
           WaitFifoChar(v) \/ WaiterStep(v) \/ PollInterrupted(v)
    PROVE  FRoom'
<1> DEFINE r == ffWaiter[v]
<1>1. r \in FifoRecords /\ r.len <= FfMaxBytes /\ InTouch(v)
  BY DEF FInv, FRoom
<1>2. ASSUME ffBytes' = ffBytes,
             NEW pc, NEW fd, NEW result,
             \/ ffWaiter' = [ffWaiter EXCEPT ![v] = [r EXCEPT !.pc = pc]]
             \/ ffWaiter' = [ffWaiter EXCEPT ![v] = [r EXCEPT !.pc = pc, !.fd = fd]]
             \/ ffWaiter' = [ffWaiter EXCEPT ![v] = [r EXCEPT !.pc = pc, !.result = result]]
      PROVE  FRoom'
  <2>1. PICK q : /\ ffWaiter' = [ffWaiter EXCEPT ![v] = q]
                 /\ q \in {[r EXCEPT !.pc = pc], [r EXCEPT !.pc = pc, !.fd = fd],
                           [r EXCEPT !.pc = pc, !.result = result]}
    BY <1>2
  <2>2. /\ [r EXCEPT !.pc = pc].len = r.len
        /\ [r EXCEPT !.pc = pc, !.fd = fd].len = r.len
        /\ [r EXCEPT !.pc = pc, !.result = result].len = r.len
    BY <1>1 DEF FifoRecords
  <2>3. q.len = r.len
    BY <2>1, <2>2, Zenon
  <2> QED
    BY <1>1, <1>2, <2>1, <2>3, RoomOfStep
<1>3. ASSUME NEW pc, FfGoes(v, pc), ffBytes' = ffBytes PROVE FRoom'
  <2>1. ffWaiter' = [ffWaiter EXCEPT ![v] = [r EXCEPT !.pc = pc]]
    BY <1>3 DEF FfGoes, FInv
  <2> QED
    BY <1>2, <1>3, <2>1
<1>4. ASSUME FfFails(v), ffBytes' = ffBytes PROVE FRoom'
  <2>1. ffWaiter' = [ffWaiter EXCEPT ![v] = [r EXCEPT !.pc = "close", !.result = "error"]]
    BY <1>4 DEF FfFails, FInv
  <2> QED
    BY <1>2, <1>4, <2>1
<1>5. CASE WaitFifoChar(v) \/ Unlink(v) \/ MkFifo(v) \/ PollFifo(v) \/ PollInterrupted(v)
  <2>1. ffBytes' = ffBytes /\ (FfFails(v) \/ \E pc : FfGoes(v, pc))
    BY <1>5, Zenon DEF WaitFifoChar, Unlink, MkFifo, PollFifo, PollInterrupted, byteVars
  <2> QED
    BY <1>3, <1>4, <2>1
<1>6. CASE OpenFifo(v)
  <2>1. CASE FfFails(v)
    BY <1>4, <1>6, <2>1, Zenon DEF OpenFifo, byteVars
  <2>2. CASE ffWaiter' = [ffWaiter EXCEPT ![v].pc = "poll", ![v].fd = ffName]
    <3>1. ffWaiter' = [ffWaiter EXCEPT ![v] = [r EXCEPT !.pc = "poll", !.fd = ffName]]
      BY <2>2 DEF FInv
    <3>2. ffBytes' = ffBytes
      BY <1>6, Zenon DEF OpenFifo, byteVars
    <3> QED
      BY <1>2, <3>1, <3>2
  <2> QED
    BY <1>6, <2>1, <2>2, Zenon DEF OpenFifo
<1>7. CASE CloseFifo(v)
  <2>1. ffWaiter' = [ffWaiter EXCEPT ![v] = [r EXCEPT !.pc = "remove", !.fd = NoFifo]]
    BY <1>7 DEF CloseFifo, FInv
  <2>2. [r EXCEPT !.pc = "remove", !.fd = NoFifo].len = r.len
    BY <1>1 DEF FifoRecords
  <2>3. \/ ffBytes' = ffBytes
        \/ \E f \in Waiters, text \in Seq(STRING) :
              Len(text) <= FfMaxBytes /\ ffBytes' = [ffBytes EXCEPT ![f] = text]
    <3>1. r.fd \in Waiters \cup {NoFifo}
      BY <1>1 DEF FifoRecords
    <3>2. <<>> \in Seq(STRING) /\ Len(<<>>) <= FfMaxBytes
      BY FifoAssumption
    <3>3. \/ ffBytes' = ffBytes
          \/ r.fd # NoFifo /\ ffBytes' = [ffBytes EXCEPT ![r.fd] = <<>>]
      BY <1>7, Zenon DEF CloseFifo
    <3> QED
      BY <3>1, <3>2, <3>3
  <2> QED
    BY <1>1, <2>1, <2>2, <2>3, RoomOfStep
<1>8. CASE IoctlFifo(v)
  <2> DEFINE n == Len(ffBytes[r.fd])
             q == [r EXCEPT !.pc = IF n > 0 THEN "read" ELSE "poll", !.len = n]
  <2>1. ffWaiter' = [ffWaiter EXCEPT ![v] = q] /\ ffBytes' = ffBytes
    <3>1. ffWaiter' = [ffWaiter EXCEPT ![v].pc = IF n > 0 THEN "read" ELSE "poll",
                                       ![v].len = n]
      BY <1>8, Zenon DEF IoctlFifo
    <3>2. ffBytes' = ffBytes
      BY <1>8, Zenon DEF IoctlFifo, byteVars
    <3> HIDE DEF n
    <3> QED
      BY <3>1, <3>2 DEF FInv
  <2>2. n <= FfMaxBytes
    BY <1>1, <1>8 DEF IoctlFifo, InTouch, At, FRoom
  <2>3. q.len = n
    BY <1>1 DEF FifoRecords
  <2> HIDE DEF n, q
  <2> QED
    BY <2>1, <2>2, <2>3, RoomOfStep
<1>9. CASE ReadFifo(v)
  <2> DEFINE bytes == ffBytes[r.fd]
             n == IF r.len < Len(bytes) THEN r.len ELSE Len(bytes)
             left == SubSeq(bytes, n + 1, Len(bytes))
             q == ffWaiter'[v]
  <2>1. r.fd \in Waiters
    BY <1>1, <1>9 DEF ReadFifo, InTouch, At
  <2>2. bytes \in Seq(STRING) /\ Len(bytes) <= FfMaxBytes /\ r.len \in Nat
    BY <1>1, <2>1 DEF FInv, FRoom, FifoRecords
  <2>3. ffBytes' = [ffBytes EXCEPT ![r.fd] = left]
    BY <1>9, Zenon DEF ReadFifo
  <2>4. ffWaiter' = [ffWaiter EXCEPT ![v] = q] /\ q.len = r.len
    <3>1. \/ ffWaiter' = [ffWaiter EXCEPT ![v].pc = "close", ![v].result = "found"]
          \/ ffWaiter' = [ffWaiter EXCEPT ![v].pc = "poll"]
      BY <1>9, Zenon DEF ReadFifo, FfGoes
    <3>2. DOMAIN ffWaiter = Waiters
      BY DEF FInv
    <3>3. /\ [r EXCEPT !.pc = "close", !.result = "found"].len = r.len
          /\ [r EXCEPT !.pc = "poll"].len = r.len
      BY <1>1 DEF FifoRecords
    <3> HIDE DEF r
    <3>4. \E s : ffWaiter' = [ffWaiter EXCEPT ![v] = s] /\ s.len = r.len
      BY ONLY <3>1, <3>3 DEF r
    <3> QED
      BY ONLY <3>2, <3>4, v \in Waiters
  <2> HIDE DEF bytes, q
  <2>5. left \in Seq(STRING) /\ Len(left) <= FfMaxBytes
    <3>1. n \in 0..Len(bytes) /\ Len(bytes) \in Nat
      BY <2>2
    <3> HIDE DEF n
    <3>2. SubSeq(bytes, n + 1, Len(bytes)) \in Seq(STRING)
             /\ Len(SubSeq(bytes, n + 1, Len(bytes))) = Len(bytes) - n
      BY <2>2, <3>1
    <3> QED
      BY <2>2, <3>1, <3>2, FifoAssumption
  <2> HIDE DEF n, left
  <2> QED
    BY <1>1, <2>1, <2>3, <2>4, <2>5, RoomOfStep
<1> QED
  BY <1>5, <1>6, <1>7, <1>8, <1>9, Zenon DEF WaiterStep

\* A writer finds room for the whole text or waits.
LEMMA FifoRoom ==
    /\ FifoInit => FRoom
    /\ FInv /\ FRoom /\ [(\E w \in Waiters : WaitFifoChar(w)) \/ FifoNext]_fifoVars => FRoom'
    /\ FInv /\ FRoom => FifoTypeOK
<1>1. FifoInit => FRoom
  BY FifoAssumption DEF FifoInit, FRoom
<1>2. ASSUME FInv, FRoom, WriteFifo PROVE FRoom'
  <2>1. PICK text \in FfTexts :
            /\ Len(ffBytes[ffName]) + Len(text) <= FfMaxBytes
            /\ ffBytes' = [ffBytes EXCEPT ![ffName] = @ \o text]
    BY <1>2 DEF WriteFifo
  <2>2. /\ ffName \in Waiters /\ ffWaiter' = ffWaiter
        /\ text \in Seq(STRING) /\ ffBytes[ffName] \in Seq(STRING)
    BY <1>2, FifoAssumption DEF WriteFifo, FInv
  <2> DEFINE more == ffBytes[ffName] \o text
  <2>3. more \in Seq(STRING) /\ Len(more) <= FfMaxBytes
    BY <2>1, <2>2
  <2>4. ffBytes' = [ffBytes EXCEPT ![ffName] = more]
    BY <2>1
  <2> HIDE DEF more
  <2>5. ffWaiter' = [ffWaiter EXCEPT ![ffName] = ffWaiter[ffName]]
           /\ ffWaiter[ffName].len <= FfMaxBytes
    BY <1>2, <2>2 DEF FInv, FRoom
  <2> QED
    BY <1>2, <2>2, <2>3, <2>4, <2>5, RoomOfStep
<1>3. ASSUME FRoom, UNCHANGED fifoVars PROVE FRoom'
  BY <1>3 DEF fifoVars, FRoom
<1>4. ASSUME FInv, FRoom PROVE FifoTypeOK
  BY <1>4, FifoAssumption DEF FInv, FRoom, FifoTypeOK, FifoRecords
<1> QED
  BY <1>1, <1>2, <1>3, <1>4, WaiterRoom DEF FifoNext

\* The types that the invariants of the experiments leave open.
EInvTypes == WTypes /\ SleepTypeOK /\ CTypes /\ CountDownTypeOK /\ FRoom /\ PInv /\ NetLibTypeOK

\* Every variable of the program keeps to its values, for every bound.
THEOREM TypeCorrect == Spec => []TypeOK
<1>1. Init => EInvTypes
  BY WaitTypes, SleepTypes, CondTypes, CountDownTypes, FifoRoom, GpioKeeps, NetLibTypes
  DEF Init, EInvTypes
<1>2. ASSUME EInv, EInvTypes, [Next]_vars PROVE EInvTypes'
  <2>1. WTypes' /\ SleepTypeOK' /\ CTypes'
    BY <1>2, StepOfOne, WaitTypes, SleepTypes, CondTypes DEF EInv, EInvTypes
  <2>2. CountDownTypeOK' /\ FRoom'
    BY <1>2, StepOfOne, CountDownTypes, FifoRoom DEF EInv, EInvTypes
  <2>3. PInv' /\ NetLibTypeOK'
    BY <1>2, StepOfOne, GpioKeeps, NetLibTypes, Zenon DEF EInvTypes
  <2> QED
    BY <2>1, <2>2, <2>3, Zenon DEF EInvTypes
<1>3. ASSUME EInv, EInvTypes PROVE TypeOK
  <2>1. TimerTypeOK /\ AddressTypeOK /\ FifoTypeOK
    BY <1>3, FifoRoom, AddressKeeps, Zenon DEF EInv, EInvTypes, TInv
  <2>2. WaitSignalTypeOK
    BY <1>3 DEF EInv, EInvTypes, WInv, DateTypes, WTypes, WaitSignalTypeOK
  <2>3. CondTypeOK
    BY <1>3, Zenon DEF EInv, EInvTypes, CInv, CTypes, CondTypeOK
  <2> QED
    BY <1>3, <2>1, <2>2, <2>3, Zenon DEF EInvTypes, PInv, TypeOK
<1> QED
  BY <1>1, <1>2, <1>3, EInvCorrect, PTL DEF Spec
=============================================================================
