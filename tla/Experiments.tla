---------------------------- MODULE Experiments ----------------------------
(***************************************************************************)
(* test_cpp/src/main.cpp: one program whose first argument selects an      *)
(* experiment; the process runs that one and ends.  This module makes the  *)
(* choice and then takes the steps of the experiment that was chosen.      *)
(*                                                                         *)
(* Functions that main() does not call at present, but that other code     *)
(* linked with them may, are entered by Caller instead: CountDown_1(),     *)
(* CCountDown, WaitFifoChar(), GpioSelect_Select(), Net_1() and Net_2().   *)
(***************************************************************************)
EXTENDS TimerSignal, WaitSignal, SleepSignal, CondWait, CountDown, FifoWait,
        GpioPoll, AddressText, NetLib

VARIABLE chosen \* what runs: "none" yet, an experiment, or "other"

vars == <<chosen, timerVars, waitVars, sleepVars, condVars, countDownVars,
          fifoVars, gpioVars, addressVars, netLibVars>>

TimerOnly ==
    /\ UNCHANGED <<waitVars, sleepVars, condVars, countDownVars,
                   fifoVars, gpioVars, addressVars, netLibVars>>
WaitOnly ==
    /\ UNCHANGED <<timerVars, sleepVars, condVars, countDownVars,
                   fifoVars, gpioVars, addressVars, netLibVars>>
SleepOnly ==
    /\ UNCHANGED <<timerVars, waitVars, condVars, countDownVars,
                   fifoVars, gpioVars, addressVars, netLibVars>>
CondOnly ==
    /\ UNCHANGED <<timerVars, waitVars, sleepVars, countDownVars,
                   fifoVars, gpioVars, addressVars, netLibVars>>
CountDownOnly ==
    /\ UNCHANGED <<timerVars, waitVars, sleepVars, condVars,
                   fifoVars, gpioVars, addressVars, netLibVars>>
FifoOnly ==
    /\ UNCHANGED <<timerVars, waitVars, sleepVars, condVars,
                   countDownVars, gpioVars, addressVars, netLibVars>>
GpioOnly ==
    /\ UNCHANGED <<timerVars, waitVars, sleepVars, condVars,
                   countDownVars, fifoVars, addressVars, netLibVars>>
AddressOnly ==
    /\ UNCHANGED <<timerVars, waitVars, sleepVars, condVars,
                   countDownVars, fifoVars, gpioVars, netLibVars>>
NetLibOnly ==
    /\ UNCHANGED <<timerVars, waitVars, sleepVars, condVars,
                   countDownVars, fifoVars, gpioVars, addressVars>>

Init ==
    /\ chosen = "none"
    /\ TimerInit
    /\ WaitSignalInit
    /\ SleepInit
    /\ CondInit
    /\ CountDownInit
    /\ FifoInit
    /\ GpioInit
    /\ AddressInit
    /\ NetLibInit

Chooses(experiment) == chosen = "none" /\ chosen' = experiment

\* The switch of main(), by the values of argv[1].  What is not modelled, and
\* PrintUsage() for any other value or for none, is "other".
Main ==
    \/ Chooses("TEST_INET_PTON") /\ Net_inet_pton /\ AddressOnly
    \/ Chooses("TEST_COUNT_DONW") /\ CountDown_2 /\ CountDownOnly
    \/ Chooses("TEST_TIMER") /\ main_Timer /\ TimerOnly
    \/ Chooses("TEST_CONDITION_VARIABLE") /\ main_ConditionVariable /\ CondOnly
    \/ Chooses("TEST_WAIT_SIGNAL") /\ main_WaitSignal /\ WaitOnly
    \/ Chooses("TEST_SLEEP") /\ main_Sleep /\ SleepOnly
    \/ Chooses("TEST_GPIO_SELECT") /\ GpioSelect_Poll /\ GpioOnly
    \/ /\ Chooses("other")
       /\ UNCHANGED <<timerVars, waitVars, sleepVars, condVars, countDownVars,
                      fifoVars, gpioVars, addressVars, netLibVars>>

Caller ==
    \/ Chooses("CountDown_1") /\ CountDown_1 /\ CountDownOnly
    \/ Chooses("CCountDown") /\ (\E m \in CdMinutes : CCountDown(m)) /\ CountDownOnly
    \/ Chooses("WaitFifoChar") /\ (\E w \in Waiters : WaitFifoChar(w)) /\ FifoOnly
    \/ Chooses("GpioSelect_Select") /\ GpioSelect_Select /\ GpioOnly
    \/ Chooses("NetLib") /\ (Net_1 \/ Net_2) /\ NetLibOnly

Runs ==
    /\ UNCHANGED chosen
    /\ \/ TimerNext /\ TimerOnly
       \/ WaitSignalNext /\ WaitOnly
       \/ SleepNext /\ SleepOnly
       \/ CondNext /\ CondOnly
       \/ CountDownNext /\ CountDownOnly
       \/ FifoNext /\ FifoOnly
       \/ GpioNext /\ GpioOnly
       \/ AddressNext /\ AddressOnly
       \/ NetLibNext /\ NetLibOnly

Next == Main \/ Caller \/ Runs

Spec == Init /\ [][Next]_vars

FairSpec ==
    /\ Spec
    /\ TimerFairness
    /\ WaitSignalFairness
    /\ CondFairness
    /\ CountDownFairness
    /\ FifoFairness
    /\ GpioFairness
    /\ NetLibFairness

-----------------------------------------------------------------------------
(* Properties of several experiments.                                       *)

\* The values the variables take.
TypeOK ==
    /\ TimerTypeOK
    /\ WaitSignalTypeOK
    /\ SleepTypeOK
    /\ CondTypeOK
    /\ CountDownTypeOK
    /\ FifoTypeOK
    /\ GpioTypeOK
    /\ AddressTypeOK
    /\ NetLibTypeOK

\* A signal ends the process only while the thread it is meant for has not
\* prepared for it, or could not be made: neither the timer, which is armed
\* first, nor a key waits for the thread (Timer.c 269, 272; Test_waitSignal.c
\* 251, 268; Sleep.c 92).
DiesOnlyUnprepared ==
    /\ TimerDiesUnprepared
    /\ WaitDiesUnmasked
    /\ ~slAlive => slWorker \in {"none", "start"}

\* What is started ends: the timer's program by the stop or by the timeout of
\* its worker, the wait for a condition by its timeout, a countdown by its limit, a
\* request that was sent by its answer.
RunsEnd == TimerEnds /\ CondEnds /\ CountDownEnds /\ SentIsAnswered
=============================================================================
