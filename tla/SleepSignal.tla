---------------------------- MODULE SleepSignal ----------------------------
(***************************************************************************)
(* test_cpp/src/Sleep.c: main_Sleep() sends SIGUSR1 at every key to a      *)
(* thread that has blocked it and sleeps.  SIGUSR1 is not queued: one      *)
(* pends, the others are lost, and no sleep is interrupted.                *)
(***************************************************************************)
EXTENDS Naturals

CONSTANT SleepSeconds \* 10 in the code

ASSUME SleepAssumption == SleepSeconds \in Nat \ {0}

VARIABLES
    slMain,    \* "off" or "keys"
    slWorker,  \* Sleep_funcThread: "none", "start", "masked" or "sleep"
    slBlocked, \* the thread blocks SIGUSR1
    slCaught,  \* Sleep_staticHandler is installed
    slPending, \* SIGUSR1 pends for the thread
    slLeft,    \* seconds of sleep left
    slAlive    \* FALSE: a signal has ended the process

sleepVars == <<slMain, slWorker, slBlocked, slCaught, slPending, slLeft, slAlive>>

SleepInit ==
    /\ slMain = "off"
    /\ slWorker = "none"
    /\ slBlocked = FALSE
    /\ slCaught = FALSE
    /\ slPending = FALSE
    /\ slLeft = 0
    /\ slAlive = TRUE

main_Sleep ==
    /\ slMain = "off"
    /\ slMain' = "keys"
    /\ slWorker' = "start" \/ UNCHANGED slWorker
    /\ UNCHANGED <<slBlocked, slCaught, slPending, slLeft, slAlive>>

\* pthread_sigqueue(gTreadID, SIGUSR1).
SleepKey ==
    /\ slAlive /\ slMain = "keys"
    /\ slAlive' = (slWorker # "none" /\ (slBlocked \/ slCaught))
    /\ slPending' = (slPending \/ slBlocked)
    /\ slLeft' = IF slBlocked THEN slLeft ELSE 0
    /\ UNCHANGED <<slMain, slWorker, slBlocked, slCaught>>

\* Mutant: the signal is not blocked.
SetMaskNot ==
    /\ slAlive /\ slWorker = "start"
    /\ slWorker' = "masked"
    /\ UNCHANGED <<slMain, slBlocked, slCaught, slPending, slLeft, slAlive>>

SetMask ==
    /\ slAlive /\ slWorker = "start"
    /\ slWorker' = "masked"
    /\ slBlocked' = TRUE
    /\ UNCHANGED <<slMain, slCaught, slPending, slLeft, slAlive>>

SetHandler ==
    /\ slAlive /\ slWorker = "masked"
    /\ slWorker' = "sleep"
    /\ slCaught' = TRUE
    /\ slLeft' = SleepSeconds
    /\ UNCHANGED <<slMain, slBlocked, slPending, slAlive>>

\* sleep(10) has returned; the next begins.
SleepAgain ==
    /\ slAlive /\ slWorker = "sleep"
    /\ slLeft = 0
    /\ slLeft' = SleepSeconds
    /\ UNCHANGED <<slMain, slWorker, slBlocked, slCaught, slPending, slAlive>>

SleepTick ==
    /\ slAlive /\ slLeft > 0
    /\ slLeft' = slLeft - 1
    /\ UNCHANGED <<slMain, slWorker, slBlocked, slCaught, slPending, slAlive>>

Sleep_funcThread == SetMask \/ SetHandler \/ SleepAgain

SleepNext == SleepKey \/ Sleep_funcThread \/ SleepTick

SleepTypeOK ==
    /\ slMain \in {"off", "keys"}
    /\ slWorker \in {"none", "start", "masked", "sleep"}
    /\ slLeft \in 0..SleepSeconds
    /\ {slBlocked, slCaught, slPending, slAlive} \subseteq BOOLEAN

\* No key cuts a sleep short, and a key ends the process only before the
\* thread blocks the signal: what is sent later pends for ever (Sleep.c 39,
\* 67, 92).
SleepsUndisturbed ==
    [][ /\ slWorker \in {"masked", "sleep"} => slAlive'
        /\ slLeft > 0 => slLeft' >= slLeft - 1 ]_sleepVars
=============================================================================
