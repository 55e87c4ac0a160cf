----------------------------- MODULE CountDown -----------------------------
(***************************************************************************)
(* test_cpp/src/test.cpp CountDown_1() and CountDown_2(), with CCounter    *)
(* (sysinfo(), whole seconds) and CCountDown (a date and minutes).         *)
(* CountDown() calls CountDown_2() alone; CountDown_1() is commented out   *)
(* there, and CCountDown has no caller left in the repository: they are    *)
(* modelled as what a program that calls them would get.                   *)
(*                                                                         *)
(* Time is one monotonic clock, in ticks of which TicksPerSec make a       *)
(* second, so that dates fall between two seconds; CdLastTick bounds it.   *)
(* The doubles of CCountDown are exact for such dates.                     *)
(***************************************************************************)
EXTENDS Integers

CONSTANTS
    TicksPerSec,
    SecPerMin,   \* 60
    CdLimit,     \* the 100 s of CountDown_2
    CdTimeouts,  \* timeouts of CountDown_1, in seconds; atoi() may give any int
    CdMinutes,   \* minutes given to CCountDown
    CdLastTick

ASSUME CountDownAssumption ==
    /\ {TicksPerSec, SecPerMin, CdLimit} \subseteq Nat \ {0}
    /\ CdTimeouts \cup CdMinutes \subseteq Int
    /\ CdLastTick \in Nat

VARIABLES
    cdPc,      \* "off", "first" (CountDown_1), "second" (CountDown_2),
               \* "object" (CCountDown) or "done"
    cdClock,   \* ticks
    cdUntil,   \* when sleep(1) ends
    cdStart,   \* seconds that the program read at the start
    m_Timeout, \* of the CCounter
    cdBegan,   \* history: the tick of the start
    cdObject   \* the CCountDown: its start, in ticks, and its minutes

countDownVars == <<cdPc, cdClock, cdUntil, cdStart, m_Timeout, cdBegan, cdObject>>

CountDownInit ==
    /\ cdPc = "off"
    /\ cdClock = 0
    /\ cdUntil = 0
    /\ cdStart = 0
    /\ m_Timeout = 0
    /\ cdBegan = 0
    /\ cdObject = [start |-> 0, min |-> 0]

\* tv_sec of clock_gettime(), and uptime of sysinfo(), which the kernel rounds
\* up.
TvSec(tick) == tick \div TicksPerSec
Uptime(tick) == (tick + TicksPerSec - 1) \div TicksPerSec

-----------------------------------------------------------------------------
(* The two loops of sleep(1).                                               *)

\* A call at any date.
CdCalled(pc) == cdPc = "off" /\ cdPc' = pc /\ cdClock' \in 0..TicksPerSec

CdBegins(pc, timeout, start) ==
    /\ CdCalled(pc)
    /\ m_Timeout' = timeout
    /\ cdStart' = start
    /\ cdBegan' = cdClock'
    /\ cdUntil' = cdClock' + TicksPerSec
    /\ UNCHANGED cdObject

\* With a number of arguments other than 3 it does nothing.
CountDown_1 ==
    \/ \E timeout \in CdTimeouts : CdBegins("first", timeout, Uptime(cdClock'))
    \/ /\ CdCalled("done")
       /\ UNCHANGED <<cdUntil, cdStart, m_Timeout, cdBegan, cdObject>>

CountDown_2 == CdBegins("second", CdLimit, TvSec(cdClock'))

\* Mutant: the counter is over when as many seconds as the timeout have begun.
CCounter_isTimeoutAtOnce == Uptime(cdClock) - cdStart >= m_Timeout

CCounter_isTimeout == Uptime(cdClock) - cdStart > m_Timeout

\* Mutant: the loop ends at the limit itself.
CountDown_2_endsExactly == TvSec(cdClock) - cdStart = CdLimit

CountDown_2_ends == TvSec(cdClock) - cdStart >= CdLimit

CdOver == \/ cdPc = "first" /\ CCounter_isTimeout
          \/ cdPc = "second" /\ CountDown_2_ends

CdWakes ==
    /\ cdPc \in {"first", "second"}
    /\ cdClock >= cdUntil
    /\ \/ CdOver /\ cdPc' = "done" /\ UNCHANGED cdUntil
       \/ ~CdOver /\ UNCHANGED cdPc /\ cdUntil' = cdClock + TicksPerSec
    /\ UNCHANGED <<cdClock, cdStart, m_Timeout, cdBegan, cdObject>>

-----------------------------------------------------------------------------
(* CCountDown: its constructor reads the date, like Start().                *)

CCountDown(min) ==
    /\ CdCalled("object")
    /\ cdObject' = [start |-> cdClock', min |-> min]
    /\ UNCHANGED <<cdUntil, cdStart, m_Timeout, cdBegan>>

CCountDown_Start ==
    /\ cdPc = "object"
    /\ cdObject' = [cdObject EXCEPT !.start = cdClock]
    /\ UNCHANGED <<cdPc, cdClock, cdUntil, cdStart, m_Timeout, cdBegan>>

setTimeoutMin(min) ==
    /\ cdPc = "object"
    /\ cdObject' = [cdObject EXCEPT !.min = min]
    /\ UNCHANGED <<cdPc, cdClock, cdUntil, cdStart, m_Timeout, cdBegan>>

getTimeoutDate == cdObject.start + cdObject.min * SecPerMin * TicksPerSec

\* llabs(): the absolute number of whole seconds.
getTimeLeft ==
    LET left == getTimeoutDate - cdClock
    IN  (IF left < 0 THEN -left ELSE left) \div TicksPerSec

\* Mutant: the countdown is over when no second is left.
isTimeoutByTimeLeft == getTimeLeft = 0

isTimeout == getTimeoutDate - cdClock < 0

-----------------------------------------------------------------------------
CdTick ==
    /\ cdPc \notin {"off", "done"}
    /\ cdClock < CdLastTick
    /\ cdClock' = cdClock + 1
    /\ UNCHANGED <<cdPc, cdUntil, cdStart, m_Timeout, cdBegan, cdObject>>

CountDownNext ==
    \/ CdWakes
    \/ CCountDown_Start
    \/ \E min \in CdMinutes : setTimeoutMin(min)
    \/ CdTick

\* A sleep that is over returns, and time passes.
CountDownFairness == WF_countDownVars(CdWakes) /\ WF_countDownVars(CdTick)

-----------------------------------------------------------------------------
(* Properties.                                                              *)

\* The values the variables take.
CountDownTypeOK ==
    /\ cdPc \in {"off", "first", "second", "object", "done"}
    /\ cdClock \in Nat
    /\ cdUntil \in Nat
    /\ m_Timeout \in CdTimeouts \cup {0, CdLimit}

\* Whole seconds are read at both ends: CCounter has always waited more than its
\* timeout, but CountDown_2() may end early, by less than a second (CCounter.cpp
\* 63, test.cpp 165).
EarlyByLessThanASecond ==
    LET waited == cdClock - cdBegan
    IN  /\ cdPc = "first" /\ CCounter_isTimeout =>
              waited > m_Timeout * TicksPerSec
        /\ cdPc = "second" /\ CountDown_2_ends =>
              waited > (CdLimit - 1) * TicksPerSec

\* Both end, also when a sleep lasts longer than asked for and a second passes
\* unseen (test.cpp 125, 168).
CountDownEnds == cdPc \in {"first", "second"} ~> cdPc = "done"

\* Once a CCountDown is over it stays over until it is started or set again,
\* and until then the time it reports as left never grows, although
\* getTimeLeft() is absolute: it is 0 for a second on both sides of the timeout
\* and counts up after it (CCountDown.cpp 130, 191).
ExpiryIsStable ==
    [][ cdPc = "object" /\ cdObject' = cdObject =>
            /\ isTimeout => isTimeout'
            /\ ~isTimeout' => getTimeLeft' <= getTimeLeft ]_countDownVars
=============================================================================
