------------------------------ MODULE Timespec ------------------------------
(***************************************************************************)
(* test_cpp/src/ts_util.c: sums, differences and the order of dates that   *)
(* are kept as seconds and nanoseconds.                                    *)
(***************************************************************************)
EXTENDS Integers

CONSTANT NsPerSec \* nanoseconds of a second, 1000000000 in the code

ASSUME TimespecAssumption == NsPerSec \in Nat \ {0}

\* What clock_gettime() returns: seconds, and less than a second.
Timespecs == [sec : Nat, nsec : 0..NsPerSec - 1]
Zero == [sec |-> 0, nsec |-> 0]

ts_Add(a, b) ==
    LET sec == a.sec + b.sec
        nsec == a.nsec + b.nsec
    IN  IF nsec >= NsPerSec THEN [sec |-> sec + 1, nsec |-> nsec - NsPerSec]
                            ELSE [sec |-> sec, nsec |-> nsec]

ts_Compare(a, b) ==
    CASE a.sec < b.sec -> -1
      [] a.sec > b.sec -> 1
      [] a.sec = b.sec /\ a.nsec < b.nsec -> -1
      [] a.sec = b.sec /\ a.nsec > b.nsec -> 1
      [] OTHER -> 0

ts_IsGreaterThan(a, b) == ts_Compare(a, b) = 1
ts_IsLessThan(a, b) == ts_Compare(a, b) = -1
ts_IsEqual(a, b) == ts_Compare(a, b) = 0

\* Mutant: no second is borrowed.
SubtractNoBorrow(a, b) ==
    IF a.sec < b.sec \/ (a.sec = b.sec /\ a.nsec <= b.nsec)
    THEN Zero
    ELSE [sec |-> a.sec - b.sec,
          nsec |-> IF a.nsec < b.nsec THEN a.nsec + NsPerSec - b.nsec
                                      ELSE a.nsec - b.nsec]

\* Mutant: what is left of a period that is over is not cut off at zero.
SubtractNoFloor(a, b) ==
    IF a.nsec < b.nsec
    THEN [sec |-> a.sec - b.sec - 1, nsec |-> a.nsec + NsPerSec - b.nsec]
    ELSE [sec |-> a.sec - b.sec, nsec |-> a.nsec - b.nsec]

\* The difference, or zero if b is later than a.
ts_Subtract(a, b) ==
    IF a.sec < b.sec \/ (a.sec = b.sec /\ a.nsec <= b.nsec)
    THEN Zero
    ELSE IF a.nsec < b.nsec
         THEN [sec |-> a.sec - b.sec - 1, nsec |-> a.nsec + NsPerSec - b.nsec]
         ELSE [sec |-> a.sec - b.sec, nsec |-> a.nsec - b.nsec]

\* The reference: a date as one number of nanoseconds.
Nanoseconds(t) == t.sec * NsPerSec + t.nsec
=============================================================================
