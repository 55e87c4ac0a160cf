-------------------------- MODULE Timespec_proofs --------------------------
(***************************************************************************)
(* The operations of ts_util.c against the number of nanoseconds that a    *)
(* date stands for, for every length of a second.                          *)
(***************************************************************************)
EXTENDS Timespec, TLAPS

\* Products with the length of a second, which are not linear.
LEMMA Distribute ==
    ASSUME NEW x \in Int, NEW y \in Int, NEW n \in Int
    PROVE  /\ (x + y) * n = x * n + y * n
           /\ (x - y) * n = x * n - y * n
           /\ (x + y + 1) * n = x * n + y * n + n
           /\ (x - y - 1) * n = x * n - y * n - n
  OBVIOUS

\* A later second counts for at least NsPerSec more nanoseconds.
LEMMA LaterSecond ==
    ASSUME NEW x \in Nat, NEW y \in Nat, x < y
    PROVE  x * NsPerSec + NsPerSec <= y * NsPerSec
  <1>1. NsPerSec \in Nat /\ NsPerSec > 0
    BY TimespecAssumption
  <1>2. PICK d \in Nat : y = x + 1 + d
    <2>1. y - x - 1 \in Nat /\ y = x + 1 + (y - x - 1)
      OBVIOUS
    <2> QED BY <2>1
  <1>3. y * NsPerSec = x * NsPerSec + NsPerSec + d * NsPerSec
    BY <1>1, <1>2
  <1>4. d * NsPerSec >= 0 /\ x * NsPerSec \in Int
    BY <1>1
  <1> QED BY <1>1, <1>3, <1>4

\* ts_Add yields a proper date (one carry is enough) that stands for the sum.
THEOREM AddIsSum ==
    ASSUME NEW a \in Timespecs, NEW b \in Timespecs
    PROVE  /\ ts_Add(a, b) \in Timespecs
           /\ Nanoseconds(ts_Add(a, b)) = Nanoseconds(a) + Nanoseconds(b)
  <1>1. NsPerSec \in Nat /\ NsPerSec > 0
    BY TimespecAssumption
  <1>2. /\ a.sec \in Nat /\ b.sec \in Nat /\ a.nsec \in 0..NsPerSec - 1
        /\ b.nsec \in 0..NsPerSec - 1
    BY DEF Timespecs
  <1>3. /\ (a.sec + b.sec) * NsPerSec = a.sec * NsPerSec + b.sec * NsPerSec
        /\ (a.sec + b.sec + 1) * NsPerSec
             = a.sec * NsPerSec + b.sec * NsPerSec + NsPerSec
        /\ a.sec * NsPerSec \in Int /\ b.sec * NsPerSec \in Int
    BY <1>1, <1>2, Distribute
  <1>4. CASE a.nsec + b.nsec >= NsPerSec
    <2>1. ts_Add(a, b) = [sec |-> a.sec + b.sec + 1,
                          nsec |-> a.nsec + b.nsec - NsPerSec]
      BY <1>1, <1>2, <1>4 DEF ts_Add
    <2>2. ts_Add(a, b) \in Timespecs
      BY <1>1, <1>2, <1>4, <2>1 DEF Timespecs
    <2> QED BY <1>1, <1>2, <1>3, <2>1, <2>2 DEF Nanoseconds
  <1>5. CASE ~(a.nsec + b.nsec >= NsPerSec)
    <2>1. ts_Add(a, b) = [sec |-> a.sec + b.sec, nsec |-> a.nsec + b.nsec]
      BY <1>1, <1>2, <1>5 DEF ts_Add
    <2>2. ts_Add(a, b) \in Timespecs
      BY <1>1, <1>2, <1>5, <2>1 DEF Timespecs
    <2> QED BY <1>1, <1>2, <1>3, <2>1, <2>2 DEF Nanoseconds
  <1> QED BY <1>4, <1>5

\* ts_Compare orders dates as their nanoseconds are ordered.
THEOREM CompareIsOrder ==
    ASSUME NEW a \in Timespecs, NEW b \in Timespecs
    PROVE  /\ ts_IsLessThan(a, b) <=> Nanoseconds(a) < Nanoseconds(b)
           /\ ts_IsEqual(a, b) <=> Nanoseconds(a) = Nanoseconds(b)
           /\ ts_IsGreaterThan(a, b) <=> Nanoseconds(a) > Nanoseconds(b)
  <1>1. NsPerSec \in Nat /\ NsPerSec > 0
    BY TimespecAssumption
  <1>2. /\ a.sec \in Nat /\ b.sec \in Nat /\ a.nsec \in 0..NsPerSec - 1
        /\ b.nsec \in 0..NsPerSec - 1
    BY DEF Timespecs
  <1>3. /\ a.sec * NsPerSec \in Int /\ b.sec * NsPerSec \in Int
    BY <1>1, <1>2
  <1>4. CASE a.sec < b.sec
    <2>1. ts_Compare(a, b) = -1
      BY <1>2, <1>4 DEF ts_Compare
    <2>2. a.sec * NsPerSec + NsPerSec <= b.sec * NsPerSec
      BY <1>2, <1>4, LaterSecond
    <2>3. Nanoseconds(a) < Nanoseconds(b)
      BY <1>1, <1>2, <1>3, <2>2 DEF Nanoseconds
    <2> QED BY <1>1, <1>2, <1>3, <2>1, <2>3
         DEF ts_IsLessThan, ts_IsEqual, ts_IsGreaterThan, Nanoseconds
  <1>5. CASE a.sec > b.sec
    <2>1. ts_Compare(a, b) = 1
      BY <1>2, <1>5 DEF ts_Compare
    <2>2. b.sec * NsPerSec + NsPerSec <= a.sec * NsPerSec
      BY <1>2, <1>5, LaterSecond
    <2>3. Nanoseconds(a) > Nanoseconds(b)
      BY <1>1, <1>2, <1>3, <2>2 DEF Nanoseconds
    <2> QED BY <1>1, <1>2, <1>3, <2>1, <2>3
         DEF ts_IsLessThan, ts_IsEqual, ts_IsGreaterThan, Nanoseconds
  <1>6. CASE a.sec = b.sec
    <2>1. ts_Compare(a, b) = IF a.nsec < b.nsec THEN -1
                             ELSE IF a.nsec > b.nsec THEN 1 ELSE 0
      BY <1>2, <1>6 DEF ts_Compare
    <2> QED BY <1>1, <1>2, <1>3, <1>6, <2>1
         DEF ts_IsLessThan, ts_IsEqual, ts_IsGreaterThan, Nanoseconds
  <1> QED BY <1>2, <1>4, <1>5, <1>6

\* ts_Subtract yields a proper date that stands for the difference, or zero
\* when there is nothing left.
THEOREM SubtractIsDifference ==
    ASSUME NEW a \in Timespecs, NEW b \in Timespecs
    PROVE  /\ ts_Subtract(a, b) \in Timespecs
           /\ Nanoseconds(a) <= Nanoseconds(b) => ts_Subtract(a, b) = Zero
           /\ Nanoseconds(a) >= Nanoseconds(b) =>
                Nanoseconds(ts_Subtract(a, b)) = Nanoseconds(a) - Nanoseconds(b)
  <1>1. NsPerSec \in Nat /\ NsPerSec > 0
    BY TimespecAssumption
  <1>2. /\ a.sec \in Nat /\ b.sec \in Nat /\ a.nsec \in 0..NsPerSec - 1
        /\ b.nsec \in 0..NsPerSec - 1
    BY DEF Timespecs
  <1>3. /\ (a.sec - b.sec) * NsPerSec = a.sec * NsPerSec - b.sec * NsPerSec
        /\ (a.sec - b.sec - 1) * NsPerSec
             = a.sec * NsPerSec - b.sec * NsPerSec - NsPerSec
        /\ a.sec * NsPerSec \in Int /\ b.sec * NsPerSec \in Int
    BY <1>1, <1>2, Distribute
  <1>z. Zero \in Timespecs /\ Nanoseconds(Zero) = 0
    BY <1>1 DEF Zero, Timespecs, Nanoseconds
  <1>4. CASE a.sec < b.sec
    <2>1. ts_Subtract(a, b) = Zero
      BY <1>4 DEF ts_Subtract
    <2>2. a.sec * NsPerSec + NsPerSec <= b.sec * NsPerSec
      BY <1>2, <1>4, LaterSecond
    <2>3. Nanoseconds(a) < Nanoseconds(b) /\ Nanoseconds(a) \in Int
                                          /\ Nanoseconds(b) \in Int
      BY <1>1, <1>2, <1>3, <2>2 DEF Nanoseconds
    <2> QED BY <1>z, <2>1, <2>3
  <1>5. CASE a.sec = b.sec /\ a.nsec <= b.nsec
    <2>1. ts_Subtract(a, b) = Zero
      BY <1>5 DEF ts_Subtract
    <2>2. Nanoseconds(a) <= Nanoseconds(b) /\ Nanoseconds(a) \in Int
                                           /\ Nanoseconds(b) \in Int
      BY <1>1, <1>2, <1>3, <1>5 DEF Nanoseconds
    <2> QED BY <1>z, <2>1, <2>2
  <1>6. CASE a.sec = b.sec /\ a.nsec > b.nsec
    <2>1. ts_Subtract(a, b) = [sec |-> a.sec - b.sec, nsec |-> a.nsec - b.nsec]
      BY <1>1, <1>2, <1>6 DEF ts_Subtract
    <2>2. ts_Subtract(a, b) \in Timespecs
      BY <1>1, <1>2, <1>6, <2>1 DEF Timespecs
    <2>3. Nanoseconds(a) > Nanoseconds(b)
      BY <1>1, <1>2, <1>3, <1>6 DEF Nanoseconds
    <2>4. Nanoseconds(ts_Subtract(a, b)) = Nanoseconds(a) - Nanoseconds(b)
      BY <1>1, <1>2, <1>3, <1>6, <2>1 DEF Nanoseconds
    <2>5. Nanoseconds(a) \in Int /\ Nanoseconds(b) \in Int
      BY <1>1, <1>2, <1>3 DEF Nanoseconds
    <2> QED BY <2>2, <2>3, <2>4, <2>5
  <1>7. CASE a.sec > b.sec
    <2>1. b.sec * NsPerSec + NsPerSec <= a.sec * NsPerSec
      BY <1>2, <1>7, LaterSecond
    <2>2. Nanoseconds(a) > Nanoseconds(b) /\ Nanoseconds(a) \in Int
                                          /\ Nanoseconds(b) \in Int
      BY <1>1, <1>2, <1>3, <2>1 DEF Nanoseconds
    <2>3. CASE a.nsec < b.nsec
      <3>1. ts_Subtract(a, b) = [sec |-> a.sec - b.sec - 1,
                                 nsec |-> a.nsec + NsPerSec - b.nsec]
        BY <1>1, <1>2, <1>7, <2>3 DEF ts_Subtract
      <3>2. ts_Subtract(a, b) \in Timespecs
        BY <1>1, <1>2, <1>7, <2>3, <3>1 DEF Timespecs
      <3>3. Nanoseconds(ts_Subtract(a, b)) = Nanoseconds(a) - Nanoseconds(b)
        BY <1>1, <1>2, <1>3, <3>1 DEF Nanoseconds
      <3> QED BY <2>2, <3>2, <3>3
    <2>4. CASE ~(a.nsec < b.nsec)
      <3>1. ts_Subtract(a, b) = [sec |-> a.sec - b.sec,
                                 nsec |-> a.nsec - b.nsec]
        BY <1>1, <1>2, <1>7, <2>4 DEF ts_Subtract
      <3>2. ts_Subtract(a, b) \in Timespecs
        BY <1>1, <1>2, <1>7, <2>4, <3>1 DEF Timespecs
      <3>3. Nanoseconds(ts_Subtract(a, b)) = Nanoseconds(a) - Nanoseconds(b)
        BY <1>1, <1>2, <1>3, <3>1 DEF Nanoseconds
      <3> QED BY <2>2, <3>2, <3>3
    <2> QED BY <2>3, <2>4
  <1> QED BY <1>2, <1>4, <1>5, <1>6, <1>7
=============================================================================
