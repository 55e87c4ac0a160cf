---------------------------- MODULE AddressText ----------------------------
(***************************************************************************)
(* test_cpp/src/Network.c: Net_inet_pton() checks an IPv6 text with        *)
(* inet_pton(), takes it apart into its eight fields with getcolon(), and  *)
(* looks for the last bit that is set.                                     *)
(*                                                                         *)
(* A text is a sequence of colons and of the groups of digits between      *)
(* them, a group being the number it spells.  The texts are those of       *)
(* hexadecimal groups: for a dotted tail, and for an IPv4 address,         *)
(* getcolon() copies more than the five bytes it has and may run past the  *)
(* end of the text.                                                        *)
(***************************************************************************)
EXTENDS Integers, Sequences, FiniteSets

CONSTANTS
    NaGroups,   \* the groups that texts are made of
    NaGarbage   \* what the stack may hold where Str is: a sequence of nibbles,
                \* or Unreadable where a character is no digit

Colon == -1
Unreadable == -1
FieldValues == 0..(2^16 - 1)

ASSUME AddressAssumption ==
    /\ NaGroups \subseteq FieldValues
    /\ NaGarbage \subseteq Seq(-1..15)

VARIABLES
    naPc,     \* "off", "fields", "bits", "done"
    naText,
    naFields, \* the fields that were printed
    naStr,    \* Str, as nibbles
    naBefore, \* history: how many of them were there before
    vNbBit

addressVars == <<naPc, naText, naFields, naStr, naBefore, vNbBit>>

\* Of hexadecimal texts inet_pton() takes those of eight groups, and those of at
\* most seven around one "::".
WithColons(groups) ==
    [i \in 1..(2 * Len(groups) - 1) |-> IF i % 2 = 1 THEN groups[(i + 1) \div 2] ELSE Colon]
Joined(groups) == IF groups = <<>> THEN <<>> ELSE WithColons(groups)

AddressInit ==
    /\ naPc = "off"
    /\ naText = <<>>
    /\ naFields = <<>>
    /\ naStr = <<>>
    /\ naBefore = 0
    /\ vNbBit = 0

-----------------------------------------------------------------------------
(* getcolon().                                                              *)

DoubleAt(addr) ==
    {i \in 1..(Len(addr) - 1) : addr[i] = Colon /\ addr[i + 1] = Colon}
compressed(addr) == DoubleAt(addr) # {}
FirstDouble(addr) ==
    CHOOSE i \in DoubleAt(addr) : \A j \in DoubleAt(addr) : i <= j
Colons(addr, from, to) == Cardinality({i \in from..to : addr[i] = Colon})

\* Colons before the first "::", and after it.
cstart(addr) == Colons(addr, 1, FirstDouble(addr) - 1)
cend(addr) ==
    LET n == Len(addr)
        after == Colons(addr, FirstDouble(addr) + 2, n)
    IN  IF addr[n] = Colon /\ addr[n - 1] # Colon THEN after - 1 ELSE after

\* Mutant: the fields after "::" begin one too late.
TailFieldLate(addr) == 8 - cend(addr)

\* The first field after "::"; max is 7 for a text without dots.
TailField(addr) == 7 - cend(addr)

\* Where the text goes on after n colons from a position on.
AfterColons(addr, from, n) ==
    CHOOSE y \in from..(Len(addr) + 1) :
        /\ Colons(addr, from, y - 1) = n
        /\ n > 0 => addr[y - 1] = Colon
        /\ n = 0 => y = from

\* An empty group is 0.
GroupAt(addr, y) == IF y <= Len(addr) /\ addr[y] # Colon THEN addr[y] ELSE 0

getcolon(addr, pos) ==
    IF ~compressed(addr) THEN GroupAt(addr, AfterColons(addr, 1, pos))
    ELSE IF pos >= TailField(addr)
         THEN GroupAt(addr, AfterColons(addr, FirstDouble(addr) + 2, pos - TailField(addr)))
         ELSE IF pos <= cstart(addr) THEN GroupAt(addr, AfterColons(addr, 1, pos))
              ELSE 0

-----------------------------------------------------------------------------
(* Net_inet_pton().                                                         *)

\* Without an address, or with one that is refused, it ends.  An IPv4 address and
\* a text with a dotted tail are not among the inputs.
Net_inet_pton ==
    /\ naPc = "off"
    /\ \/ \E groups \in [1..8 -> NaGroups] :
             naText' = Joined(groups) /\ naPc' = "fields"
       \/ \E a, b \in 0..7 : a + b <= 7 /\
             \E before \in [1..a -> NaGroups], after \in [1..b -> NaGroups] :
                 /\ naText' = Joined(before) \o <<Colon, Colon>> \o Joined(after)
                 /\ naPc' = "fields"
       \/ UNCHANGED naText /\ naPc' = "done"
    /\ UNCHANGED <<naFields, naStr, naBefore, vNbBit>>

\* The four digits of %02X%02X.
Nibbles(v) == <<v \div 4096, (v \div 256) % 16, (v \div 16) % 16, v % 16>>

\* strcat() puts the digits behind whatever Str holds.
NetFields ==
    /\ naPc = "fields" /\ naPc' = "bits"
    /\ naFields' = [ii \in 1..8 |-> getcolon(naText, ii - 1)]
    /\ \E garbage \in NaGarbage :
          /\ naBefore' = Len(garbage)
          /\ naStr' = garbage \o [i \in 1..32 |->
                 Nibbles(naFields'[(i + 3) \div 4])[((i - 1) % 4) + 1]]
    /\ UNCHANGED <<naText, vNbBit>>

\* A character that is no digit leaves vChar as the one before left it.
vChar[ii \in 0..32] ==
    IF ii = 0 THEN 0
    ELSE IF naStr[ii] = Unreadable THEN vChar[ii - 1] ELSE naStr[ii]

\* Mutant: the bits of a digit are numbered from its last one.
BitNumberReversed(ii, jj) == (ii - 1) * 4 + (3 - jj) + 1

\* The number of bit jj of the digit ii, and whether it is set.
BitNumber(ii, jj) == (ii - 1) * 4 + jj + 1
IsSet(nibble, jj) == (nibble \div (2^(3 - jj))) % 2 = 1

NetBits ==
    /\ naPc = "bits" /\ naPc' = "done"
    /\ LET numbers == {BitNumber(x[1], x[2]) : x \in
                          {y \in (1..32) \X (0..3) : IsSet(vChar[y[1]], y[2])}}
       IN  vNbBit' = IF numbers = {} THEN 0
                     ELSE CHOOSE n \in numbers : \A m \in numbers : m <= n
    /\ UNCHANGED <<naText, naFields, naStr, naBefore>>

AddressNext == NetFields \/ NetBits

-----------------------------------------------------------------------------
(* Properties.                                                              *)

\* The values the variables take.
AddressTypeOK ==
    /\ naPc \in {"off", "fields", "bits", "done"}
    /\ naText \in Seq({Colon} \cup NaGroups)
    /\ naFields \in Seq(FieldValues)
    /\ vNbBit \in 0..128

\* What a text stands for: in a piece without "::" every second place is a
\* group, and "::" stands for the zeros that are missing.
GroupsOf(text) == [i \in 1..((Len(text) + 1) \div 2) |-> text[2 * i - 1]]
Expanded(text) ==
    IF ~compressed(text) THEN GroupsOf(text)
    ELSE LET before == GroupsOf(SubSeq(text, 1, FirstDouble(text) - 1))
             after == GroupsOf(SubSeq(text, FirstDouble(text) + 2, Len(text)))
         IN  before \o [i \in 1..(8 - Len(before) - Len(after)) |-> 0] \o after
FieldBits(v) == {b \in 1..16 : (v \div (2^(16 - b))) % 2 = 1}
LastBit(fields) ==
    LET all == UNION {{16 * (f - 1) + b : b \in FieldBits(fields[f])} : f \in 1..8}
    IN  IF all = {} THEN 0 ELSE CHOOSE n \in all : \A m \in all : m <= n

\* The fields printed are those of the text, wherever "::" stands and however
\* many groups it stands for; the bit found is the last one set, unless the
\* buffer that strcat() appends to held something before
\* (Network.c 107, 114, 137, 153-276).
ExpansionIsRight ==
    /\ naPc \in {"bits", "done"} /\ naText # <<>> => naFields = Expanded(naText)
    /\ naPc = "done" /\ naText # <<>> /\ naBefore = 0 => vNbBit = LastBit(naFields)
=============================================================================
