------------------------- MODULE AddressText_proofs -------------------------
(***************************************************************************)
(* Taking an IPv6 text of hexadecimal groups apart, whatever the stack     *)
(* holds: where getcolon() arrives by counting colons is where the group   *)
(* of a field stands in the text, and the last bit that is set is found    *)
(* from the digits as it is from the fields.                               *)
(***************************************************************************)
EXTENDS AddressText, FiniteSetTheorems, TLAPS

-----------------------------------------------------------------------------
(* Counting colons where groups and colons alternate.                       *)

Alternates(text, from, to) ==
    \A i \in from..to : text[i] = Colon <=> (i - from) % 2 = 1

\* There are half as many colons as places.
LEMMA ColonsOfPiece ==
    ASSUME NEW text, NEW from \in Nat, NEW to \in Int, to >= from - 1,
           Alternates(text, from, to)
    PROVE  Colons(text, from, to) = (to - from + 1) \div 2
<1> DEFINE k == (to - from + 1) \div 2
           colons == {i \in from..to : text[i] = Colon}
           place == [j \in 1..k |-> from - 1 + 2 * j]
<1>1. k \in Nat /\ 2 * k <= to - from + 1 /\ to - from + 1 <= 2 * k + 1
  OBVIOUS
<1>2. ASSUME NEW j \in 1..k PROVE place[j] \in colons
  <2>1. place[j] = from - 1 + 2 * j /\ place[j] \in from..to
    BY <1>1
  <2>2. (place[j] - from) % 2 = 1
    BY <2>1
  <2> QED
    BY <2>1, <2>2 DEF Alternates
<1>3. ASSUME NEW i \in colons PROVE \E j \in 1..k : place[j] = i
  <2>1. i \in from..to /\ (i - from) % 2 = 1
    BY DEF Alternates
  <2>2. (i - from + 1) \div 2 \in 1..k
    BY <1>1, <2>1
  <2>3. from - 1 + 2 * ((i - from + 1) \div 2) = i
    BY <2>1
  <2> QED
    BY <2>2, <2>3
<1>4. place \in Bijection(1..k, colons)
  <2>1. place \in [1..k -> colons]
    BY <1>2
  <2>2. \A i, j \in 1..k : place[i] = place[j] => i = j
    BY <1>1
  <2> QED
    BY <1>3, <2>1, <2>2 DEF Bijection, Injection, Surjection, IsInjective
<1>5. Cardinality(colons) = k
  <2> HIDE DEF k, colons, place
  <2> QED
    BY <1>1, <1>4, FS_CountingElements DEF ExistsBijection
<1> QED
  BY <1>5 DEF Colons

\* n colons on from the start of a piece, the text goes on two places for
\* each of them: no other place has n colons before it and a colon next to it.
LEMMA PlaceAfterColons ==
    ASSUME NEW text, Len(text) \in Nat, NEW n \in Nat, NEW from \in Nat,
           from + 2 * n <= Len(text) + 1,
           Alternates(text, from, from + 2 * n - 1)
    PROVE  AfterColons(text, from, n) = from + 2 * n
<1> DEFINE Stands(y) ==
             /\ Colons(text, from, y - 1) = n
             /\ n > 0 => text[y - 1] = Colon
             /\ n = 0 => y = from
           places == from..(Len(text) + 1)
<1>1. from + 2 * n \in places /\ Stands(from + 2 * n)
  <2>1. Colons(text, from, from + 2 * n - 1) = (2 * n) \div 2
    BY ColonsOfPiece
  <2>2. n > 0 => text[from + 2 * n - 1] = Colon
    <3>1. n > 0 => /\ from + 2 * n - 1 \in from..(from + 2 * n - 1)
                   /\ (from + 2 * n - 1 - from) % 2 = 1
      OBVIOUS
    <3> QED
      BY <3>1 DEF Alternates
  <2> QED
    BY <2>1, <2>2
<1>2. ASSUME NEW x \in places, NEW y \in places, Stands(x), Stands(y), x < y
      PROVE  FALSE
  <2> DEFINE upTo(z) == {i \in from..(z - 1) : text[i] = Colon}
  <2>1. n > 0
    BY <1>2
  <2>2. y - 1 \in upTo(y) /\ y - 1 \notin upTo(x)
    BY <1>2, <2>1
  <2>3. upTo(x) \subseteq upTo(y)
    BY <1>2
  <2>4. IsFiniteSet(upTo(y))
    <3>1. IsFiniteSet(from..(y - 1))
      BY FS_Interval
    <3> QED
      BY <3>1, FS_Subset
  <2>5. Cardinality(upTo(x)) = n /\ Cardinality(upTo(y)) = n
    BY <1>2 DEF Colons
  <2> HIDE DEF upTo
  <2>6. upTo(y) = upTo(x)
    BY <2>3, <2>4, <2>5, FS_Subset
  <2> QED
    BY <2>2, <2>6
<1>3. \A y \in places : Stands(y) => y = from + 2 * n
  BY <1>1, <1>2
<1>4. AfterColons(text, from, n) = CHOOSE y \in places : Stands(y)
  BY Zenon DEF AfterColons
<1> HIDE DEF Stands, places
<1> QED
  BY <1>1, <1>3, <1>4

-----------------------------------------------------------------------------
(* The IPv6 texts of hexadecimal groups that inet_pton() takes.             *)

Elements == {Colon} \cup NaGroups

FullText(text) == \E groups \in [1..8 -> NaGroups] : text = Joined(groups)
ShortText(text) ==
    \E a, b \in 0..7 : a + b <= 7 /\
        \E before \in [1..a -> NaGroups], after \in [1..b -> NaGroups] :
            text = Joined(before) \o <<Colon, Colon>> \o Joined(after)

\* A group is the number of a field, and no colon.
LEMMA GroupsAreFields ==
    NaGroups \subseteq FieldValues /\ Colon \notin NaGroups /\ 0 \in FieldValues
<1>1. NaGroups \subseteq FieldValues
  BY AddressAssumption
<1>2. Colon \notin FieldValues /\ 0 \in FieldValues
  <2>1. 2^16 = 65536
    OBVIOUS
  <2> QED
    BY <2>1 DEF Colon, FieldValues
<1> QED
  BY <1>1, <1>2, Zenon

\* Every second number is odd.
LEMMA Parity ==
    ASSUME NEW d \in Int
    PROVE  /\ d % 2 \in {0, 1}
           /\ d % 2 = 0 <=> (d + 1) % 2 = 1
           /\ (2 * d) % 2 = 0 /\ (2 * d + 1) % 2 = 1
           /\ d % 2 = 1 => 2 * ((d + 1) \div 2) - 1 = d
  OBVIOUS

\* The places of a text around two elements that are the same.
LEMMA AroundDouble ==
    ASSUME NEW S, NEW s \in Seq(S), NEW t \in Seq(S), NEW c \in S,
           NEW text, text = s \o <<c, c>> \o t
    PROVE  /\ text \in Seq(S) /\ Len(text) = Len(s) + 2 + Len(t)
           /\ \A i \in 1..Len(s) : text[i] = s[i]
           /\ text[Len(s) + 1] = c /\ text[Len(s) + 2] = c
           /\ \A i \in 1..Len(t) : text[Len(s) + 2 + i] = t[i]
           /\ SubSeq(text, 1, Len(s)) = s
           /\ SubSeq(text, Len(s) + 3, Len(text)) = t
  OBVIOUS

\* A piece begins with a group, and no two colons are neighbours in it.
LEMMA NoTwoColons ==
    ASSUME NEW text, NEW from \in Int, NEW to \in Int, Alternates(text, from, to)
    PROVE  /\ from <= to => text[from] # Colon
           /\ \A i \in from..(to - 1) : ~(text[i] = Colon /\ text[i + 1] = Colon)
<1>1. from <= to => text[from] # Colon
  <2>1. from <= to => from \in from..to /\ (from - from) % 2 # 1
    OBVIOUS
  <2> QED
    BY <2>1 DEF Alternates
<1>2. ASSUME NEW i \in from..(to - 1), text[i] = Colon, text[i + 1] = Colon
      PROVE  FALSE
  <2>1. i \in from..to /\ i + 1 \in from..to
    OBVIOUS
  <2>2. (i - from) % 2 = 1
    BY <1>2, <2>1 DEF Alternates
  <2>3. (i + 1 - from) % 2 = 1
    BY <1>2, <2>1 DEF Alternates
  <2>4. i - from \in Int /\ i + 1 - from = (i - from) + 1
    OBVIOUS
  <2>5. (i - from) % 2 = 0 \/ (i - from + 1) % 2 = 0
    BY <2>4
  <2> QED
    BY <2>2, <2>3, <2>4, <2>5
<1> QED
  BY <1>1, <1>2

\* The first part of a piece is a piece.
LEMMA ShorterPiece ==
    ASSUME NEW text, NEW from \in Int, NEW to \in Int, NEW less \in Int,
           Alternates(text, from, to), less <= to
    PROVE  Alternates(text, from, less)
<1>1. from..less \subseteq from..to
  OBVIOUS
<1> QED
  BY <1>1, Zenon DEF Alternates

\* Between pieces whose first element is a group only "::" is a double colon.
LEMMA OneDouble ==
    ASSUME NEW text, Len(text) \in Nat, NEW p \in 1..(Len(text) - 1),
           text[p] = Colon, text[p + 1] = Colon,
           p > 1 => text[p - 1] # Colon,
           Alternates(text, 1, p - 1),
           Alternates(text, p + 2, Len(text))
    PROVE  DoubleAt(text) = {p} /\ FirstDouble(text) = p
<1>1. ASSUME NEW i \in DoubleAt(text), i # p PROVE FALSE
  <2>1. i \in 1..(Len(text) - 1) /\ text[i] = Colon /\ text[i + 1] = Colon
    BY DEF DoubleAt
  <2>2. CASE i < p - 1
    <3>1. i \in 1..(p - 1 - 1)
      BY <2>1, <2>2
    <3> QED
      BY <2>1, <3>1, NoTwoColons
  <2>3. CASE i = p - 1
    BY <2>1, <2>3
  <2>4. CASE i = p + 1
    <3>1. p + 2 <= Len(text) /\ i + 1 = p + 2
      BY <2>1, <2>4
    <3> QED
      BY <2>1, <3>1, NoTwoColons
  <2>5. CASE i > p + 1
    <3>1. i \in (p + 2)..(Len(text) - 1)
      BY <2>1, <2>5
    <3> QED
      BY <2>1, <3>1, NoTwoColons
  <2> QED
    BY <1>1, <2>1, <2>2, <2>3, <2>4, <2>5
<1>2. p \in DoubleAt(text)
  BY DEF DoubleAt
<1>3. DoubleAt(text) = {p}
  BY <1>1, <1>2
<1> QED
  BY <1>3 DEF FirstDouble

\* Groups and colons alternate in a piece of text.
LEMMA JoinedPiece ==
    ASSUME NEW n \in 0..8, NEW groups \in [1..n -> NaGroups]
    PROVE  /\ Joined(groups) \in Seq(Elements)
           /\ Len(Joined(groups)) = IF n = 0 THEN 0 ELSE 2 * n - 1
           /\ \A i \in 1..n : Joined(groups)[2 * i - 1] = groups[i]
           /\ \A i \in 1..Len(Joined(groups)) :
                 Joined(groups)[i] = Colon <=> i % 2 = 0
<1>1. groups \in Seq(NaGroups) /\ Len(groups) = n
  OBVIOUS
<1>2. CASE n = 0
  BY <1>1, <1>2 DEF Joined
<1>3. CASE n > 0
  <2>1. Joined(groups) = [i \in 1..(2 * n - 1) |->
                            IF i % 2 = 1 THEN groups[(i + 1) \div 2] ELSE Colon]
    BY <1>1, <1>3 DEF Joined, WithColons
  <2>2. \A i \in 1..(2 * n - 1) : i % 2 = 1 => (i + 1) \div 2 \in 1..n
    OBVIOUS
  <2>3. \A i \in 1..(2 * n - 1) : Joined(groups)[i] \in Elements
    BY <2>1, <2>2 DEF Elements
  <2>4. Len(Joined(groups)) = 2 * n - 1 /\ Joined(groups) \in Seq(Elements)
    BY <1>3, <2>1, <2>3
  <2>5. ASSUME NEW i \in 1..n PROVE Joined(groups)[2 * i - 1] = groups[i]
    <3>1. /\ 2 * i - 1 \in 1..(2 * n - 1) /\ (2 * i - 1) % 2 = 1
          /\ (2 * i - 1 + 1) \div 2 = i
      OBVIOUS
    <3> QED
      BY <2>1, <3>1
  <2>6. ASSUME NEW i \in 1..(2 * n - 1)
        PROVE  Joined(groups)[i] = Colon <=> i % 2 = 0
    <3>1. CASE i % 2 = 1
      <4>1. Joined(groups)[i] = groups[(i + 1) \div 2]
        BY <2>1, <3>1
      <4>2. groups[(i + 1) \div 2] \in NaGroups
        BY <2>2, <3>1
      <4>3. Joined(groups)[i] # Colon
        BY <4>1, <4>2, GroupsAreFields
      <4> QED
        BY <3>1, <4>3
    <3>2. CASE i % 2 # 1
      <4>1. i % 2 = 0
        BY <3>2, Parity
      <4> QED
        BY <2>1, <3>2, <4>1
    <3> QED
      BY <3>1, <3>2
  <2> QED
    BY <1>3, <2>4, <2>5, <2>6
<1> QED
  BY <1>2, <1>3

\* A text with "::", the place of its first colon, and the a groups before and
\* the b groups after it.
Split(text, p, before, a, after, b) ==
    /\ a + b <= 7
    /\ before \in [1..a -> NaGroups] /\ after \in [1..b -> NaGroups]
    /\ text = Joined(before) \o <<Colon, Colon>> \o Joined(after)
    /\ p = IF a = 0 THEN 1 ELSE 2 * a

\* What stands where in such a text.
Places(text, p, before, a, after, b) ==
    /\ text \in Seq(Elements)
    /\ Len(text) = p + 1 + (IF b = 0 THEN 0 ELSE 2 * b - 1)
    /\ DoubleAt(text) = {p} /\ FirstDouble(text) = p
    /\ SubSeq(text, 1, p - 1) = Joined(before)
    /\ SubSeq(text, p + 2, Len(text)) = Joined(after)
    /\ text[p] = Colon /\ text[p + 1] = Colon
    /\ Alternates(text, 1, p - 1)
    /\ Alternates(text, p + 2, Len(text))
    /\ \A i \in 1..a : text[2 * i - 1] = before[i]
    /\ \A i \in 1..b : text[p + 2 * i] = after[i]

\* In a text of a groups, "::" and b groups there is one "::", the groups
\* before it stand at the odd places and those after it two places apart.
LEMMA ShortTextPlaces ==
    ASSUME NEW a \in 0..7, NEW b \in 0..7, NEW text, NEW p, NEW before, NEW after,
           Split(text, p, before, a, after, b)
    PROVE  Places(text, p, before, a, after, b)
<1> DEFINE J == Joined(before)
           K == Joined(after)
<1>1. /\ a \in 0..8 /\ b \in 0..8 /\ p \in 1..14
      /\ p - 1 = IF a = 0 THEN 0 ELSE 2 * a - 1
      /\ p > 1 => a > 0
      /\ a > 0 => p = 2 * a
  BY DEF Split
<1>types. before \in [1..a -> NaGroups] /\ after \in [1..b -> NaGroups]
  BY DEF Split
<1>2. /\ J \in Seq(Elements) /\ Len(J) = p - 1
      /\ \A i \in 1..a : J[2 * i - 1] = before[i]
      /\ \A i \in 1..(p - 1) : J[i] = Colon <=> i % 2 = 0
  <2>1. /\ J \in Seq(Elements) /\ Len(J) = IF a = 0 THEN 0 ELSE 2 * a - 1
        /\ \A i \in 1..a : J[2 * i - 1] = before[i]
        /\ \A i \in 1..Len(J) : J[i] = Colon <=> i % 2 = 0
    BY <1>1, <1>types, JoinedPiece, Zenon
  <2>2. Len(J) = p - 1
    BY <1>1, <2>1, Zenon
  <2> QED
    BY <2>1, <2>2, Zenon
<1>3. /\ K \in Seq(Elements) /\ Len(K) = IF b = 0 THEN 0 ELSE 2 * b - 1
      /\ \A i \in 1..b : K[2 * i - 1] = after[i]
      /\ \A i \in 1..Len(K) : K[i] = Colon <=> i % 2 = 0
  BY <1>1, <1>types, JoinedPiece, Zenon
<1>4. text = J \o <<Colon, Colon>> \o K
  BY Zenon DEF Split
<1> HIDE DEF J, K
<1>5. /\ text \in Seq(Elements) /\ Len(text) = p + 1 + Len(K)
      /\ \A i \in 1..(p - 1) : text[i] = J[i]
      /\ text[p] = Colon /\ text[p + 1] = Colon
      /\ \A i \in 1..Len(K) : text[p + 1 + i] = K[i]
      /\ SubSeq(text, 1, p - 1) = J
      /\ SubSeq(text, p + 2, Len(text)) = K
  <2>1. Colon \in Elements
    BY DEF Elements
  <2>2. /\ text \in Seq(Elements) /\ Len(text) = Len(J) + 2 + Len(K)
        /\ \A i \in 1..Len(J) : text[i] = J[i]
        /\ text[Len(J) + 1] = Colon /\ text[Len(J) + 2] = Colon
        /\ \A i \in 1..Len(K) : text[Len(J) + 2 + i] = K[i]
        /\ SubSeq(text, 1, Len(J)) = J
        /\ SubSeq(text, Len(J) + 3, Len(text)) = K
    <3>1. J \in Seq(Elements) /\ K \in Seq(Elements)
      BY <1>2, <1>3
    <3> QED
      BY <1>4, <2>1, <3>1, AroundDouble
  <2>3. /\ Len(J) + 1 = p /\ Len(J) + 2 = p + 1 /\ Len(J) + 3 = p + 2
        /\ Len(K) \in Nat
    BY <1>1, <1>2, <1>3
  <2> QED
    BY <1>2, <2>2, <2>3, Zenon
<1>length. /\ Len(text) = p + 1 + Len(K)
           /\ Len(K) \in Nat /\ Len(text) \in Nat /\ p \in 1..(Len(text) - 1)
  <2>1. Len(K) \in Nat
    BY <1>3
  <2>2. Len(text) = p + 1 + Len(K)
    BY <1>5
  <2> QED
    BY <1>1, <2>1, <2>2
<1>6. Alternates(text, 1, p - 1)
  <2> SUFFICES ASSUME NEW i \in 1..(p - 1)
               PROVE  text[i] = Colon <=> (i - 1) % 2 = 1
    BY DEF Alternates
  <2>1. i % 2 = 0 <=> (i - 1) % 2 = 1
    <3>1. i - 1 \in Int /\ i - 1 + 1 = i /\ i \in Int
      BY <1>1
    <3> QED
      BY <3>1
  <2> QED
    BY <1>2, <1>5, <2>1
<1>7. Alternates(text, p + 2, Len(text))
  <2> SUFFICES ASSUME NEW i \in (p + 2)..Len(text)
               PROVE  text[i] = Colon <=> (i - (p + 2)) % 2 = 1
    BY DEF Alternates
  <2> DEFINE d == i - (p + 1)
  <2>1. d \in 1..Len(K) /\ p + 1 + d = i /\ i - (p + 2) = d - 1 /\ d \in Int
    <3>1. /\ i \in Int /\ p + 2 <= i /\ i <= p + 1 + Len(K)
          /\ p \in Int /\ Len(K) \in Int
      BY <1>1, <1>length
    <3> QED
      BY <3>1
  <2>2. text[i] = K[d]
    BY <1>5, <2>1, Zenon
  <2> HIDE DEF d
  <2>3. d % 2 = 0 <=> (d - 1) % 2 = 1
    BY <2>1
  <2> QED
    BY <1>3, <2>1, <2>2, <2>3
<1>8. p > 1 => text[p - 1] # Colon
  <2>1. p > 1 => p - 1 \in 1..(p - 1) /\ a > 0 /\ p - 1 - 1 = 2 * (a - 1)
    BY <1>1
  <2>2. (2 * (a - 1)) % 2 # 1
    OBVIOUS
  <2> QED
    BY <1>6, <2>1, <2>2 DEF Alternates
<1>9. DoubleAt(text) = {p} /\ FirstDouble(text) = p
  <2>1. text[p] = Colon /\ text[p + 1] = Colon
    BY <1>5
  <2> QED
    BY <1>length, <1>6, <1>7, <1>8, <2>1, OneDouble
<1>10. \A i \in 1..a : text[2 * i - 1] = before[i]
  <2>1. \A i \in 1..a : 2 * i - 1 \in 1..(p - 1)
    BY <1>1
  <2> QED
    BY <1>2, <1>5, <2>1, Zenon
<1>11. \A i \in 1..b : text[p + 2 * i] = after[i]
  <2> SUFFICES ASSUME NEW i \in 1..b PROVE text[p + 2 * i] = after[i]
    OBVIOUS
  <2>1. 2 * i - 1 \in 1..Len(K) /\ p + 1 + (2 * i - 1) = p + 2 * i
    BY <1>1, <1>3
  <2>2. text[p + 1 + (2 * i - 1)] = K[2 * i - 1] /\ K[2 * i - 1] = after[i]
    BY <1>3, <1>5, <2>1, Zenon
  <2> QED
    BY <2>1, <2>2, Zenon
<1> QED
  BY <1>3, <1>5, <1>6, <1>7, <1>9, <1>10, <1>11, Zenon DEF J, K, Places

-----------------------------------------------------------------------------
(* What getcolon() finds, and what a text stands for.                       *)

\* A text of eight groups has no "::", and every field is where it should be.
LEMMA FullTextExpands ==
    ASSUME NEW groups \in [1..8 -> NaGroups], NEW text, text = Joined(groups)
    PROVE  /\ text \in Seq(Elements) /\ text # <<>>
           /\ Expanded(text) = groups
           /\ \A pos \in 0..7 : getcolon(text, pos) = groups[pos + 1]
<1>1. /\ text \in Seq(Elements) /\ Len(text) = 15
      /\ \A i \in 1..8 : text[2 * i - 1] = groups[i]
      /\ \A i \in 1..15 : text[i] = Colon <=> i % 2 = 0
  BY JoinedPiece
<1>2. Alternates(text, 1, 15)
  <2> SUFFICES ASSUME NEW i \in 1..15
               PROVE  text[i] = Colon <=> (i - 1) % 2 = 1
    BY DEF Alternates
  <2>1. i % 2 = 0 <=> (i - 1) % 2 = 1
    OBVIOUS
  <2> QED
    BY <1>1, <2>1
<1>3. ~compressed(text)
  <2>1. \A i \in 1..(15 - 1) : ~(text[i] = Colon /\ text[i + 1] = Colon)
    BY <1>2, NoTwoColons
  <2> QED
    BY <1>1, <2>1 DEF compressed, DoubleAt
<1>4. Expanded(text) = groups
  <2>1. GroupsOf(text) = [i \in 1..8 |-> text[2 * i - 1]]
    BY <1>1 DEF GroupsOf
  <2>2. [i \in 1..8 |-> text[2 * i - 1]] = groups
    BY <1>1
  <2> QED
    BY <1>3, <2>1, <2>2, Zenon DEF Expanded
<1>5. ASSUME NEW pos \in 0..7
      PROVE  getcolon(text, pos) = groups[pos + 1]
  <2>1. Alternates(text, 1, 1 + 2 * pos - 1)
    BY <1>2 DEF Alternates
  <2>2. AfterColons(text, 1, pos) = 1 + 2 * pos
    <3>1. Len(text) \in Nat /\ 1 + 2 * pos <= Len(text) + 1 /\ pos \in Nat
      BY <1>1
    <3> QED
      BY <2>1, <3>1, PlaceAfterColons
  <2>3. text[1 + 2 * pos] = groups[pos + 1]
    <3>1. pos + 1 \in 1..8 /\ 2 * (pos + 1) - 1 = 1 + 2 * pos
      OBVIOUS
    <3> QED
      BY <1>1, <3>1
  <2>4. groups[pos + 1] # Colon /\ 1 + 2 * pos <= Len(text)
    BY <1>1, GroupsAreFields
  <2>5. getcolon(text, pos) = GroupAt(text, 1 + 2 * pos)
    BY <1>3, <2>2, Zenon DEF getcolon
  <2> QED
    BY <2>3, <2>4, <2>5, Zenon DEF GroupAt
<1>6. text # <<>>
  BY <1>1
<1> QED
  BY <1>1, <1>4, <1>5, <1>6

\* The groups of a piece of text.
LEMMA GroupsOfPiece ==
    ASSUME NEW n \in 0..8, NEW groups \in [1..n -> NaGroups]
    PROVE  GroupsOf(Joined(groups)) = groups
<1> DEFINE J == Joined(groups)
<1>1. /\ Len(J) = IF n = 0 THEN 0 ELSE 2 * n - 1
      /\ \A i \in 1..n : J[2 * i - 1] = groups[i]
  BY JoinedPiece, Zenon
<1> HIDE DEF J
<1>2. (Len(J) + 1) \div 2 = n
  BY <1>1
<1>3. GroupsOf(J) = [i \in 1..n |-> J[2 * i - 1]]
  BY <1>2, Zenon DEF GroupsOf
<1> QED
  BY <1>1, <1>3 DEF J

\* The field at a position: a group, or one of the zeros between them.
FieldAt(pos, before, a, after, b) ==
    IF pos < a THEN before[pos + 1]
    ELSE IF pos < 8 - b THEN 0 ELSE after[pos - (8 - b) + 1]

\* Such a text is understood by Expanded and by getcolon().
Fields(text, before, a, after, b) ==
    /\ text \in Seq(Elements) /\ text # <<>>
    /\ Expanded(text) = before \o [i \in 1..(8 - a - b) |-> 0] \o after
    /\ \A pos \in 0..7 : getcolon(text, pos) = FieldAt(pos, before, a, after, b)

\* Where "::" is, getcolon() puts zeros for the groups that are missing; a text
\* that begins or ends with "::" has an empty group there, which is 0.
LEMMA ShortTextExpands ==
    ASSUME NEW a \in 0..7, NEW b \in 0..7, NEW text, NEW p, NEW before, NEW after,
           Split(text, p, before, a, after, b)
    PROVE  Fields(text, before, a, after, b)
<1>1. /\ text \in Seq(Elements)
      /\ Len(text) = p + 1 + (IF b = 0 THEN 0 ELSE 2 * b - 1)
      /\ DoubleAt(text) = {p} /\ FirstDouble(text) = p
      /\ SubSeq(text, 1, p - 1) = Joined(before)
      /\ SubSeq(text, p + 2, Len(text)) = Joined(after)
      /\ text[p] = Colon /\ text[p + 1] = Colon
      /\ Alternates(text, 1, p - 1)
      /\ Alternates(text, p + 2, Len(text))
      /\ \A i \in 1..a : text[2 * i - 1] = before[i]
      /\ \A i \in 1..b : text[p + 2 * i] = after[i]
  <2>1. Places(text, p, before, a, after, b)
    BY ShortTextPlaces
  <2> QED
    BY <2>1, Zenon DEF Places
<1>2. compressed(text)
  BY <1>1, Zenon DEF compressed
<1>3. /\ p \in 1..14 /\ Len(text) \in Nat
      /\ a = 0 => p = 1
      /\ a > 0 => p = 2 * a
      /\ b = 0 => Len(text) = p + 1
      /\ b > 0 => Len(text) = p + 2 * b
      /\ a \in 0..7 /\ b \in 0..7 /\ a + b <= 7
  <2>1. Len(text) = p + 1 + (IF b = 0 THEN 0 ELSE 2 * b - 1)
    BY <1>1
  <2> QED
    BY <2>1 DEF Split
<1>types. before \in [1..a -> NaGroups] /\ after \in [1..b -> NaGroups]
  BY DEF Split
<1>4. Expanded(text) = before \o [i \in 1..(8 - a - b) |-> 0] \o after
  <2>1. GroupsOf(Joined(before)) = before /\ GroupsOf(Joined(after)) = after
    <3>1. a \in 0..8 /\ b \in 0..8
      BY <1>3
    <3> QED
      BY <1>types, <3>1, GroupsOfPiece, Zenon
  <2>2. Len(before) = a /\ Len(after) = b
    BY <1>3, <1>types
  <2> QED
    BY <1>1, <1>2, <2>1, <2>2, Zenon DEF Expanded
<1>5. cstart(text) = IF a = 0 THEN 0 ELSE a - 1
  <2>1. cstart(text) = Colons(text, 1, p - 1)
    BY <1>1, Zenon DEF cstart
  <2>2. Colons(text, 1, p - 1) = (p - 1 - 1 + 1) \div 2
    <3>1. 1 \in Nat /\ p - 1 \in Int /\ p - 1 >= 1 - 1
      BY <1>3
    <3> QED
      BY <1>1, <3>1, ColonsOfPiece
  <2> QED
    BY <1>3, <2>1, <2>2
<1>6. cend(text) = IF b = 0 THEN 0 ELSE b - 1
  <2> DEFINE n == Len(text)
             last == text[n] = Colon /\ text[n - 1] # Colon
  <2>1. ~last
    <3>1. CASE b = 0
      <4>1. n = p + 1 /\ n - 1 = p
        BY <1>3, <3>1
      <4> QED
        BY <1>1, <4>1, Zenon
    <3>2. CASE b > 0
      <4>1. n = p + 2 * b /\ b \in 1..b
        BY <1>3, <3>2
      <4>2. text[n] = after[b]
        BY <1>1, <4>1, Zenon
      <4>3. after[b] # Colon
        BY <1>types, <4>1, GroupsAreFields
      <4> QED
        BY <4>2, <4>3, Zenon
    <3> QED
      BY <3>1, <3>2
  <2>2. Colons(text, p + 2, n) = (n - (p + 2) + 1) \div 2
    <3> DEFINE from == p + 2
    <3>1. from \in Nat /\ n \in Int /\ n >= from - 1
      BY <1>3
    <3>2. Alternates(text, from, n)
      BY <1>1
    <3> HIDE DEF n, last, from
    <3>3. Colons(text, from, n) = (n - from + 1) \div 2
      BY <3>1, <3>2, ColonsOfPiece
    <3> QED
      BY <3>3 DEF from
  <2>3. Colons(text, p + 2, n) = IF b = 0 THEN 0 ELSE b - 1
    BY <1>3, <2>2
  <2>4. cend(text) = IF last THEN Colons(text, p + 2, n) - 1 ELSE Colons(text, p + 2, n)
    BY <1>1, Zenon DEF cend
  <2> QED
    BY <2>1, <2>3, <2>4, Zenon
<1>7. TailField(text) = IF b = 0 THEN 7 ELSE 8 - b
  BY <1>6 DEF TailField
<1>8. ASSUME NEW pos \in 0..7
      PROVE  getcolon(text, pos) = FieldAt(pos, before, a, after, b)
  <2> USE DEF FieldAt
  <2>1. CASE pos >= TailField(text)
    <3> DEFINE k == pos - TailField(text)
    <3>1. /\ k \in Nat /\ p + 2 \in Nat /\ p + 2 + 2 * k <= Len(text) + 1
          /\ p + 2 + 2 * k - 1 <= Len(text)
      BY <1>3, <1>7, <2>1
    <3>2. Alternates(text, p + 2, p + 2 + 2 * k - 1)
      <4>1. p + 2 + 2 * k - 1 \in Int /\ Len(text) \in Int
        BY <1>3, <3>1
      <4> QED
        BY <1>1, <3>1, <4>1, ShorterPiece
    <3>3. AfterColons(text, p + 2, k) = p + 2 + 2 * k
      <4> HIDE DEF k
      <4> QED
        BY <1>3, <3>1, <3>2, PlaceAfterColons
    <3>4. getcolon(text, pos) = GroupAt(text, p + 2 + 2 * k)
      BY <1>1, <1>2, <2>1, <3>3, Zenon DEF getcolon
    <3>5. CASE b = 0
      <4>1. k = 0 /\ p + 2 + 2 * k > Len(text) /\ pos = 7 /\ ~(pos < a) /\ pos < 8 - b
        BY <1>3, <1>7, <2>1, <3>5
      <4>2. ~(p + 2 + 2 * k <= Len(text))
        BY <1>3, <4>1
      <4> QED
        BY <3>4, <4>1, <4>2, Zenon DEF GroupAt
    <3>6. CASE b > 0
      <4>1. /\ k + 1 \in 1..b /\ p + 2 + 2 * k = p + 2 * (k + 1)
            /\ p + 2 + 2 * k <= Len(text)
            /\ ~(pos < a) /\ ~(pos < 8 - b) /\ k + 1 = pos - (8 - b) + 1
        <5>1. TailField(text) = 8 - b /\ b \in 1..7 /\ k = pos - (8 - b)
          BY <1>3, <1>7, <3>6
        <5>2. a \in 0..7 /\ a + b <= 7 /\ pos >= 8 - b
          BY <1>3, <2>1, <5>1
        <5>3. Len(text) = p + 2 * b
          BY <1>3, <3>6
        <5> HIDE DEF k
        <5> QED
          BY <1>3, <5>1, <5>2, <5>3
      <4>2. text[p + 2 + 2 * k] = after[k + 1]
        BY <1>1, <4>1, Zenon
      <4>3. after[k + 1] # Colon
        BY <1>types, <4>1, GroupsAreFields
      <4> QED
        BY <3>4, <4>1, <4>2, <4>3, Zenon DEF GroupAt
    <3> QED
      BY <3>5, <3>6
  <2>2. CASE pos < TailField(text) /\ pos <= cstart(text)
    <3>1. ~(pos >= TailField(text))
      BY <1>7, <2>2
    <3>2. /\ 1 + 2 * pos - 1 <= p - 1 /\ 1 + 2 * pos <= Len(text) /\ pos \in Nat
          /\ 1 + 2 * pos <= Len(text) + 1
      BY <1>3, <1>5, <2>2
    <3>3. Alternates(text, 1, 1 + 2 * pos - 1)
      BY <1>1, <1>3, <3>2, ShorterPiece
    <3>4. AfterColons(text, 1, pos) = 1 + 2 * pos
      BY <1>3, <3>2, <3>3, PlaceAfterColons
    <3>5. getcolon(text, pos) = GroupAt(text, 1 + 2 * pos)
      BY <1>2, <2>2, <3>1, <3>4, Zenon DEF getcolon
    <3>6. CASE a = 0
      <4>1. 1 + 2 * pos = p /\ ~(pos < a) /\ pos < 8 - b
        BY <1>3, <1>5, <1>7, <2>2, <3>6
      <4> QED
        BY <1>1, <3>5, <4>1, Zenon DEF GroupAt
    <3>7. CASE a > 0
      <4>1. pos < a /\ pos + 1 \in 1..a /\ 2 * (pos + 1) - 1 = 1 + 2 * pos
        BY <1>5, <2>2, <3>7
      <4>2. text[1 + 2 * pos] = before[pos + 1]
        BY <1>1, <4>1, Zenon
      <4>3. before[pos + 1] # Colon
        BY <1>types, <4>1, GroupsAreFields
      <4> QED
        BY <3>2, <3>5, <4>1, <4>2, <4>3, Zenon DEF GroupAt
    <3> QED
      BY <3>6, <3>7
  <2>3. CASE pos < TailField(text) /\ ~(pos <= cstart(text))
    <3>1. ~(pos >= TailField(text)) /\ ~(pos < a) /\ pos < 8 - b
      BY <1>5, <1>7, <2>3
    <3> QED
      BY <1>2, <2>3, <3>1, Zenon DEF getcolon
  <2> QED
    BY <1>7, <2>1, <2>2, <2>3
<1>9. text # <<>>
  BY <1>3
<1> QED
  BY <1>1, <1>4, <1>8, <1>9, Zenon DEF Fields

-----------------------------------------------------------------------------
(* The bits of a digit are those of its field.                              *)

\* Dividing twice is dividing by the product.
LEMMA DivideTwice ==
    ASSUME NEW v \in Nat, NEW d \in Nat, NEW e \in Nat, d > 0, e > 0
    PROVE  (v \div d) \div e = v \div (d * e)
  OBVIOUS

\* The last digit of a number has its last bits.
LEMMA LastDigit ==
    ASSUME NEW x \in Nat, NEW k \in {1, 2, 4, 8}
    PROVE  x % 16 \in 0..15 /\ ((x % 16) \div k) % 2 = (x \div k) % 2
<1>1. CASE k = 1
  BY <1>1
<1>2. CASE k = 2
  BY <1>2
<1>3. CASE k = 4
  BY <1>3
<1>4. CASE k = 8
  BY <1>4
<1> QED
  BY <1>1, <1>2, <1>3, <1>4

\* The weight of a bit in its digit, and in each of the four digits.
Weight(e) == 2^e
LEMMA Weights ==
    ASSUME NEW e \in 0..3
    PROVE  /\ Weight(e) \in {1, 2, 4, 8}
           /\ Weight(4 + e) = 16 * Weight(e)
           /\ Weight(8 + e) = 256 * Weight(e)
           /\ Weight(12 + e) = 4096 * Weight(e)
<1> USE DEF Weight
<1>1. /\ Weight(0) = 1 /\ Weight(1) = 2 /\ Weight(2) = 4 /\ Weight(3) = 8
      /\ Weight(4) = 16 /\ Weight(5) = 32 /\ Weight(6) = 64 /\ Weight(7) = 128
      /\ Weight(8) = 256 /\ Weight(9) = 512 /\ Weight(10) = 1024 /\ Weight(11) = 2048
      /\ Weight(12) = 4096 /\ Weight(13) = 8192 /\ Weight(14) = 16384
      /\ Weight(15) = 32768
  OBVIOUS
<1> HIDE DEF Weight
<1>2. CASE e = 0
  BY <1>1, <1>2
<1>3. CASE e = 1
  BY <1>1, <1>3
<1>4. CASE e = 2
  BY <1>1, <1>4
<1>5. CASE e = 3
  BY <1>1, <1>5
<1> QED
  BY <1>2, <1>3, <1>4, <1>5

\* Bit jj of digit q is bit 4 * (q - 1) + jj + 1 of the field.
LEMMA DigitBit ==
    ASSUME NEW v \in FieldValues, NEW q \in 1..4, NEW jj \in 0..3
    PROVE  /\ IsSet(Nibbles(v)[q], jj) <=> 4 * (q - 1) + jj + 1 \in FieldBits(v)
           /\ Nibbles(v)[q] \in 0..15
<1> DEFINE e == 3 - jj
           k == Weight(e)
           b == 4 * (q - 1) + jj + 1
<1>1. v \in Nat /\ v < 65536
  BY DEF FieldValues
<1>2. e \in 0..3 /\ b \in 1..16 /\ 16 - b = 4 * (4 - q) + e
  OBVIOUS
<1>3. IsSet(Nibbles(v)[q], jj) <=> (Nibbles(v)[q] \div k) % 2 = 1
  BY DEF IsSet, Weight
<1>4. b \in FieldBits(v) <=> (v \div Weight(16 - b)) % 2 = 1
  BY <1>2 DEF FieldBits, Weight
<1> HIDE DEF e, b
<1>5. /\ k \in {1, 2, 4, 8} /\ Weight(4 + e) = 16 * k
      /\ Weight(8 + e) = 256 * k /\ Weight(12 + e) = 4096 * k
  BY <1>2, Weights
<1> HIDE DEF k
<1>6. ASSUME NEW x \in Nat, Nibbles(v)[q] = x % 16, x \div k = v \div Weight(16 - b)
      PROVE  /\ IsSet(Nibbles(v)[q], jj) <=> b \in FieldBits(v)
             /\ Nibbles(v)[q] \in 0..15
  <2>1. x % 16 \in 0..15 /\ ((x % 16) \div k) % 2 = (x \div k) % 2
    BY <1>5, <1>6, LastDigit
  <2> QED
    BY <1>3, <1>4, <1>6, <2>1
<1>7. CASE q = 1
  <2>1. Nibbles(v)[q] = (v \div 4096) % 16 /\ v \div 4096 \in Nat
    BY <1>1, <1>7 DEF Nibbles
  <2>2. Weight(16 - b) = 4096 * k
    BY <1>2, <1>5, <1>7
  <2>3. (v \div 4096) \div k = v \div (4096 * k)
    BY <1>1, <1>5, DivideTwice
  <2> QED
    BY <1>6, <2>1, <2>2, <2>3 DEF b
<1>8. CASE q = 2
  <2>1. Nibbles(v)[q] = (v \div 256) % 16 /\ v \div 256 \in Nat
    BY <1>1, <1>8 DEF Nibbles
  <2>2. Weight(16 - b) = 256 * k
    BY <1>2, <1>5, <1>8
  <2>3. (v \div 256) \div k = v \div (256 * k)
    BY <1>1, <1>5, DivideTwice
  <2> QED
    BY <1>6, <2>1, <2>2, <2>3 DEF b
<1>9. CASE q = 3
  <2>1. Nibbles(v)[q] = (v \div 16) % 16 /\ v \div 16 \in Nat
    BY <1>1, <1>9 DEF Nibbles
  <2>2. Weight(16 - b) = 16 * k
    BY <1>2, <1>5, <1>9
  <2>3. (v \div 16) \div k = v \div (16 * k)
    BY <1>1, <1>5, DivideTwice
  <2> QED
    BY <1>6, <2>1, <2>2, <2>3 DEF b
<1>10. CASE q = 4
  <2>1. Nibbles(v)[q] = v % 16
    BY <1>10 DEF Nibbles
  <2>2. 16 - b = e
    BY <1>2, <1>10
  <2>3. v \div k = v \div Weight(16 - b)
    BY <2>2, Zenon DEF k
  <2> QED
    BY <1>1, <1>6, <2>1, <2>3 DEF b
<1> QED
  BY <1>7, <1>8, <1>9, <1>10

-----------------------------------------------------------------------------
(* The bit that is found.                                                   *)

\* A set of numbers has a least one.
LEMMA Least ==
    ASSUME NEW S, S \subseteq Nat, S # {}
    PROVE  \E m \in S : \A k \in S : m <= k
<1>1. PICK m \in S : \A k \in S : ~(<<k, m>> \in OpToRel(<, Nat))
  BY NatLessThanWellFounded, WFMin
<1>2. ASSUME NEW k \in S PROVE ~(k < m)
  <2>1. k \in Nat /\ m \in Nat
    OBVIOUS
  <2>2. k < m => <<k, m>> \in OpToRel(<, Nat)
    BY <2>1, Zenon DEF OpToRel
  <2> QED
    BY <1>1, <2>2
<1> QED
  BY <1>2

\* A set of bounded numbers has a greatest one.
LEMMA Greatest ==
    ASSUME NEW n \in Nat, NEW S, S \subseteq 0..n, S # {}
    PROVE  \E m \in S : \A k \in S : k <= m
<1> DEFINE below == {n - x : x \in S}
<1>1. below \subseteq Nat /\ below # {}
  <2>1. \A x \in S : n - x \in Nat /\ n - x \in below
    OBVIOUS
  <2> QED
    BY <2>1
<1>2. PICK least \in below : \A y \in below : least <= y
  <2> HIDE DEF below
  <2> QED
    BY <1>1, Least
<1>3. PICK m \in S : least = n - m
  OBVIOUS
<1>4. ASSUME NEW k \in S PROVE k <= m
  <2>1. n - m <= n - k
    BY <1>2, <1>3
  <2>2. k \in 0..n /\ m \in 0..n
    OBVIOUS
  <2> QED
    BY <2>1, <2>2
<1> QED
  BY <1>4

\* The bits that NetBits sees in the digits it has read.
BitsSeen(char) ==
    {BitNumber(x[1], x[2]) : x \in {y \in (1..32) \X (0..3) : IsSet(char[y[1]], y[2])}}
BitsOf(fields) == UNION {{16 * (f - 1) + b : b \in FieldBits(fields[f])} : f \in 1..8}
Digits(fields) == [i \in 1..32 |-> Nibbles(fields[(i + 3) \div 4])[((i - 1) % 4) + 1]]

\* Which bits a set of them has.
LEMMA BitsAre ==
    ASSUME NEW char, NEW fields, NEW n
    PROVE  /\ n \in BitsSeen(char) <=>
                 \E ii \in 1..32, jj \in 0..3 :
                     n = (ii - 1) * 4 + jj + 1 /\ IsSet(char[ii], jj)
           /\ n \in BitsOf(fields) <=>
                 \E f \in 1..8, b \in 1..16 :
                     n = 16 * (f - 1) + b /\ b \in FieldBits(fields[f])
<1>1. n \in BitsSeen(char) <=>
                 \E ii \in 1..32, jj \in 0..3 :
                     n = (ii - 1) * 4 + jj + 1 /\ IsSet(char[ii], jj)
  <2> DEFINE seen == {y \in (1..32) \X (0..3) : IsSet(char[y[1]], y[2])}
  <2>1. ASSUME n \in BitsSeen(char)
        PROVE  \E ii \in 1..32, jj \in 0..3 :
                   n = (ii - 1) * 4 + jj + 1 /\ IsSet(char[ii], jj)
    <3>1. PICK x \in seen : n = BitNumber(x[1], x[2])
      BY <2>1, Zenon DEF BitsSeen
    <3>2. x[1] \in 1..32 /\ x[2] \in 0..3 /\ IsSet(char[x[1]], x[2])
      BY <3>1
    <3> QED
      BY <3>1, <3>2, Zenon DEF BitNumber
  <2>2. ASSUME NEW ii \in 1..32, NEW jj \in 0..3,
               n = (ii - 1) * 4 + jj + 1, IsSet(char[ii], jj)
        PROVE  n \in BitsSeen(char)
    <3>1. <<ii, jj>> \in seen /\ <<ii, jj>>[1] = ii /\ <<ii, jj>>[2] = jj
      BY <2>2
    <3>2. n = BitNumber(<<ii, jj>>[1], <<ii, jj>>[2])
      BY <2>2, <3>1, Zenon DEF BitNumber
    <3> QED
      BY <3>1, <3>2, Zenon DEF BitsSeen
  <2> QED
    BY <2>1, <2>2, Zenon
<1>2. \A f \in 1..8 : FieldBits(fields[f]) \subseteq 1..16
  BY Zenon DEF FieldBits
<1>3. n \in BitsOf(fields) <=>
         \E f \in 1..8 : \E b \in FieldBits(fields[f]) : n = 16 * (f - 1) + b
  <2> DEFINE shifted(f) == {16 * (f - 1) + b : b \in FieldBits(fields[f])}
  <2>1. n \in BitsOf(fields) <=> \E f \in 1..8 : n \in shifted(f)
    <3>1. BitsOf(fields) = UNION {shifted(f) : f \in 1..8}
      BY Zenon DEF BitsOf
    <3> HIDE DEF shifted
    <3> QED
      BY <3>1
  <2>2. \A f \in 1..8 :
            n \in shifted(f) <=> \E b \in FieldBits(fields[f]) : n = 16 * (f - 1) + b
    OBVIOUS
  <2> QED
    BY <2>1, <2>2, Zenon
<1> QED
  BY <1>1, <1>2, <1>3, Zenon

\* Bit jj of digit ii is bit b of field f.
LEMMA PlaceOfBit ==
    /\ \A ii \in 1..32, jj \in 0..3 :
          /\ (ii + 3) \div 4 \in 1..8 /\ ((ii - 1) % 4) + 1 \in 1..4
          /\ (ii - 1) * 4 + jj + 1 =
                16 * ((ii + 3) \div 4 - 1) + (4 * ((ii - 1) % 4) + jj + 1)
    /\ \A f \in 1..8, b \in 1..16 :
          \E ii \in 1..32, jj \in 0..3 :
              /\ (ii + 3) \div 4 = f
              /\ 4 * ((ii - 1) % 4) + jj + 1 = b
<1>1. ASSUME NEW ii \in 1..32, NEW jj \in 0..3
      PROVE  /\ (ii + 3) \div 4 \in 1..8 /\ ((ii - 1) % 4) + 1 \in 1..4
             /\ (ii - 1) * 4 + jj + 1 =
                   16 * ((ii + 3) \div 4 - 1) + (4 * ((ii - 1) % 4) + jj + 1)
  OBVIOUS
<1>2. ASSUME NEW f \in 1..8, NEW b \in 1..16
      PROVE  \E ii \in 1..32, jj \in 0..3 :
                 (ii + 3) \div 4 = f /\ 4 * ((ii - 1) % 4) + jj + 1 = b
  <2> DEFINE q == (b - 1) \div 4
             jj == (b - 1) % 4
             ii == 4 * (f - 1) + q + 1
  <2>1. q \in 0..3 /\ jj \in 0..3 /\ b - 1 = 4 * q + jj
    OBVIOUS
  <2> HIDE DEF q, jj
  <2>2. ii \in 1..32 /\ (ii + 3) \div 4 = f /\ (ii - 1) % 4 = q
    BY <2>1
  <2>3. 4 * ((ii - 1) % 4) + jj + 1 = b
    BY <2>1, <2>2
  <2> HIDE DEF ii
  <2> QED
    BY <2>1, <2>2, <2>3
<1> QED
  BY <1>1, <1>2

\* The bits of the digits are the bits of the fields.
LEMMA SameBits ==
    ASSUME NEW fields \in [1..8 -> FieldValues], NEW char,
           \A ii \in 1..32 : char[ii] = Digits(fields)[ii]
    PROVE  BitsSeen(char) = BitsOf(fields)
<1>1. ASSUME NEW ii \in 1..32, NEW jj \in 0..3
      PROVE  IsSet(char[ii], jj) <=>
                 4 * ((ii - 1) % 4) + jj + 1 \in FieldBits(fields[(ii + 3) \div 4])
  <2> DEFINE v == fields[(ii + 3) \div 4]
             q == ((ii - 1) % 4) + 1
  <2>1. v \in FieldValues /\ q \in 1..4 /\ 4 * (q - 1) = 4 * ((ii - 1) % 4)
    BY PlaceOfBit
  <2>2. char[ii] = Nibbles(v)[q]
    BY DEF Digits
  <2> HIDE DEF v, q
  <2>3. IsSet(Nibbles(v)[q], jj) <=> 4 * (q - 1) + jj + 1 \in FieldBits(v)
    BY <2>1, DigitBit
  <2> QED
    BY <2>1, <2>2, <2>3 DEF v
<1>2. ASSUME NEW n \in BitsSeen(char) PROVE n \in BitsOf(fields)
  <2>1. PICK ii \in 1..32, jj \in 0..3 :
            n = (ii - 1) * 4 + jj + 1 /\ IsSet(char[ii], jj)
    BY BitsAre
  <2> DEFINE f == (ii + 3) \div 4
             b == 4 * ((ii - 1) % 4) + jj + 1
  <2>2. f \in 1..8 /\ n = 16 * (f - 1) + b
    BY <2>1, PlaceOfBit
  <2>3. b \in FieldBits(fields[f])
    BY <1>1, <2>1
  <2> HIDE DEF f, b
  <2>4. b \in 1..16
    BY <2>3, Zenon DEF FieldBits
  <2> QED
    BY <2>2, <2>3, <2>4, BitsAre, Zenon
<1>3. ASSUME NEW n \in BitsOf(fields) PROVE n \in BitsSeen(char)
  <2>1. PICK f \in 1..8, b \in 1..16 : n = 16 * (f - 1) + b /\ b \in FieldBits(fields[f])
    BY BitsAre
  <2>2. PICK ii \in 1..32, jj \in 0..3 :
            (ii + 3) \div 4 = f /\ 4 * ((ii - 1) % 4) + jj + 1 = b
    BY PlaceOfBit
  <2>3. IsSet(char[ii], jj)
    BY <1>1, <2>1, <2>2
  <2>4. n = (ii - 1) * 4 + jj + 1
    BY <2>1, <2>2, PlaceOfBit
  <2> QED
    BY <2>3, <2>4, BitsAre
<1> QED
  BY <1>2, <1>3

\* Every character that is a digit is read as it stands.
LEMMA CharsRead ==
    ASSUME \A ii \in 1..32 : naStr[ii] \in 0..15
    PROVE  \A ii \in 1..32 : vChar[ii] = naStr[ii]
<1> DEFINE read(g) == [ii \in 0..32 |->
               IF ii = 0 THEN 0
               ELSE IF naStr[ii] = Unreadable THEN g[ii - 1] ELSE naStr[ii]]
           char == [ii \in 0..32 |-> IF ii = 0 THEN 0 ELSE naStr[ii]]
<1>1. vChar = CHOOSE g : g = read(g)
  BY Zenon DEF vChar
<1>2. \A ii \in 1..32 : naStr[ii] # Unreadable
  BY DEF Unreadable
<1>3. ASSUME NEW g PROVE read(g) = char
  BY <1>2
<1> HIDE DEF read, char
<1>4. vChar = read(vChar)
  BY <1>1, <1>3, Zenon
<1>5. vChar = char
  BY <1>3, <1>4
<1> QED
  BY <1>5 DEF char

\* The last bit of a set of bits.
LEMMA LastOf ==
    ASSUME NEW S, S \subseteq 1..128
    PROVE  (IF S = {} THEN 0 ELSE CHOOSE n \in S : \A m \in S : m <= n) \in 0..128
<1>1. CASE S = {}
  BY <1>1
<1>2. CASE S # {}
  <2>1. \E n \in S : \A m \in S : m <= n
    <3>1. S \subseteq 0..128 /\ 128 \in Nat
      OBVIOUS
    <3> QED
      BY <1>2, <3>1, Greatest
  <2> DEFINE last == CHOOSE n \in S : \A m \in S : m <= n
  <2>2. last \in S
    BY <2>1, Zenon
  <2> HIDE DEF last
  <2>3. last \in 0..128
    BY <2>2
  <2> QED
    BY <1>2, <2>3, Zenon DEF last
<1> QED
  BY <1>1, <1>2

\* Whatever is read, the bits seen are those of 32 digits.
LEMMA BitsBounded ==
    ASSUME NEW char
    PROVE  BitsSeen(char) \subseteq 1..128
<1> SUFFICES ASSUME NEW n \in BitsSeen(char) PROVE n \in 1..128
  OBVIOUS
<1>1. PICK ii \in 1..32, jj \in 0..3 : n = (ii - 1) * 4 + jj + 1
  BY BitsAre
<1> QED
  BY <1>1

-----------------------------------------------------------------------------
(* The experiment.                                                          *)

\* The texts of hexadecimal groups that inet_pton() takes; dotted tails and IPv4
\* addresses are not among them.
IsAddress(text) == FullText(text) \/ ShortText(text)

\* What a sequence of three parts consists of.
LEMMA ThreeParts ==
    ASSUME NEW S, NEW s \in Seq(S), NEW z \in Seq(S), NEW t \in Seq(S)
    PROVE  /\ s \o z \o t \in Seq(S)
           /\ Len(s \o z \o t) = Len(s) + Len(z) + Len(t)
           /\ \A i \in 1..Len(s \o z \o t) : (s \o z \o t)[i] =
                 IF i <= Len(s) THEN s[i]
                 ELSE IF i <= Len(s) + Len(z) THEN z[i - Len(s)]
                 ELSE t[i - Len(s) - Len(z)]
  OBVIOUS

\* What stands for an IPv6 text of hexadecimal groups, with or without "::", are
\* eight fields, and getcolon() finds them.
LEMMA AddressExpands ==
    ASSUME NEW text, IsAddress(text)
    PROVE  /\ text \in Seq(Elements) /\ text # <<>>
           /\ Expanded(text) \in [1..8 -> FieldValues]
           /\ Expanded(text) = [ii \in 1..8 |-> getcolon(text, ii - 1)]
<1> DEFINE found == [ii \in 1..8 |-> getcolon(text, ii - 1)]
<1>0. NaGroups \subseteq FieldValues /\ 0 \in FieldValues
  BY GroupsAreFields
<1>1. CASE FullText(text)
  <2>1. PICK groups \in [1..8 -> NaGroups] : text = Joined(groups)
    BY <1>1 DEF FullText
  <2>2. /\ text \in Seq(Elements) /\ text # <<>>
        /\ Expanded(text) = groups
        /\ \A pos \in 0..7 : getcolon(text, pos) = groups[pos + 1]
    BY <2>1, FullTextExpands
  <2>3. \A ii \in 1..8 : getcolon(text, ii - 1) = groups[ii]
    BY <2>2
  <2>4. found = groups
    BY <2>3
  <2>5. groups \in [1..8 -> FieldValues]
    BY <1>0
  <2> QED
    BY <2>2, <2>4, <2>5, Zenon
<1>2. CASE ShortText(text)
  <2>0. PICK a \in 0..7, b \in 0..7 : a + b <= 7 /\
            \E before \in [1..a -> NaGroups], after \in [1..b -> NaGroups] :
                text = Joined(before) \o <<Colon, Colon>> \o Joined(after)
    BY <1>2, Zenon DEF ShortText
  <2>1. PICK before \in [1..a -> NaGroups], after \in [1..b -> NaGroups] :
            text = Joined(before) \o <<Colon, Colon>> \o Joined(after)
    BY <2>0, Zenon
  <2> DEFINE p == IF a = 0 THEN 1 ELSE 2 * a
             zeros == [i \in 1..(8 - a - b) |-> 0]
             value(pos) == FieldAt(pos, before, a, after, b)
  <2>2. Split(text, p, before, a, after, b)
    BY <2>0, <2>1, Zenon DEF Split
  <2>3. /\ text \in Seq(Elements) /\ text # <<>>
        /\ Expanded(text) = before \o zeros \o after
        /\ \A pos \in 0..7 : getcolon(text, pos) = value(pos)
    <3> HIDE DEF p, zeros, value
    <3>1. Fields(text, before, a, after, b)
      BY <2>2, ShortTextExpands, Zenon
    <3> USE DEF zeros, value
    <3> QED
      BY <3>1, Zenon DEF Fields
  <2>4. before \o zeros \o after = [ii \in 1..8 |-> value(ii - 1)]
    <3>1. before \in Seq(FieldValues) /\ after \in Seq(FieldValues)
      BY <1>0
    <3>2. /\ zeros \in Seq(FieldValues) /\ Len(before) = a /\ Len(after) = b
          /\ Len(zeros) = 8 - a - b /\ \A i \in 1..(8 - a - b) : zeros[i] = 0
      BY <1>0, <2>0
    <3> HIDE DEF zeros
    <3>3. /\ before \o zeros \o after \in Seq(FieldValues)
          /\ Len(before \o zeros \o after) = Len(before) + Len(zeros) + Len(after)
          /\ \A i \in 1..Len(before \o zeros \o after) : (before \o zeros \o after)[i] =
                IF i <= Len(before) THEN before[i]
                ELSE IF i <= Len(before) + Len(zeros) THEN zeros[i - Len(before)]
                ELSE after[i - Len(before) - Len(zeros)]
      BY <3>1, <3>2, ThreeParts
    <3> DEFINE whole == before \o zeros \o after
    <3> HIDE DEF whole
    <3>4. /\ whole \in Seq(FieldValues) /\ Len(whole) = Len(before) + Len(zeros) + Len(after)
          /\ \A i \in 1..Len(whole) : whole[i] =
                IF i <= Len(before) THEN before[i]
                ELSE IF i <= Len(before) + Len(zeros) THEN zeros[i - Len(before)]
                ELSE after[i - Len(before) - Len(zeros)]
      BY <3>3, Zenon DEF whole
    <3>5. Len(whole) = 8
      BY <2>0, <3>2, <3>4
    <3>7. ASSUME NEW i \in 1..8 PROVE whole[i] = value(i - 1)
      <4>0. whole[i] = IF i <= a THEN before[i]
                       ELSE IF i <= a + (8 - a - b) THEN zeros[i - a]
                       ELSE after[i - a - (8 - a - b)]
        BY <3>2, <3>4, <3>5, Zenon
      <4>1. CASE i <= a
        <5>1. i - 1 < a /\ i - 1 + 1 = i
          BY <4>1
        <5> QED
          BY <4>0, <4>1, <5>1, Zenon DEF FieldAt
      <4>2. CASE ~(i <= a) /\ i <= 8 - b
        <5>1. ~(i - 1 < a) /\ i - 1 < 8 - b /\ i <= a + (8 - a - b) /\ i - a \in 1..(8 - a - b)
          BY <4>2
        <5>2. zeros[i - a] = 0
          BY <3>2, <5>1, Zenon
        <5> QED
          BY <4>0, <4>2, <5>1, <5>2, Zenon DEF FieldAt
      <4>3. CASE ~(i <= a) /\ ~(i <= 8 - b)
        <5>1. /\ ~(i - 1 < a) /\ ~(i - 1 < 8 - b) /\ ~(i <= a + (8 - a - b))
              /\ i - a - (8 - a - b) = i - 1 - (8 - b) + 1
          BY <4>3
        <5> QED
          BY <4>0, <4>3, <5>1, Zenon DEF FieldAt
      <4> QED
        BY <4>1, <4>2, <4>3
    <3> HIDE DEF value
    <3>6. whole = [ii \in 1..8 |-> value(ii - 1)]
      <4>1. whole \in Seq(FieldValues) /\ Len(whole) = 8
        BY <3>4, <3>5, Zenon
      <4>2. whole = [ii \in 1..8 |-> whole[ii]]
        BY <4>1
      <4> QED
        BY <3>7, <4>2, Zenon
    <3> QED
      BY <3>6, Zenon DEF whole
  <2>5. \A ii \in 1..8 : getcolon(text, ii - 1) = value(ii - 1)
    <3> HIDE DEF value
    <3> QED
      BY <2>3
  <2>6. \A ii \in 1..8 : value(ii - 1) \in FieldValues
    BY <1>0, <2>0 DEF FieldAt
  <2> HIDE DEF value, zeros
  <2>7. found = [ii \in 1..8 |-> value(ii - 1)]
    BY <2>5
  <2>8. found \in [1..8 -> FieldValues]
    BY <2>6, <2>7
  <2> QED
    BY <2>3, <2>4, <2>7, <2>8, Zenon
<1> QED
  BY <1>1, <1>2 DEF IsAddress

\* The digits of eight fields are 32 nibbles.
LEMMA DigitsAreNibbles ==
    ASSUME NEW fields \in [1..8 -> FieldValues]
    PROVE  /\ Digits(fields) \in Seq(0..15)
           /\ \A ii \in 1..32 : Digits(fields)[ii] \in 0..15
<1>1. ASSUME NEW ii \in 1..32 PROVE Digits(fields)[ii] \in 0..15
  <2> DEFINE v == fields[(ii + 3) \div 4]
             q == ((ii - 1) % 4) + 1
  <2>1. v \in FieldValues /\ q \in 1..4
    BY PlaceOfBit
  <2>2. Digits(fields)[ii] = Nibbles(v)[q]
    BY DEF Digits
  <2> HIDE DEF v, q
  <2>3. Nibbles(v)[q] \in 0..15
    BY <2>1, DigitBit
  <2> QED
    BY <2>2, <2>3
<1>2. Digits(fields) = [ii \in 1..32 |-> Digits(fields)[ii]]
  BY Zenon DEF Digits
<1>3. Digits(fields) \in Seq(0..15)
  <2> DEFINE d == Digits(fields)
  <2> HIDE DEF d
  <2>1. d = [ii \in 1..32 |-> d[ii]]
    BY <1>2 DEF d
  <2>2. \A ii \in 1..32 : d[ii] \in 0..15
    BY <1>1 DEF d
  <2>3. d \in Seq(0..15)
    BY ONLY <2>1, <2>2
  <2> QED
    BY <2>3 DEF d
<1> QED
  BY <1>1, <1>3

LastIn(S) == IF S = {} THEN 0 ELSE CHOOSE n \in S : \A m \in S : m <= n

\* The last bit of the fields is the last one in the set of their bits.
LEMMA LastOfFields ==
    ASSUME NEW fields
    PROVE  LastBit(fields) = LastIn(BitsOf(fields))
  BY Zenon DEF LastBit, BitsOf, LastIn

\* A function on the numbers up to n is a sequence.
LEMMA NumberedAreSequence ==
    ASSUME NEW S
    PROVE  \A n \in Nat : \A f \in [1..n -> S] : f \in Seq(S)
  OBVIOUS

\* A text, once there is one, is an address and stays it; what the experiment
\* has printed of it is what it stands for, and the digits that it goes through
\* are those of the fields when Str was empty.
AInv ==
    /\ naPc \in {"off", "fields", "bits", "done"}
    /\ naPc = "off" => naText = <<>>
    /\ naText = <<>> \/ IsAddress(naText)
    /\ naPc \in {"fields", "bits"} => naText # <<>>
    /\ naPc \in {"off", "fields"} => naFields = <<>>
    /\ naPc \in {"bits", "done"} /\ naText # <<>> =>
          naFields = Expanded(naText) /\ naFields \in [1..8 -> FieldValues]
    /\ naFields = <<>> \/ naFields \in [1..8 -> FieldValues]
    /\ naPc = "bits" /\ naBefore = 0 => naStr = Digits(naFields)
    /\ naPc = "done" /\ naText # <<>> /\ naBefore = 0 => vNbBit = LastBit(naFields)
    /\ vNbBit \in 0..128

\* The invariant holds of the values at the start and of those after each step.
LEMMA AddressKeeps ==
    /\ AddressInit => AInv
    /\ AInv /\ [Net_inet_pton \/ AddressNext]_addressVars => AInv'
    /\ AInv => AddressTypeOK /\ ExpansionIsRight
<1>1. AddressInit => AInv
  BY DEF AddressInit, AInv
<1>2. ASSUME AInv, Net_inet_pton PROVE AInv'
  <2>1. /\ naPc = "off" /\ naFields = <<>> /\ naText = <<>> /\ vNbBit \in 0..128
        /\ UNCHANGED <<naFields, naStr, naBefore, vNbBit>>
    BY <1>2, Zenon DEF AInv, Net_inet_pton
  <2>2. \/ naPc' = "fields" /\ IsAddress(naText')
        \/ naPc' = "done" /\ naText' = naText
    BY <1>2, Zenon DEF Net_inet_pton, IsAddress, FullText, ShortText
  <2>3. ASSUME IsAddress(naText') PROVE naText' # <<>>
    BY <2>3, AddressExpands, Zenon
  <2> HIDE DEF IsAddress
  <2> QED
    BY <2>1, <2>2, <2>3 DEF AInv
<1>3. ASSUME AInv, NetFields PROVE AInv'
  <2>1. /\ naPc = "fields" /\ naPc' = "bits" /\ naText' = naText /\ vNbBit' = vNbBit
        /\ naText # <<>> /\ IsAddress(naText) /\ vNbBit \in 0..128
        /\ naFields' = [ii \in 1..8 |-> getcolon(naText, ii - 1)]
    BY <1>3, Zenon DEF AInv, NetFields
  <2>2. naFields' = Expanded(naText) /\ naFields' \in [1..8 -> FieldValues]
    <3>1. IsAddress(naText)
      BY <2>1
    <3>2. /\ Expanded(naText) \in [1..8 -> FieldValues]
          /\ Expanded(naText) = [ii \in 1..8 |-> getcolon(naText, ii - 1)]
      BY <3>1, AddressExpands, Zenon
    <3>3. naFields' = [ii \in 1..8 |-> getcolon(naText, ii - 1)]
      BY <2>1
    <3> QED
      BY ONLY <3>2, <3>3, Zenon
  <2>3. naBefore' = 0 => naStr' = Digits(naFields')
    <3>1. PICK garbage \in NaGarbage :
              naBefore' = Len(garbage) /\ naStr' = garbage \o Digits(naFields')
      BY <1>3, Zenon DEF NetFields, Digits
    <3>2. Digits(naFields') \in Seq(0..15)
      BY <2>2, DigitsAreNibbles
    <3>3. garbage \in Seq(-1..15)
      BY AddressAssumption
    <3>4. ASSUME NEW digits \in Seq(0..15), Len(garbage) = 0 PROVE garbage \o digits = digits
      BY <3>3, <3>4
    <3> QED
      BY <3>1, <3>2, <3>4, Zenon
  <2> QED
    BY <2>1, <2>2, <2>3, Zenon DEF AInv
<1>4. ASSUME AInv, NetBits PROVE AInv'
  <2>1. /\ naPc = "bits" /\ naPc' = "done"
        /\ UNCHANGED <<naText, naFields, naStr, naBefore>>
        /\ vNbBit' = LastIn(BitsSeen(vChar))
    BY <1>4, Zenon DEF NetBits, BitsSeen, LastIn
  <2>2. vNbBit' \in 0..128
    BY <2>1, BitsBounded, LastOf, Zenon DEF LastIn
  <2>3. naText # <<>> /\ naFields \in [1..8 -> FieldValues] /\ naFields = Expanded(naText)
        /\ IsAddress(naText)
    BY <1>4, <2>1, Zenon DEF AInv
  <2>4. naBefore = 0 => BitsSeen(vChar) = BitsOf(naFields)
    <3>1. SUFFICES ASSUME naBefore = 0 PROVE BitsSeen(vChar) = BitsOf(naFields)
      OBVIOUS
    <3>2. naStr = Digits(naFields)
      BY <1>4, <2>1, <3>1, Zenon DEF AInv
    <3>3. \A ii \in 1..32 : vChar[ii] = naStr[ii]
      BY <2>3, <3>2, CharsRead, DigitsAreNibbles, Zenon
    <3> QED
      BY <2>3, <3>2, <3>3, SameBits, Zenon
  <2>5. naBefore = 0 => vNbBit' = LastBit(naFields)
    BY <2>1, <2>4, LastOfFields, Zenon
  <2> QED
    BY <2>1, <2>2, <2>3, <2>5, Zenon DEF AInv
<1>5. ASSUME AInv, UNCHANGED addressVars PROVE AInv'
  BY <1>5, Zenon DEF AInv, addressVars
<1>6. ASSUME AInv PROVE AddressTypeOK /\ ExpansionIsRight
  <2>1. naText \in Seq({Colon} \cup NaGroups)
    <3>1. CASE naText = <<>>
      BY <3>1
    <3>2. CASE IsAddress(naText)
      BY <3>2, AddressExpands, Zenon DEF Elements
    <3> QED
      BY <1>6, <3>1, <3>2, Zenon DEF AInv
  <2>2. naFields \in Seq(FieldValues)
    <3>1. CASE naFields = <<>>
      BY <3>1
    <3>2. CASE naFields \in [1..8 -> FieldValues]
      BY <3>2, NumberedAreSequence
    <3> QED
      BY <1>6, <3>1, <3>2, Zenon DEF AInv
  <2> QED
    BY <1>6, <2>1, <2>2, Zenon DEF AInv, AddressTypeOK, ExpansionIsRight
<1> QED
  BY <1>1, <1>2, <1>3, <1>4, <1>5, <1>6, Zenon DEF AddressNext
=============================================================================
