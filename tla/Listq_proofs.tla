----------------------------- MODULE Listq_proofs -----------------------------
(***************************************************************************)
(* The list of listq.c holds together, for any number of items: the links  *)
(* lead through the items in the order they were added, and what is        *)
(* allocated is what is linked.                                            *)
(***************************************************************************)
EXTENDS Listq, SequenceTheorems, TLAPS

\* The place before the first item, the items, and the place after the last.
Place(s, k) == IF k = 0 \/ k = Len(s) + 1 THEN End ELSE s[k]

Linked(n, p, s) ==
    \A k \in 0..Len(s) :
        /\ n[Place(s, k)] = Place(s, k + 1)
        /\ p[Place(s, k + 1)] = Place(s, k)

Distinct(s) == \A j, k \in 1..Len(s) : s[j] = s[k] => j = k

\* The loop looks at items of the list, for an operation of a list there is.
LInv ==
    /\ TypeOK
    /\ Distinct(order)
    /\ NothingLost
    /\ exists => Linked(next, prev, order)
    /\ pc # "idle" => exists
    /\ pc = "find" => item \in Items /\ cursor \in live \cup {End}

-----------------------------------------------------------------------------
(* Places of a list.                                                         *)

\* Two places of a list are the same only if they are the same place, or its
\* two ends.
LEMMA PlacesDiffer ==
    ASSUME NEW s \in Seq(Items), Distinct(s)
    PROVE  /\ \A k \in 0..Len(s) + 1 : Place(s, k) \in Places
           /\ \A k \in 1..Len(s) : Place(s, k) = s[k] /\ s[k] \in Items /\ s[k] # End
           /\ \A j, k \in 0..Len(s) : Place(s, j) = Place(s, k) => j = k
           /\ \A j, k \in 1..Len(s) + 1 : Place(s, j) = Place(s, k) => j = k
<1>1. Len(s) \in Nat /\ \A k \in 1..Len(s) : s[k] \in Items /\ s[k] # End
  BY ListqAssumption
<1>2. \A k \in 1..Len(s) : Place(s, k) = s[k]
  BY <1>1 DEF Place
<1>3. Place(s, 0) = End /\ Place(s, Len(s) + 1) = End
  BY <1>1 DEF Place
<1>4. \A k \in 0..Len(s) + 1 : Place(s, k) \in Places
  BY <1>1, <1>2, <1>3 DEF Places
<1>5. \A j, k \in 0..Len(s) : Place(s, j) = Place(s, k) => j = k
  BY <1>1, <1>2, <1>3 DEF Distinct
<1>6. \A j, k \in 1..Len(s) + 1 : Place(s, j) = Place(s, k) => j = k
  BY <1>1, <1>2, <1>3 DEF Distinct
<1> QED
  BY <1>1, <1>2, <1>4, <1>5, <1>6

\* The ring of the property, place by place.
LEMMA RingIsLinked ==
    ASSUME order \in Seq(Items)
    PROVE  exists /\ Linked(next, prev, order) => LinksMatchOrder
<1>1. Len(order) \in Nat
  OBVIOUS
<1>2. ASSUME NEW k \in 1..Len(order) + 2 PROVE Ring[k] = Place(order, k - 1)
  BY <1>1 DEF Ring, Place
<1>3. ASSUME Linked(next, prev, order), NEW k \in 1..Len(order) + 1
      PROVE  next[Ring[k]] = Ring[k + 1] /\ prev[Ring[k + 1]] = Ring[k]
  <2>1. Ring[k] = Place(order, k - 1) /\ Ring[k + 1] = Place(order, k)
    BY <1>1, <1>2
  <2>2. k - 1 \in 0..Len(order) /\ (k - 1) + 1 = k
    BY <1>1
  <2> QED
    BY <1>3, <2>1, <2>2 DEF Linked
<1> QED
  BY <1>3 DEF LinksMatchOrder

\* An item that the list does not hold, linked behind the last.
LEMMA AddKeepsLinks ==
    ASSUME NEW s \in Seq(Items), Distinct(s), NEW i \in Items,
           \A k \in 1..Len(s) : s[k] # i,
           NEW n \in [Places -> Places], NEW p \in [Places -> Places], Linked(n, p, s)
    PROVE  /\ Append(s, i) \in Seq(Items)
           /\ Len(Append(s, i)) = Len(s) + 1
           /\ Distinct(Append(s, i))
           /\ Linked([n EXCEPT ![i] = End, ![p[End]] = i],
                     [p EXCEPT ![i] = p[End], ![End] = i], Append(s, i))
<1> DEFINE t == Append(s, i)
           last == Place(s, Len(s))
           nn == [n EXCEPT ![i] = End, ![p[End]] = i]
           pp == [p EXCEPT ![i] = p[End], ![End] = i]
<1>1. /\ t \in Seq(Items) /\ Len(t) = Len(s) + 1 /\ Len(s) \in Nat
      /\ t[Len(s) + 1] = i /\ \A k \in 1..Len(s) : t[k] = s[k]
  OBVIOUS
<1> HIDE DEF t
<1>2. Distinct(t)
  BY <1>1 DEF Distinct
<1>3. /\ \A k \in 0..Len(s) : Place(t, k) = Place(s, k) /\ Place(s, k) # i
      /\ Place(t, Len(s) + 1) = i /\ Place(t, Len(s) + 2) = End
      /\ Place(s, Len(s) + 1) = End /\ i # End
      /\ i \in Places /\ End \in Places
  BY <1>1, ListqAssumption DEF Place, Places
<1>4. p[End] = last /\ last \in Places
  <2>1. Len(s) \in 0..Len(s)
    BY <1>1
  <2> QED
    BY <1>1, <1>3, <2>1, PlacesDiffer DEF Linked
<1>5. /\ \A x \in Places : nn[x] = IF x = last THEN i ELSE IF x = i THEN End ELSE n[x]
      /\ \A x \in Places : pp[x] = IF x = End THEN i ELSE IF x = i THEN last ELSE p[x]
  BY <1>3, <1>4
<1> HIDE DEF nn, pp
<1>6. ASSUME NEW k \in 0..Len(t)
      PROVE  nn[Place(t, k)] = Place(t, k + 1) /\ pp[Place(t, k + 1)] = Place(t, k)
  <2>1. CASE k < Len(s)
    <3>1. /\ k \in 0..Len(s) /\ k + 1 \in 0..Len(s) /\ k + 1 \in 1..Len(s)
          /\ Place(t, k) = Place(s, k) /\ Place(t, k + 1) = Place(s, k + 1)
      BY <1>1, <1>3, <2>1
    <3>2. /\ Place(s, k) # last /\ Place(s, k) # i /\ Place(s, k) \in Places
          /\ Place(s, k + 1) # End /\ Place(s, k + 1) # i /\ Place(s, k + 1) \in Places
      BY <1>1, <1>3, <2>1, <3>1, PlacesDiffer
    <3> QED
      BY <1>5, <3>1, <3>2 DEF Linked
  <2>2. CASE k = Len(s)
    <3>1. Place(t, k) = last /\ Place(t, k + 1) = i
      BY <1>1, <1>3, <2>2
    <3> QED
      BY <1>3, <1>4, <1>5, <3>1
  <2>3. CASE k = Len(s) + 1
    <3>1. Place(t, k) = i /\ Place(t, k + 1) = End /\ i # last
      BY <1>1, <1>3, <2>3
    <3> QED
      BY <1>3, <1>4, <1>5, <3>1
  <2> QED
    BY <1>1, <2>1, <2>2, <2>3
<1>7. Linked(nn, pp, t)
  BY <1>6 DEF Linked
<1> QED
  BY <1>1, <1>2, <1>7 DEF t, nn, pp

\* What is left when the first occurrence of an item, its only one, is removed.
LEMMA RemoveItem1 ==
    ASSUME NEW s \in Seq(Items), Distinct(s), NEW m \in 1..Len(s)
    PROVE  /\ RemoveFirst(s, s[m]) \in Seq(Items)
           /\ Len(RemoveFirst(s, s[m])) = Len(s) - 1
           /\ \A k \in 1..Len(s) - 1 :
                 RemoveFirst(s, s[m])[k] = IF k < m THEN s[k] ELSE s[k + 1]
<1>1. {k \in 1..Len(s) : s[k] = s[m]} = {m}
  BY DEF Distinct
<1>2. Min({m}) = m
  BY DEF Min
<1>3. SelectInSeq(s, LAMBDA v : v = s[m]) = m
  BY <1>1, <1>2 DEF SelectInSeq
<1>4. RemoveFirst(s, s[m]) = RemoveAt(s, m)
  BY <1>3 DEF RemoveFirst
<1> DEFINE a == SubSeq(s, 1, m - 1)
           b == SubSeq(s, m + 1, Len(s))
<1>5. /\ a \in Seq(Items) /\ Len(a) = m - 1
      /\ \A k \in 1..m - 1 : a[k] = s[k]
  OBVIOUS
<1>6. /\ b \in Seq(Items) /\ Len(b) = Len(s) - m
      /\ \A k \in 1..Len(s) - m : b[k] = s[k + m]
  OBVIOUS
<1> HIDE DEF a, b
<1>7. /\ a \o b \in Seq(Items) /\ Len(a \o b) = Len(s) - 1
      /\ \A k \in 1..Len(s) - 1 : (a \o b)[k] = IF k < m THEN s[k] ELSE s[k + 1]
  <2>1. Len(s) \in Nat /\ Len(a) + Len(b) = Len(s) - 1
    BY <1>5, <1>6
  <2>2. /\ a \o b \in Seq(Items) /\ Len(a \o b) = Len(a) + Len(b)
        /\ \A k \in 1..Len(a) + Len(b) :
              (a \o b)[k] = IF k <= Len(a) THEN a[k] ELSE b[k - Len(a)]
    BY <1>5, <1>6, ConcatProperties
  <2>3. ASSUME NEW k \in 1..Len(s) - 1, k < m PROVE (a \o b)[k] = s[k]
    BY <1>5, <2>1, <2>2, <2>3
  <2>4. ASSUME NEW k \in 1..Len(s) - 1, ~(k < m) PROVE (a \o b)[k] = s[k + 1]
    <3>1. /\ (a \o b)[k] = b[k - (m - 1)] /\ k - (m - 1) \in 1..Len(s) - m
      BY <1>5, <2>1, <2>2, <2>4
    <3>2. k - (m - 1) + m = k + 1
      OBVIOUS
    <3> QED
      BY <1>6, <3>1, <3>2
  <2> QED
    BY <2>1, <2>2, <2>3, <2>4
<1> QED
  BY <1>4, <1>7 DEF RemoveAt, a, b

\* An item of the list, unlinked.
LEMMA RemoveKeepsLinks ==
    ASSUME NEW s \in Seq(Items), Distinct(s), NEW m \in 1..Len(s),
           NEW n \in [Places -> Places], NEW p \in [Places -> Places], Linked(n, p, s)
    PROVE  /\ Distinct(RemoveFirst(s, s[m]))
           /\ Linked([n EXCEPT ![p[s[m]]] = n[s[m]], ![s[m]] = End],
                     [p EXCEPT ![n[s[m]]] = p[s[m]], ![s[m]] = End],
                     RemoveFirst(s, s[m]))
<1> DEFINE t == RemoveFirst(s, s[m])
           i == s[m]
           before == Place(s, m - 1)
           after == Place(s, m + 1)
           nn == [n EXCEPT ![p[i]] = n[i], ![i] = End]
           pp == [p EXCEPT ![n[i]] = p[i], ![i] = End]
<1>1. /\ t \in Seq(Items) /\ Len(t) = Len(s) - 1 /\ Len(s) \in Nat /\ m \in Nat
      /\ \A k \in 1..Len(s) - 1 : t[k] = IF k < m THEN s[k] ELSE s[k + 1]
  <2>1. Len(s) \in Nat /\ m \in Nat
    OBVIOUS
  <2> QED
    BY <2>1, RemoveItem1
<1> HIDE DEF t
<1>2. Distinct(t)
  <2> SUFFICES ASSUME NEW j \in 1..Len(t), NEW k \in 1..Len(t), t[j] = t[k] PROVE j = k
    BY DEF Distinct
  <2>1. PICK x \in 1..Len(s) : t[j] = s[x] /\ x = IF j < m THEN j ELSE j + 1
    BY <1>1
  <2>2. PICK y \in 1..Len(s) : t[k] = s[y] /\ y = IF k < m THEN k ELSE k + 1
    BY <1>1
  <2>3. x = y
    BY <2>1, <2>2 DEF Distinct
  <2> QED
    BY <2>1, <2>2, <2>3
<1>3. /\ Place(s, m) = i /\ i \in Places /\ before \in Places /\ after \in Places
      /\ before # i /\ after # i
  <2>1. m - 1 \in 0..Len(s) /\ m \in 0..Len(s) /\ m + 1 \in 1..Len(s) + 1
        /\ m \in 1..Len(s) + 1 /\ m - 1 \in 0..Len(s) + 1 /\ m + 1 \in 0..Len(s) + 1
        /\ m - 1 # m /\ m + 1 # m /\ m \in 0..Len(s) + 1
    BY <1>1
  <2>2. Place(s, m) = i
    BY PlacesDiffer
  <2>3. i \in Places /\ before \in Places /\ after \in Places
    BY <2>1, <2>2, PlacesDiffer
  <2>4. before # i
    BY <2>1, <2>2, PlacesDiffer
  <2>5. after # i
    BY <2>1, <2>2, PlacesDiffer
  <2> QED
    BY <2>2, <2>3, <2>4, <2>5
<1>4. p[i] = before /\ n[i] = after
  <2>1. m - 1 \in 0..Len(s) /\ m \in 0..Len(s) /\ (m - 1) + 1 = m
    BY <1>1
  <2> QED
    BY <1>3, <2>1 DEF Linked
<1>5. /\ \A x \in Places : nn[x] = IF x = i THEN End ELSE IF x = before THEN after ELSE n[x]
      /\ \A x \in Places : pp[x] = IF x = i THEN End ELSE IF x = after THEN before ELSE p[x]
  BY <1>3, <1>4
<1> HIDE DEF nn, pp, i, before, after
<1>6. /\ \A k \in 0..Len(t) + 1 : k < m => Place(t, k) = Place(s, k)
      /\ \A k \in 0..Len(t) + 1 : k >= m => Place(t, k) = Place(s, k + 1)
  <2>1. m \in 1..Len(s) /\ Len(t) = Len(s) - 1 /\ Len(s) \in Nat
    BY <1>1
  <2>2. ASSUME NEW k \in 0..Len(t) + 1, k < m PROVE Place(t, k) = Place(s, k)
    <3>1. k = 0 \/ k \in 1..Len(s) - 1
      BY <2>1, <2>2
    <3>2. k \in 1..Len(s) - 1 => t[k] = s[k]
      BY <1>1, <2>2
    <3> QED
      BY ONLY <2>1, <2>2, <3>1, <3>2 DEF Place
  <2>3. ASSUME NEW k \in 0..Len(t) + 1, k >= m PROVE Place(t, k) = Place(s, k + 1)
    <3>1. k = Len(s) \/ k \in 1..Len(s) - 1
      BY <2>1, <2>3
    <3>2. k \in 1..Len(s) - 1 => t[k] = s[k + 1]
      <4>1. k \in Nat /\ m \in Nat /\ ~(k < m)
        BY <2>1, <2>3
      <4> QED
        BY <1>1, <4>1
    <3> QED
      BY ONLY <2>1, <2>3, <3>1, <3>2 DEF Place
  <2> QED
    BY <2>2, <2>3
<1>7. ASSUME NEW k \in 0..Len(t)
      PROVE  nn[Place(t, k)] = Place(t, k + 1) /\ pp[Place(t, k + 1)] = Place(t, k)
  <2>1. CASE k + 1 < m
    <3>1. /\ Place(t, k) = Place(s, k) /\ Place(t, k + 1) = Place(s, k + 1)
      BY <1>1, <1>6, <2>1
    <3>2. /\ k \in 0..Len(s) /\ m \in 0..Len(s) /\ m - 1 \in 0..Len(s)
          /\ k + 1 \in 1..Len(s) + 1 /\ m \in 1..Len(s) + 1 /\ m + 1 \in 1..Len(s) + 1
          /\ k + 1 \in 0..Len(s) + 1 /\ k \in 0..Len(s) + 1
          /\ k # m /\ k # m - 1 /\ k + 1 # m /\ k + 1 # m + 1
      BY <1>1, <2>1
    <3>3. /\ Place(s, k) # i /\ Place(s, k) # before /\ Place(s, k) \in Places
      BY <1>3, <3>2, PlacesDiffer DEF before
    <3>4. /\ Place(s, k + 1) # i /\ Place(s, k + 1) # after /\ Place(s, k + 1) \in Places
      BY <1>3, <3>2, PlacesDiffer DEF after
    <3>5. n[Place(s, k)] = Place(s, k + 1) /\ p[Place(s, k + 1)] = Place(s, k)
      BY <3>2 DEF Linked
    <3> QED
      BY <1>5, <3>1, <3>3, <3>4, <3>5
  <2>2. CASE k + 1 = m
    <3>1. Place(t, k) = before /\ Place(t, k + 1) = after
      BY <1>1, <1>6, <2>2 DEF before, after
    <3> QED
      BY <1>3, <1>5, <3>1
  <2>3. CASE k >= m
    <3>1. /\ Place(t, k) = Place(s, k + 1) /\ Place(t, k + 1) = Place(s, k + 2)
      BY <1>1, <1>6, <2>3
    <3>2. /\ k + 1 \in 0..Len(s) /\ m \in 0..Len(s) /\ m - 1 \in 0..Len(s)
          /\ k + 2 \in 1..Len(s) + 1 /\ m \in 1..Len(s) + 1 /\ m + 1 \in 1..Len(s) + 1
          /\ k + 2 \in 0..Len(s) + 1 /\ k + 1 \in 0..Len(s) + 1 /\ (k + 1) + 1 = k + 2
          /\ k + 1 # m /\ k + 1 # m - 1 /\ k + 2 # m /\ k + 2 # m + 1
      BY <1>1, <2>3
    <3>3. /\ Place(s, k + 1) # i /\ Place(s, k + 1) # before /\ Place(s, k + 1) \in Places
      BY <1>3, <3>2, PlacesDiffer DEF before
    <3>4. /\ Place(s, k + 2) # i /\ Place(s, k + 2) # after /\ Place(s, k + 2) \in Places
      BY <1>3, <3>2, PlacesDiffer DEF after
    <3>5. n[Place(s, k + 1)] = Place(s, k + 2) /\ p[Place(s, k + 2)] = Place(s, k + 1)
      BY <3>2 DEF Linked
    <3> QED
      BY <1>5, <3>1, <3>3, <3>4, <3>5
  <2> QED
    BY <1>1, <2>1, <2>2, <2>3
<1>8. Linked(nn, pp, t)
  BY <1>7 DEF Linked
<1> QED
  BY <1>2, <1>8 DEF t, nn, pp, i

-----------------------------------------------------------------------------
(* The steps.                                                                *)

\* Before the first list there is nothing to hold together.
LEMMA InitLInv == Init => LInv
<1> SUFFICES ASSUME Init PROVE LInv
  OBVIOUS
<1>1. /\ next \in [Places -> Places] /\ prev \in [Places -> Places]
      /\ End \in Places
  BY DEF Init, Places
<1>2. /\ data \in [Items -> Data \cup {Nil}] /\ contained \in [Items -> BOOLEAN]
      /\ order \in Seq(Items) /\ live = {} /\ order = <<>> /\ exists = FALSE
      /\ m_Size = 0 /\ pc = "idle"
  BY DEF Init
<1>3. TypeOK
  <2>1. /\ given = {} /\ caller = "remove" /\ item = Nil /\ cursor = End
    BY DEF Init
  <2> QED
    BY <1>1, <1>2, <2>1 DEF TypeOK
<1>4. NothingLost /\ Distinct(order)
  BY <1>2 DEF NothingLost, Distinct
<1> QED
  BY <1>2, <1>3, <1>4 DEF LInv

\* From an item of the list, or the head, the links lead to another or the end;
\* a list whose head leads to the end is empty.
LEMMA LinksStay ==
    ASSUME LInv, exists
    PROVE  /\ \A x \in live \cup {End} : next[x] \in live \cup {End}
           /\ next[End] = End => order = <<>> /\ live = {} /\ m_Size = 0
           /\ live \subseteq Items
<1>1. /\ order \in Seq(Items) /\ Len(order) \in Nat /\ Distinct(order)
      /\ live = {order[k] : k \in 1..Len(order)} /\ Linked(next, prev, order)
      /\ Len(order) = m_Size
  BY DEF LInv, TypeOK, NothingLost
<1>2. \A k \in 0..Len(order) + 1 : Place(order, k) \in live \cup {End}
  BY <1>1 DEF Place
<1>3. ASSUME NEW x \in live \cup {End} PROVE next[x] \in live \cup {End}
  <2>1. PICK k \in 0..Len(order) : x = Place(order, k)
    <3>1. CASE x = End
      BY <1>1, <3>1 DEF Place
    <3>2. CASE x \in live
      BY <1>1, <3>2, PlacesDiffer
    <3> QED
      BY <3>1, <3>2
  <2>2. next[x] = Place(order, k + 1) /\ k + 1 \in 0..Len(order) + 1
    BY <1>1, <2>1 DEF Linked
  <2> QED
    BY <1>2, <2>2
<1>4. ASSUME next[End] = End PROVE Len(order) = 0
  <2>1. Place(order, 0) = End /\ 0 \in 0..Len(order) /\ 0 + 1 = 1
    BY <1>1 DEF Place
  <2>2. Place(order, 1) = End
    BY <1>1, <1>4, <2>1 DEF Linked
  <2> QED
    BY <1>1, <2>2, PlacesDiffer
<1>5. Len(order) = 0 => order = <<>> /\ live = {}
  BY <1>1
<1> QED
  BY <1>1, <1>3, <1>4, <1>5

\* An operation begins, goes on in its loop or only returns a value.
LEMMA NoChangeKeeps ==
    ASSUME LInv, UNCHANGED memory,
           \/ pc' \in {"idle", "loop"} /\ item' \in Items \cup {Nil} /\ cursor' \in Places
              /\ caller' \in {"remove", "clean", "destroy"} /\ (pc' = "loop" => exists)
           \/ /\ exists /\ pc' = "find" /\ item' \in Items
              /\ caller' \in {"remove", "clean", "destroy"}
              /\ \E x \in live \cup {End} : cursor' = next[x] \/ cursor' = next[next[x]]
    PROVE  LInv'
<1>1. UNCHANGED <<exists, next, prev, data, contained, m_Size, live, given, order>>
  BY DEF memory
<1>2. pc' = "find" => cursor' \in live \cup {End} /\ exists
  BY LinksStay
<1>3. live \cup {End} \subseteq Places
  BY DEF LInv, TypeOK, Places
<1>4. TypeOK'
  BY <1>1, <1>2, <1>3 DEF LInv, TypeOK
<1>5. NothingLost'
  BY <1>1 DEF LInv, NothingLost
<1> QED
  BY <1>1, <1>2, <1>4, <1>5 DEF LInv

\* listq_create() makes an empty ring.
LEMMA CreateKeeps == ASSUME LInv, listq_create PROVE LInv'
<1>1. /\ pc = "idle" /\ ~exists /\ exists' = TRUE /\ m_Size' = 0
      /\ next' = [next EXCEPT ![End] = End] /\ prev' = [prev EXCEPT ![End] = End]
      /\ UNCHANGED <<data, contained, live, given, order, pc, caller, item, cursor>>
  BY DEF listq_create, locals
<1>2. live = {} /\ order \in Seq(Items) /\ live = {order[k] : k \in DOMAIN order}
  BY <1>1 DEF LInv, TypeOK, NothingLost
<1>3. Len(order) = 0
  <2>1. Len(order) \in Nat /\ DOMAIN order = 1..Len(order)
    BY <1>2
  <2>2. ASSUME 1 \in DOMAIN order PROVE FALSE
    <3>1. order[1] \in live
      BY <1>2, <2>2, Zenon
    <3> QED
      BY <1>2, <3>1
  <2> QED
    BY <2>1, <2>2
<1>4. /\ next' \in [Places -> Places] /\ prev' \in [Places -> Places]
      /\ next'[End] = End /\ prev'[End] = End
  BY <1>1 DEF LInv, TypeOK, Places
<1>5. TypeOK'
  BY <1>1, <1>4 DEF LInv, TypeOK
<1>6. Linked(next', prev', order')
  BY <1>1, <1>3, <1>4 DEF Linked, Place
<1>7. NothingLost'
  BY <1>1, <1>2, <1>3 DEF NothingLost
<1> QED
  BY <1>1, <1>5, <1>6, <1>7 DEF LInv

\* listq_add_tail() links a new item behind the last.
LEMMA AddKeeps ==
    ASSUME LInv, NEW d \in Data \cup {Nil}, listq_add_tail(d), ~UNCHANGED memory
    PROVE  LInv'
<1>1. /\ pc = "idle" /\ exists /\ d # Nil /\ m_Size' = m_Size + 1
      /\ UNCHANGED <<exists, pc, caller, item, cursor>>
  BY DEF listq_add_tail, Returns, locals
<1>2. PICK i \in Items \ live :
             /\ next' = [next EXCEPT ![i] = End, ![prev[End]] = i]
             /\ prev' = [prev EXCEPT ![i] = prev[End], ![End] = i]
             /\ data' = [data EXCEPT ![i] = d]
             /\ contained' = [contained EXCEPT ![i] = TRUE]
             /\ live' = live \cup {i}
             /\ given' = given \cup {i}
             /\ order' = Append(order, i)
  BY DEF listq_add_tail, Returns
<1>3. /\ order \in Seq(Items) /\ Distinct(order) /\ Linked(next, prev, order)
      /\ next \in [Places -> Places] /\ prev \in [Places -> Places]
      /\ live = {order[k] : k \in 1..Len(order)} /\ Len(order) = m_Size
      /\ live \subseteq Items
  BY <1>1 DEF LInv, TypeOK, NothingLost
<1>4. \A k \in 1..Len(order) : order[k] # i
  BY <1>2, <1>3
<1>5. /\ order' \in Seq(Items) /\ Len(order') = Len(order) + 1 /\ Distinct(order')
      /\ Linked(next', prev', order')
  BY <1>2, <1>3, <1>4, AddKeepsLinks
<1>6. next' \in [Places -> Places] /\ prev' \in [Places -> Places]
  BY <1>2, <1>3 DEF Places
<1>7. /\ data' \in [Items -> Data \cup {Nil}] /\ contained' \in [Items -> BOOLEAN]
      /\ \A j \in live' : contained'[j]
      /\ live' \in SUBSET Items /\ given' \in SUBSET Items
  BY <1>2, <1>3 DEF LInv, TypeOK, NothingLost
<1>8. TypeOK'
  BY <1>1, <1>5, <1>6, <1>7 DEF LInv, TypeOK
<1>9. live' = {order'[k] : k \in DOMAIN order'}
  <2>1. /\ Len(order) \in Nat /\ DOMAIN order' = 1..Len(order) + 1
        /\ order'[Len(order) + 1] = i
        /\ \A k \in 1..Len(order) : order'[k] = order[k]
    BY <1>2, <1>3
  <2> QED
    BY <1>2, <1>3, <2>1
<1>10. NothingLost'
  BY <1>1, <1>3, <1>5, <1>7, <1>9 DEF NothingLost
<1> QED
  BY <1>1, <1>5, <1>8, <1>10 DEF LInv

\* Unlinking the item that was found keeps all the others in place.
LEMMA FoundKeeps == ASSUME LInv, Found PROVE LInv'
<1>1. /\ pc = "find" /\ exists /\ item \in Items /\ cursor = item /\ item \in live
      /\ m_Size' = m_Size - 1 /\ live' = live \ {item}
      /\ order' = RemoveFirst(order, item)
      /\ item' = Nil /\ cursor' = End
      /\ UNCHANGED <<exists, given, caller>>
  BY ListqAssumption DEF Found, LInv, RemoveReturns
<1>2. /\ next' = [next EXCEPT ![prev[item]] = next[item], ![item] = End]
      /\ prev' = [prev EXCEPT ![next[item]] = prev[item], ![item] = End]
      /\ data' = [data EXCEPT ![item] = Nil]
      /\ \E b \in BOOLEAN : contained' = [contained EXCEPT ![item] = b]
      /\ pc' \in {"idle", "loop"}
  BY DEF Found, Unlinked, RemoveReturns
<1>3. /\ order \in Seq(Items) /\ Distinct(order) /\ Linked(next, prev, order)
      /\ next \in [Places -> Places] /\ prev \in [Places -> Places]
      /\ live = {order[k] : k \in 1..Len(order)} /\ Len(order) = m_Size
      /\ live \subseteq Items /\ Len(order) \in Nat
  BY <1>1 DEF LInv, TypeOK, NothingLost
<1>4. PICK m \in 1..Len(order) : item = order[m]
  BY <1>1, <1>3
<1>5. /\ order' \in Seq(Items) /\ Len(order') = Len(order) - 1
      /\ \A k \in 1..Len(order) - 1 :
            order'[k] = IF k < m THEN order[k] ELSE order[k + 1]
  BY <1>1, <1>3, <1>4, RemoveItem1
<1>6. Distinct(order') /\ Linked(next', prev', order')
  BY <1>1, <1>2, <1>3, <1>4, RemoveKeepsLinks
<1>7. next' \in [Places -> Places] /\ prev' \in [Places -> Places]
  <2>1. item \in Places /\ End \in Places
    BY <1>1 DEF Places
  <2> QED
    BY <1>2, <1>3, <2>1
<1>8. /\ data' \in [Items -> Data \cup {Nil}] /\ contained' \in [Items -> BOOLEAN]
      /\ \A j \in live' : contained'[j]
  BY <1>1, <1>2, <1>3 DEF LInv, TypeOK, NothingLost
<1>9. m_Size' \in Nat /\ Len(order') = m_Size'
  BY <1>1, <1>3, <1>4, <1>5
<1>10. TypeOK'
  <2>1. End \in Places /\ pc' \in {"idle", "find", "loop"}
    BY <1>2 DEF Places
  <2> QED
    BY <1>1, <1>3, <1>5, <1>7, <1>8, <1>9, <2>1 DEF LInv, TypeOK
<1>11. live' = {order'[k] : k \in DOMAIN order'}
  <2>1. DOMAIN order' = 1..Len(order) - 1
    BY <1>5
  <2>2. ASSUME NEW k \in 1..Len(order) - 1 PROVE order'[k] \in live \ {item}
    <3> DEFINE x == IF k < m THEN k ELSE k + 1
    <3>1. /\ order'[k] = order[x] /\ x \in 1..Len(order) /\ x # m
      BY <1>3, <1>4, <1>5
    <3> HIDE DEF x
    <3> QED
      BY <1>3, <1>4, <3>1 DEF Distinct
  <2>3. ASSUME NEW j \in live \ {item} PROVE \E k \in 1..Len(order) - 1 : order'[k] = j
    <3>1. PICK x \in 1..Len(order) : j = order[x] /\ x # m
      BY <1>3, <1>4, <2>3
    <3>2. CASE x < m
      BY <1>3, <1>5, <3>1, <3>2
    <3>3. CASE x > m
      <4>1. x - 1 \in 1..Len(order) - 1 /\ order'[x - 1] = order[(x - 1) + 1]
        BY <1>3, <1>5, <3>1, <3>3
      <4> QED
        BY <3>1, <4>1
    <3> QED
      BY <3>1, <3>2, <3>3
  <2> QED
    BY <1>1, <2>1, <2>2, <2>3
<1>12. NothingLost'
  BY <1>1, <1>8, <1>9, <1>11 DEF NothingLost
<1> QED
  BY <1>1, <1>2, <1>6, <1>10, <1>12 DEF LInv

\* When the first place is the end there is no item, and the counter is zero.
LEMMA CleanDoneKeeps == ASSUME LInv, CleanDone PROVE LInv'
<1>1. /\ pc = "loop" /\ next[End] = End /\ exists /\ pc' = "idle" /\ m_Size' = 0
      /\ exists' \in BOOLEAN
      /\ UNCHANGED <<next, prev, data, contained, live, given, order, caller, item, cursor>>
  BY DEF CleanDone, LInv
<1>2. order = <<>> /\ live = {} /\ m_Size = 0
  BY <1>1, LinksStay
<1>3. TypeOK'
  BY <1>1, <1>2 DEF LInv, TypeOK
<1>4. NothingLost'
  BY <1>1, <1>2 DEF LInv, NothingLost
<1> QED
  BY <1>1, <1>3, <1>4 DEF LInv

\* Every step keeps the invariant of the list.
LEMMA NextLInv == LInv /\ [Next]_vars => LInv'
<1> SUFFICES ASSUME LInv, [Next]_vars PROVE LInv'
  OBVIOUS
<1> USE DEF locals
<1>1. /\ item \in Items \cup {Nil} /\ cursor \in Places /\ End \in Places
      /\ caller \in {"remove", "clean", "destroy"}
      /\ pc \in {"idle", "find", "loop"}
  BY DEF LInv, TypeOK, Places
<1>2. ASSUME UNCHANGED <<memory, locals>> PROVE LInv'
  <2>1. UNCHANGED <<exists, next, prev, data, contained, m_Size, live, given, order,
                    pc, caller, item, cursor>>
    BY <1>2 DEF memory
  <2>2. TypeOK' /\ NothingLost'
    BY <2>1 DEF LInv, TypeOK, NothingLost
  <2> QED
    BY <2>1, <2>2 DEF LInv
<1>3. CASE UNCHANGED vars \/ listq_size \/ listq_head \/ listq_next \/ listq_getData
  BY <1>2, <1>3 DEF vars, listq_size, listq_head, listq_next, listq_getData, Returns
<1>4. ASSUME NEW d \in Data \cup {Nil}, listq_add_tail(d) PROVE LInv'
  <2>1. CASE UNCHANGED memory
    <3>1. Returns(Ret("add", Nil, Nil)) \/ (pc = "idle" /\ UNCHANGED locals)
      BY <1>4 DEF listq_add_tail
    <3> QED
      BY <1>2, <2>1, <3>1 DEF Returns
  <2> QED
    BY <1>4, <2>1, AddKeeps
<1>5. ASSUME NEW i \in given \cup {Nil}, listq_removeItem(i) PROVE LInv'
  <2>1. CASE Returns(Ret("remove", i, -1))
    BY <1>2, <2>1 DEF Returns
  <2>2. CASE /\ exists /\ i # Nil /\ StartFind(i) /\ caller' = "remove" /\ UNCHANGED memory
    <3>1. i \in Items
      BY <2>2 DEF LInv, TypeOK
    <3> QED
      BY <2>2, <3>1, NoChangeKeeps DEF StartFind
  <2> QED
    BY <1>5, <2>1, <2>2 DEF listq_removeItem
<1>6. ASSUME NEW o \in {"clean", "destroy"}, listq_clean(o) PROVE LInv'
  <2>1. CASE exists
    BY <1>1, <1>6, <2>1, NoChangeKeeps DEF listq_clean
  <2>2. CASE ~exists
    BY <1>2, <1>6, <2>2 DEF listq_clean, Returns
  <2> QED
    BY <2>1, <2>2
<1>7. CASE listq_FindItem
  <2>1. pc = "find" /\ exists /\ item \in Items
    BY <1>7 DEF listq_FindItem, LInv
  <2>2. End \in live \cup {End}
    OBVIOUS
  <2> QED
    BY <1>1, <1>7, <2>1, <2>2, NoChangeKeeps DEF listq_FindItem
<1>8. CASE NotFound
  <2>1. /\ pc' \in {"idle", "loop"} /\ item' = Nil /\ cursor' = End /\ caller' = caller
        /\ exists /\ UNCHANGED memory
    BY <1>8 DEF NotFound, RemoveReturns, LInv
  <2> QED
    BY <1>1, <2>1, NoChangeKeeps
<1>9. CASE CleanFirst
  <2>1. /\ exists /\ next[End] \in Items /\ UNCHANGED <<memory, caller>>
        /\ pc' = "find" /\ item' = next[End] /\ cursor' = next[End]
    <3>1. exists
      BY <1>9 DEF CleanFirst, LInv
    <3>2. next[End] \in live \cup {End} /\ live \subseteq Items
      BY <3>1, LinksStay
    <3> QED
      BY <1>9, <3>1, <3>2 DEF CleanFirst, StartFind
  <2>2. End \in live \cup {End}
    OBVIOUS
  <2> QED
    BY <1>1, <2>1, <2>2, NoChangeKeeps
<1> QED
  BY <1>3, <1>4, <1>5, <1>6, <1>7, <1>8, <1>9, CreateKeeps, FoundKeeps, CleanDoneKeeps
  DEF Next, Progress, listq_destroy

-----------------------------------------------------------------------------
\* The inductive invariant of the list.
THEOREM LInvCorrect == Spec => []LInv
  BY InitLInv, NextLInv, PTL DEF Spec

\* The variables have their types; the counter is never below zero.
THEOREM ListTypeCorrect == Spec => []TypeOK
<1>1. LInv => TypeOK
  BY DEF LInv
<1> QED
  BY <1>1, LInvCorrect, PTL

\* The links tie the items together in the order of their addition.
THEOREM LinksCorrect == Spec => []LinksMatchOrder
<1>1. LInv => LinksMatchOrder
  BY RingIsLinked DEF LInv, TypeOK, LinksMatchOrder
<1> QED
  BY <1>1, LInvCorrect, PTL

\* What is allocated is what the list holds.
THEOREM NothingLostCorrect == Spec => []NothingLost
<1>1. LInv => NothingLost
  BY DEF LInv
<1> QED
  BY <1>1, LInvCorrect, PTL

-----------------------------------------------------------------------------
(* The list implements the ordered list.                                    *)

\* Where the search has come: at the first item, or past it.  And a search or a
\* loop that is not for removeItem() is one of clean or destroy.
FindInv ==
    /\ pc = "find" => \/ cursor = next[End]
                      \/ cursor = next[next[End]] /\ item # next[End]
    /\ pc = "loop" => caller # "remove"

\* No search is in progress before the first list.
LEMMA InitFindInv == Init => FindInv
  BY DEF Init, FindInv

\* Every step keeps the search where the loop can have brought it.
LEMMA NextFindInv == LInv /\ FindInv /\ [Next]_vars => FindInv'
<1> SUFFICES ASSUME LInv, FindInv, [Next]_vars PROVE FindInv'
  OBVIOUS
<1>1. ASSUME UNCHANGED <<next, pc, caller, item, cursor>> PROVE FindInv'
  BY <1>1 DEF FindInv
<1>2. ASSUME pc' = "idle" PROVE FindInv'
  BY <1>2 DEF FindInv
<1>3. CASE UNCHANGED vars \/ listq_size \/ listq_head \/ listq_next \/ listq_getData
  BY <1>1, <1>3
  DEF vars, memory, locals, listq_size, listq_head, listq_next, listq_getData, Returns
<1>4. CASE listq_create \/ \E d \in Data \cup {Nil} : listq_add_tail(d)
  BY <1>2, <1>4 DEF listq_create, listq_add_tail, Returns, locals
<1>5. ASSUME NEW i, listq_removeItem(i) PROVE FindInv'
  BY <1>5 DEF FindInv, listq_removeItem, StartFind, Returns, memory, locals
<1>6. ASSUME NEW o \in {"clean", "destroy"}, listq_clean(o) PROVE FindInv'
  BY <1>6 DEF FindInv, listq_clean, Returns, memory, locals
<1>7. CASE listq_FindItem
  BY <1>7 DEF FindInv, listq_FindItem, memory
<1>8. CASE NotFound \/ Found
  BY <1>8 DEF FindInv, NotFound, Found, RemoveReturns
<1>9. CASE CleanFirst
  BY <1>9 DEF FindInv, CleanFirst, StartFind, memory
<1>10. CASE CleanDone
  BY <1>2, <1>10 DEF CleanDone
<1> QED
  BY <1>3, <1>4, <1>5, <1>6, <1>7, <1>8, <1>9, <1>10 DEF Next, Progress, listq_destroy

\* The items of the ordered list, while no clean or destroy is in progress.
LEMMA ItemsOf ==
    ASSUME LInv, ~Cleaning
    PROVE  /\ DOMAIN ListItems = 1..Len(order) /\ Len(ListItems) = Len(order)
           /\ Len(order) \in Nat
           /\ ListItems \in Seq(Items \X (Data \cup {Nil}))
           /\ \A k \in 1..Len(order) :
                 /\ ListItems[k] = <<order[k], data[order[k]]>>
                 /\ ListItems[k][1] = order[k] /\ ListItems[k][2] = data[order[k]]
           /\ List!Members = live
           /\ ListExists <=> exists
           /\ ListRet = ret
<1>1. /\ order \in Seq(Items) /\ Len(order) \in Nat /\ DOMAIN order = 1..Len(order)
      /\ live = {order[k] : k \in DOMAIN order}
      /\ data \in [Items -> Data \cup {Nil}]
  BY DEF LInv, TypeOK, NothingLost
<1>2. ListItems = [k \in 1..Len(order) |-> <<order[k], data[order[k]]>>]
  BY <1>1 DEF ListItems
<1>3. ListItems \in Seq(Items \X (Data \cup {Nil})) /\ Len(ListItems) = Len(order)
  BY <1>1, <1>2
<1>4. \A k \in 1..Len(order) :
         /\ ListItems[k] = <<order[k], data[order[k]]>>
         /\ ListItems[k][1] = order[k] /\ ListItems[k][2] = data[order[k]]
  BY <1>2
<1>5. DOMAIN ListItems = 1..Len(order)
  BY <1>2
<1>6. List!Members = live
  BY <1>1, <1>4, <1>5 DEF List!Members
<1> QED
  BY <1>1, <1>3, <1>4, <1>5, <1>6 DEF ListExists, ListRet

\* An operation that only returns a value changes nothing else.
LEMMA OnlyReturns ==
    ASSUME NEW r, Returns(r)
    PROVE  /\ ~Cleaning /\ UNCHANGED <<ListExists, ListItems>> /\ ListRet' = r
  BY DEF Returns, memory, locals, Cleaning, ListExists, ListItems, ListRet

\* What the list says of itself and of its items is what is true of them.
LEMMA LookImplements ==
    ASSUME LInv, listq_size \/ listq_head \/ listq_next \/ listq_getData
    PROVE  List!Look
<1>1. PICK r : Returns(r) /\ (\/ r = Ret("size", Nil, IF exists THEN m_Size ELSE -1)
                              \/ exists /\ r = Ret("head", Nil, Handle(next[End]))
                              \/ r \in {Ret("next", Nil, Nil), Ret("data", Nil, Nil)}
                              \/ \E i \in live : \/ r = Ret("next", i, Handle(next[i]))
                                                \/ r = Ret("data", i, data[i]))
  BY Zenon DEF listq_size, listq_head, listq_next, listq_getData
<1>2. /\ UNCHANGED <<ListExists, ListItems>> /\ ListRet' = r /\ ~Cleaning
  BY <1>1, OnlyReturns
<1>3. /\ DOMAIN ListItems = 1..Len(order) /\ Len(ListItems) = Len(order)
      /\ Len(order) \in Nat /\ (ListExists <=> exists)
      /\ \A k \in 1..Len(order) :
            ListItems[k][1] = order[k] /\ ListItems[k][2] = data[order[k]]
  BY <1>2, ItemsOf
<1>4. /\ order \in Seq(Items) /\ Len(order) = m_Size /\ Distinct(order)
      /\ live = {order[k] : k \in 1..Len(order)}
  BY DEF LInv, TypeOK, NothingLost
<1>5. ASSUME r = Ret("size", Nil, IF exists THEN m_Size ELSE -1)
      PROVE  ListRet' = List!Ret("size", Nil, IF ListExists THEN Len(ListItems) ELSE -1)
  BY <1>2, <1>3, <1>4, <1>5 DEF Ret, List!Ret
<1>6. ASSUME exists, r = Ret("head", Nil, Handle(next[End]))
      PROVE  ListRet' = List!Ret("head", Nil, IF ListItems = <<>> THEN Nil
                                              ELSE ListItems[1][1])
  <2>1. next[End] = Place(order, 1)
    <3>1. Linked(next, prev, order) /\ 0 \in 0..Len(order) /\ Place(order, 0) = End
      BY <1>3, <1>6 DEF LInv, Place
    <3>2. 0 + 1 = 1
      OBVIOUS
    <3> QED
      BY <3>1, <3>2 DEF Linked
  <2>2. CASE Len(order) = 0
    <3>1. ListItems = <<>>
      BY <1>3, <2>2, <1>2, ItemsOf
    <3>2. Handle(next[End]) = Nil
      BY <2>1, <2>2 DEF Place, Handle
    <3> QED
      BY <1>2, <1>6, <3>1, <3>2 DEF Ret, List!Ret
  <2>3. CASE Len(order) # 0
    <3>1. 1 \in 1..Len(order) /\ order[1] # End
      BY <1>3, <1>4, <2>3, PlacesDiffer
    <3>2. ListItems # <<>>
      BY <1>3, <2>3
    <3>3. Handle(next[End]) = order[1]
      BY <2>1, <3>1, <1>4, PlacesDiffer DEF Handle
    <3> QED
      BY <1>2, <1>3, <1>6, <3>1, <3>2, <3>3 DEF Ret, List!Ret
  <2> QED
    BY <2>2, <2>3
<1>7. ASSUME NEW i \in live, \/ r = Ret("next", i, Handle(next[i]))
                             \/ r = Ret("data", i, data[i])
      PROVE  \E k \in DOMAIN ListItems :
                \/ ListRet' = List!Ret("next", ListItems[k][1],
                                IF k = Len(ListItems) THEN Nil ELSE ListItems[k + 1][1])
                \/ ListRet' = List!Ret("data", ListItems[k][1], ListItems[k][2])
  <2>1. PICK k \in 1..Len(order) : i = order[k]
    BY <1>4
  <2>2. CASE r = Ret("data", i, data[i])
    BY <1>2, <1>3, <2>1, <2>2 DEF Ret, List!Ret
  <2>3. CASE r = Ret("next", i, Handle(next[i]))
    <3>1. Linked(next, prev, order)
      <4>1. exists \/ live = {}
        BY DEF LInv, NothingLost
      <4> QED
        BY <1>7, <4>1 DEF LInv
    <3>2. next[i] = Place(order, k + 1)
      <4>1. k \in 0..Len(order) /\ Place(order, k) = order[k]
        BY <1>3, <1>4, <2>1, PlacesDiffer
      <4> QED
        BY <2>1, <3>1, <4>1 DEF Linked
    <3>3. CASE k = Len(order)
      <4>1. Handle(next[i]) = Nil
        BY <1>3, <3>2, <3>3 DEF Place, Handle
      <4> QED
        BY <1>2, <1>3, <2>1, <2>3, <3>3, <4>1 DEF Ret, List!Ret
    <3>4. CASE k # Len(order)
      <4>1. k + 1 \in 1..Len(order)
        <5>1. Len(order) \in Nat /\ k \in 1..Len(order)
          BY <1>3, <2>1
        <5> QED
          BY ONLY <5>1, <3>4
      <4>2. Handle(next[i]) = order[k + 1]
        BY <1>4, <3>2, <4>1, PlacesDiffer DEF Handle
      <4> QED
        <5>1. k \in DOMAIN ListItems /\ Len(ListItems) = Len(order)
          BY <1>3, <2>1
        <5>2. ListItems[k][1] = i /\ ListItems[k + 1][1] = order[k + 1]
          BY <1>3, <2>1, <4>1
        <5>3. ListRet' = List!Ret("next", i, order[k + 1])
          BY <1>2, <2>3, <4>2 DEF Ret, List!Ret
        <5> QED
          BY <3>4, <5>1, <5>2, <5>3
    <3> QED
      BY <3>3, <3>4
  <2> QED
    BY <1>7, <2>2, <2>3
<1>8. ASSUME r \in {Ret("next", Nil, Nil), Ret("data", Nil, Nil)}
      PROVE  ListRet' \in {List!Ret("next", Nil, Nil), List!Ret("data", Nil, Nil)}
  BY <1>2, <1>8 DEF Ret, List!Ret
<1> QED
  BY <1>1, <1>2, <1>3, <1>5, <1>6, <1>7, <1>8, Zenon DEF List!Look

\* A refusal leaves the list alone.
LEMMA RefuseImplements ==
    ASSUME LInv, NEW r, Returns(r),
           \/ r = Ret("add", Nil, Nil)
           \/ \E i \in given \cup {Nil} :
                 r = Ret("remove", i, -1) /\ (exists /\ i # Nil => ~contained[i])
           \/ ~exists /\ r \in {Ret("clean", Nil, -1), Ret("destroy", Nil, -1)}
    PROVE  List!Refuse
<1>1. /\ UNCHANGED <<ListExists, ListItems>> /\ ListRet' = r /\ ~Cleaning
  BY OnlyReturns
<1>2. List!Members = live /\ (ListExists <=> exists)
  BY <1>1, ItemsOf
<1>3. ASSUME NEW i \in given \cup {Nil}, exists /\ i # Nil => ~contained[i]
      PROVE  i \in (Items \cup {Nil}) \ live
  <2>1. given \subseteq Items /\ live \subseteq Items
    BY DEF LInv, TypeOK
  <2>2. exists \/ live = {}
    BY DEF LInv, NothingLost
  <2>3. \A j \in live : contained[j]
    BY Zenon DEF LInv, NothingLost
  <2>4. Nil \notin live
    BY <2>1, ListqAssumption
  <2>5. i \notin live
    BY <1>3, <2>2, <2>3, <2>4, Zenon
  <2> QED
    BY <2>1, <2>5
<1>4. ASSUME NEW i \in given \cup {Nil}, r = Ret("remove", i, -1),
             exists /\ i # Nil => ~contained[i]
      PROVE  \E j \in (Items \cup {Nil}) \ List!Members, v \in {-1, -2} :
                ListRet' = List!Ret("remove", j, v)
  BY <1>1, <1>2, <1>3, <1>4 DEF Ret, List!Ret
<1>5. ASSUME ~exists, r \in {Ret("clean", Nil, -1), Ret("destroy", Nil, -1)}
      PROVE  /\ ~ListExists
             /\ ListRet' \in {List!Ret("clean", Nil, -1), List!Ret("destroy", Nil, -1)}
  BY <1>1, <1>2, <1>5 DEF Ret, List!Ret
<1>6. r = Ret("add", Nil, Nil) => ListRet' = List!Ret("add", Nil, Nil)
  BY <1>1 DEF Ret, List!Ret
<1> QED
  BY <1>1, <1>4, <1>5, <1>6, Zenon DEF List!Refuse

\* A new list is empty.
LEMMA CreateImplements == ASSUME LInv, listq_create PROVE List!Create
<1>1. /\ ~Cleaning /\ ~Cleaning' /\ ~exists /\ exists' = TRUE
      /\ order' = order /\ ret' = Ret("create", Nil, 0)
  BY DEF listq_create, locals, Cleaning
<1>2. LInv'
  BY CreateKeeps
<1>3. /\ ListExists' = TRUE /\ ListRet' = List!Ret("create", Nil, 0) /\ ~ListExists
  BY <1>1, Zenon DEF ListExists, ListRet, Ret, List!Ret
<1>4. ListItems' = <<>>
  <2>1. live = {} /\ live = {order[k] : k \in DOMAIN order}
    BY <1>1 DEF LInv, NothingLost
  <2>2. DOMAIN order = {}
    BY <2>1
  <2>3. ListItems' = [k \in {} |-> <<order'[k], data'[order'[k]]>>]
    BY <1>1, <2>2 DEF ListItems
  <2> QED
    BY <2>3
<1> QED
  BY <1>3, <1>4 DEF List!Create

\* An added item comes last.
LEMMA AddImplements ==
    ASSUME LInv, NEW d \in Data \cup {Nil}, listq_add_tail(d)
    PROVE  List!Refuse \/ \E i \in Items, e \in Data : List!AddTail(i, e)
<1>1. CASE Returns(Ret("add", Nil, Nil))
  BY <1>1, RefuseImplements
<1>2. CASE ~Returns(Ret("add", Nil, Nil))
  <2>1. /\ ~Cleaning /\ ~Cleaning' /\ exists /\ exists' = exists /\ d \in Data
    BY <1>2 DEF listq_add_tail, locals, Cleaning
  <2>2. PICK i \in Items \ live :
             /\ data' = [data EXCEPT ![i] = d]
             /\ order' = Append(order, i)
             /\ ret' = Ret("add", Nil, i)
    BY <1>2 DEF listq_add_tail
  <2>3. /\ order \in Seq(Items) /\ live = {order[k] : k \in 1..Len(order)}
        /\ data \in [Items -> Data \cup {Nil}]
    BY DEF LInv, TypeOK, NothingLost
  <2>4. /\ DOMAIN ListItems = 1..Len(order) /\ Len(ListItems) = Len(order)
        /\ Len(order) \in Nat /\ ListExists /\ List!Members = live
        /\ ListItems \in Seq(Items \X (Data \cup {Nil}))
        /\ \A k \in 1..Len(order) : ListItems[k] = <<order[k], data[order[k]]>>
    BY <2>1, ItemsOf
  <2>5. /\ order' \in Seq(Items) /\ Len(order') = Len(order) + 1
        /\ DOMAIN order' = 1..Len(order) + 1 /\ order'[Len(order) + 1] = i
        /\ \A k \in 1..Len(order) : order'[k] = order[k] /\ order[k] # i /\ order[k] \in Items
    BY <2>2, <2>3, <2>4
  <2>6. ListItems' = [k \in 1..Len(order) + 1 |-> <<order'[k], data'[order'[k]]>>]
    BY <2>1, <2>5 DEF ListItems
  <2>7. ListItems' = Append(ListItems, <<i, d>>)
    <3> DEFINE b == Append(ListItems, <<i, d>>)
    <3>1. /\ DOMAIN b = 1..Len(order) + 1 /\ b[Len(order) + 1] = <<i, d>>
          /\ b = [k \in 1..Len(order) + 1 |-> b[k]]
          /\ \A k \in 1..Len(order) : b[k] = ListItems[k]
      BY <2>4
    <3>2. /\ \A k \in 1..Len(order) : data'[order'[k]] = data[order[k]]
          /\ data'[i] = d
      BY <2>2, <2>3, <2>5
    <3>3. ASSUME NEW k \in 1..Len(order) + 1 PROVE <<order'[k], data'[order'[k]]>> = b[k]
      <4>1. k \in 1..Len(order) \/ k = Len(order) + 1
        BY <2>4
      <4>2. CASE k \in 1..Len(order)
        BY <2>4, <2>5, <3>1, <3>2, <4>2
      <4>3. CASE k = Len(order) + 1
        BY <2>5, <3>1, <3>2, <4>3
      <4> QED
        BY <4>1, <4>2, <4>3
    <3> HIDE DEF b
    <3> QED
      BY <2>6, <3>1, <3>3 DEF b
  <2>8. ListExists' = ListExists /\ ListRet' = List!Ret("add", Nil, i)
    BY <2>1, <2>2, Zenon DEF ListExists, ListRet, Ret, List!Ret
  <2> QED
    <3>1. List!AddTail(i, d)
      BY <2>2, <2>4, <2>7, <2>8 DEF List!AddTail
    <3> QED
      BY <2>1, <2>2, <3>1
<1> QED
  BY <1>1, <1>2

\* removeItem() removes the item it has found.
LEMMA FoundImplements ==
    ASSUME LInv, LInv', Found, caller = "remove"
    PROVE  \E k \in DOMAIN ListItems : List!RemoveItem(k)
<1>1. /\ ~Cleaning /\ ~Cleaning' /\ exists /\ exists' = exists
      /\ pc = "find" /\ item \in Items /\ cursor = item /\ item \in live
      /\ order' = RemoveFirst(order, item) /\ ret' = Ret("remove", item, 1)
      /\ data' = [data EXCEPT ![item] = Nil]
  BY ListqAssumption DEF Found, Unlinked, LInv, RemoveReturns, Cleaning
<1>2. /\ order \in Seq(Items) /\ live = {order[k] : k \in 1..Len(order)}
      /\ data \in [Items -> Data \cup {Nil}] /\ Distinct(order)
  <2>1. TypeOK /\ Distinct(order) /\ live = {order[k] : k \in DOMAIN order}
    BY DEF LInv, NothingLost
  <2> QED
    BY <2>1 DEF TypeOK
<1>3. /\ DOMAIN ListItems = 1..Len(order) /\ Len(ListItems) = Len(order)
      /\ Len(order) \in Nat /\ ListExists
      /\ ListItems \in Seq(Items \X (Data \cup {Nil}))
      /\ \A k \in 1..Len(order) : /\ ListItems[k] = <<order[k], data[order[k]]>>
                                   /\ ListItems[k][1] = order[k]
  BY <1>1, ItemsOf
<1>4. PICK m \in 1..Len(order) : item = order[m]
  BY <1>1, <1>2
<1>5. /\ order' \in Seq(Items) /\ Len(order') = Len(order) - 1
      /\ \A k \in 1..Len(order) - 1 :
            order'[k] = IF k < m THEN order[k] ELSE order[k + 1]
  BY <1>1, <1>2, <1>4, RemoveItem1
<1>6. ListItems' = [k \in 1..Len(order) - 1 |-> <<order'[k], data'[order'[k]]>>]
  <2>1. DOMAIN order' = 1..Len(order) - 1
    BY <1>5
  <2> QED
    BY <1>1, <2>1 DEF ListItems
<1> DEFINE b == RemoveAt(ListItems, m)
<1>7. /\ b = [k \in 1..Len(order) - 1 |-> b[k]]
      /\ \A k \in 1..Len(order) - 1 :
            b[k] = IF k < m THEN ListItems[k] ELSE ListItems[k + 1]
  <2> DEFINE T == Items \X (Data \cup {Nil})
             s == ListItems
             x == SubSeq(s, 1, m - 1)
             y == SubSeq(s, m + 1, Len(s))
  <2> HIDE DEF T
  <2>1. s \in Seq(T) /\ Len(s) \in Nat /\ m \in 1..Len(s) /\ Len(s) = Len(order)
    BY <1>3 DEF T
  <2> HIDE DEF s
  <2>2. /\ x \in Seq(T) /\ Len(x) = m - 1
        /\ \A k \in 1..m - 1 : x[k] = s[k]
    BY <2>1
  <2>3. /\ y \in Seq(T) /\ Len(y) = Len(s) - m
        /\ \A k \in 1..Len(s) - m : y[k] = s[k + m]
    BY <2>1
  <2> HIDE DEF x, y
  <2>4. /\ x \o y \in Seq(T) /\ Len(x \o y) = Len(x) + Len(y)
        /\ \A k \in 1..Len(x) + Len(y) :
              (x \o y)[k] = IF k <= Len(x) THEN x[k] ELSE y[k - Len(x)]
    BY <2>2, <2>3, ConcatProperties
  <2>5. Len(x) + Len(y) = Len(s) - 1
    BY <2>1, <2>2, <2>3
  <2>6. ASSUME NEW k \in 1..Len(s) - 1, k < m PROVE (x \o y)[k] = s[k]
    BY <2>1, <2>2, <2>4, <2>5, <2>6
  <2>7. ASSUME NEW k \in 1..Len(s) - 1, ~(k < m) PROVE (x \o y)[k] = s[k + 1]
    <3>1. /\ (x \o y)[k] = y[k - (m - 1)] /\ k - (m - 1) \in 1..Len(s) - m
      BY <2>1, <2>2, <2>4, <2>5, <2>7
    <3>2. k - (m - 1) + m = k + 1
      BY <2>1
    <3> QED
      BY <2>3, <3>1, <3>2
  <2>8. x \o y = [k \in 1..Len(s) - 1 |-> (x \o y)[k]]
    <3> DEFINE z == x \o y
    <3>1. z \in Seq(T) /\ Len(z) = Len(s) - 1
      BY <2>4, <2>5
    <3> HIDE DEF z
    <3>2. z = [k \in 1..Len(s) - 1 |-> z[k]]
      BY <3>1
    <3> QED
      BY <3>2 DEF z
  <2>9. b = x \o y
    BY DEF RemoveAt, x, y, s
  <2> QED
    BY <2>1, <2>6, <2>7, <2>8, <2>9 DEF s
<1> HIDE DEF b
<1>8. ASSUME NEW k \in 1..Len(order) - 1 PROVE <<order'[k], data'[order'[k]]>> = b[k]
  <2> DEFINE j == IF k < m THEN k ELSE k + 1
  <2>1. j \in 1..Len(order) /\ j # m /\ order'[k] = order[j] /\ b[k] = ListItems[j]
    BY <1>3, <1>5, <1>7
  <2> HIDE DEF j
  <2>2. order[j] # item /\ order[j] \in Items
    BY <1>2, <1>4, <2>1 DEF Distinct
  <2>3. data'[order[j]] = data[order[j]]
    BY <1>1, <1>2, <2>2
  <2> QED
    BY <1>3, <2>1, <2>3
<1>9. ListItems' = List!RemoveAt(ListItems, m)
  BY <1>6, <1>7, <1>8 DEF b, RemoveAt, List!RemoveAt
<1>10. /\ ListExists' = ListExists /\ ListRet' = List!Ret("remove", ListItems[m][1], 1)
  <2>1. ListItems[m][1] = item
    BY <1>3, <1>4
  <2> QED
    BY <1>1, <2>1, Zenon DEF ListExists, ListRet, Ret, List!Ret
<1> QED
  BY <1>3, <1>4, <1>9, <1>10 DEF List!RemoveItem

\* removeItem() finds no item only when the list has none of that address: the
\* search ends at the end of a list of one item at most, which is not the one.
LEMMA NotFoundImplements ==
    ASSUME LInv, FindInv, NotFound, caller = "remove"
    PROVE  List!Refuse
<1>1. /\ ~Cleaning /\ ~Cleaning' /\ exists /\ exists' = exists
      /\ order' = order /\ data' = data /\ ret' = Ret("remove", item, -2)
      /\ item \in Items
  BY DEF NotFound, LInv, RemoveReturns, Cleaning, memory
<1>2. /\ UNCHANGED <<ListExists, ListItems>> /\ ListRet' = Ret("remove", item, -2)
  BY <1>1, Zenon DEF ListExists, ListItems, ListRet
<1>3. List!Members = live
  BY <1>1, ItemsOf
<1>4. item \notin live
  <2>1. /\ Linked(next, prev, order) /\ Distinct(order)
        /\ live = {order[k] : k \in DOMAIN order}
    BY <1>1 DEF LInv, NothingLost
  <2>2. order \in Seq(Items) /\ Len(order) \in Nat /\ DOMAIN order = 1..Len(order)
    BY DEF LInv, TypeOK
  <2>3. \/ next[End] = End
        \/ next[next[End]] = End /\ item # next[End]
    BY DEF FindInv, NotFound
  <2>4. next[End] = Place(order, 1)
    <3>1. 0 \in 0..Len(order) /\ Place(order, 0) = End /\ 0 + 1 = 1
      BY <2>2 DEF Place
    <3> QED
      BY <2>1, <3>1 DEF Linked
  <2>5. CASE Len(order) = 0
    BY <2>1, <2>2, <2>5
  <2>6. CASE Len(order) = 1
    <3>1. Place(order, 1) = order[1] /\ order[1] # End
      BY <2>1, <2>2, <2>6, PlacesDiffer
    <3>2. item # order[1]
      BY <2>3, <2>4, <3>1
    <3>3. live = {order[1]}
      BY <2>1, <2>2, <2>6
    <3> QED
      BY <3>2, <3>3
  <2>7. CASE Len(order) >= 2
    <3>1. 1 \in 1..Len(order) /\ 2 \in 1..Len(order) /\ 1 \in 0..Len(order) /\ 1 + 1 = 2
      BY <2>2, <2>7
    <3>2. /\ Place(order, 1) = order[1] /\ order[1] # End
          /\ Place(order, 2) = order[2] /\ order[2] # End
      BY <2>1, <2>2, <3>1, PlacesDiffer
    <3>3. next[order[1]] = order[2]
      BY <2>1, <3>1, <3>2 DEF Linked
    <3> QED
      BY <2>3, <2>4, <3>2, <3>3
  <2> QED
    BY <2>2, <2>5, <2>6, <2>7
<1>5. \E j \in (Items \cup {Nil}) \ List!Members, v \in {-1, -2} :
         ListRet' = List!Ret("remove", j, v)
  BY <1>1, <1>2, <1>3, <1>4 DEF Ret, List!Ret
<1> QED
  BY <1>2, <1>5, Zenon DEF List!Refuse

\* What clean and destroy do is done when they begin; of no list they refuse.
LEMMA CleanImplements ==
    ASSUME LInv, NEW o \in {"clean", "destroy"}, listq_clean(o)
    PROVE  List!Refuse \/ List!Clean \/ List!Destroy
<1>1. CASE ~exists
  <2>1. Returns(Ret(o, Nil, -1))
    BY <1>1 DEF listq_clean
  <2> QED
    BY <1>1, <2>1, RefuseImplements
<1>2. CASE exists
  <2>1. ~Cleaning /\ Cleaning' /\ caller' = o /\ exists'
    BY <1>2, Zenon DEF listq_clean, Cleaning, memory
  <2>2. ListExists /\ ListItems' = <<>>
    BY <1>2, <2>1, Zenon DEF ListExists, ListItems
  <2>3. ListRet' = List!Ret(o, Nil, 0)
    BY <2>1, Zenon DEF ListRet, Ret, List!Ret
  <2>4. CASE o = "clean"
    <3>1. ListExists' = ListExists
      <4>1. ListExists'
        BY <2>1, <2>4 DEF ListExists
      <4> QED
        BY <2>2, <4>1 DEF ListExists
    <3> QED
      BY <2>2, <2>3, <2>4, <3>1 DEF List!Clean
  <2>5. CASE o = "destroy"
    <3>1. ListExists' = FALSE
      BY <2>1, <2>5, Zenon DEF ListExists
    <3> QED
      BY <2>2, <2>3, <2>5, <3>1 DEF List!Destroy
  <2> QED
    BY <2>4, <2>5
<1> QED
  BY <1>1, <1>2

\* The list is empty when the loop of clean ends, and what it shows then is what
\* it has shown since the loop began.
LEMMA CleanDoneStutters ==
    ASSUME LInv, FindInv, CleanDone
    PROVE  UNCHANGED <<ListExists, ListItems, ListRet>>
<1>1. /\ Cleaning /\ ~Cleaning' /\ exists /\ exists' = (caller # "destroy")
      /\ order' = order /\ ret' = Ret(caller, Nil, 0)
  BY Zenon DEF CleanDone, LInv, FindInv, Cleaning
<1>2. order = <<>>
  <2>1. /\ Linked(next, prev, order) /\ Distinct(order) /\ order \in Seq(Items)
        /\ Len(order) \in Nat
    BY <1>1 DEF LInv, TypeOK
  <2>2. next[End] = Place(order, 1)
    <3>1. 0 \in 0..Len(order) /\ Place(order, 0) = End /\ 0 + 1 = 1
      BY <2>1 DEF Place
    <3> QED
      BY <2>1, <3>1 DEF Linked
  <2>3. ASSUME Len(order) # 0 PROVE FALSE
    <3>1. 1 \in 1..Len(order)
      BY <2>1, <2>3
    <3>2. Place(order, 1) # End
      BY <2>1, <3>1, PlacesDiffer
    <3> QED
      BY <2>2, <3>2 DEF CleanDone
  <2> QED
    BY <2>1, <2>3
<1>3. ListItems = <<>> /\ ListItems' = <<>>
  <2>1. ListItems = <<>>
    BY <1>1, Zenon DEF ListItems
  <2>2. ListItems' = [k \in DOMAIN order' |-> <<order'[k], data'[order'[k]]>>]
    BY <1>1, Zenon DEF ListItems
  <2>3. DOMAIN order' = {}
    BY <1>1, <1>2
  <2> QED
    BY <2>1, <2>2, <2>3
<1>4. ListRet' = ListRet
  BY <1>1, Zenon DEF ListRet
<1>5. ListExists' = ListExists
  BY <1>1 DEF ListExists
<1> QED
  BY <1>3, <1>4, <1>5

\* The steps of an operation that the ordered list does in one.
LEMMA Stutters ==
    ASSUME LInv, FindInv,
           \/ UNCHANGED vars
           \/ \E i \in given \cup {Nil} : listq_removeItem(i) /\ pc' = "find"
           \/ listq_FindItem
           \/ CleanFirst
           \/ (NotFound \/ Found) /\ caller # "remove"
    PROVE  UNCHANGED <<ListExists, ListItems, ListRet>>
<1>1. CASE UNCHANGED vars
  BY <1>1, Zenon DEF vars, memory, locals, ListExists, ListItems, ListRet, Cleaning
<1>2. CASE \E i \in given \cup {Nil} : listq_removeItem(i) /\ pc' = "find"
  <2>1. /\ ~Cleaning /\ ~Cleaning'
        /\ UNCHANGED <<exists, order, data, ret>>
    BY <1>2 DEF listq_removeItem, StartFind, Returns, locals, memory, Cleaning
  <2> QED
    BY <2>1, Zenon DEF ListExists, ListItems, ListRet
<1>3. CASE listq_FindItem
  BY <1>3, Zenon DEF listq_FindItem, memory, ListExists, ListItems, ListRet, Cleaning
<1>4. CASE CleanFirst \/ ((NotFound \/ Found) /\ caller # "remove")
  <2>1. Cleaning /\ Cleaning' /\ caller' = caller /\ exists' = exists
    <3>1. CASE CleanFirst
      BY <3>1 DEF CleanFirst, StartFind, FindInv, memory, Cleaning
    <3>2. CASE NotFound /\ caller # "remove"
      BY <3>2 DEF NotFound, RemoveReturns, memory, Cleaning
    <3>3. CASE Found /\ caller # "remove"
      BY <3>3 DEF Found, RemoveReturns, Cleaning
    <3> QED
      BY <1>4, <3>1, <3>2, <3>3
  <2> QED
    BY <2>1, Zenon DEF ListExists, ListItems, ListRet
<1> QED
  BY <1>1, <1>2, <1>3, <1>4

\* The list begins as the ordered list does: there is none.
LEMMA InitImplements == Init => List!Init
<1> SUFFICES ASSUME Init PROVE List!Init
  OBVIOUS
<1>1. ~Cleaning /\ exists = FALSE /\ order = <<>> /\ ret = Ret("none", Nil, Nil)
  BY DEF Init, Cleaning
<1>2. ListItems = <<>>
  <2>1. DOMAIN order = {}
    BY <1>1
  <2>2. ListItems = [k \in DOMAIN order |-> <<order[k], data[order[k]]>>]
    BY <1>1, Zenon DEF ListItems
  <2> QED
    BY <2>1, <2>2
<1>3. ListExists = FALSE /\ ListRet = List!Ret("none", Nil, Nil)
  BY <1>1, Zenon DEF ListExists, ListRet, Ret, List!Ret
<1> QED
  BY <1>2, <1>3 DEF List!Init

\* Every step of the list is one of the ordered list, or shows nothing.
LEMMA NextImplements ==
    ASSUME LInv, LInv', FindInv, [Next]_vars
    PROVE  [List!Next]_(List!vars)
<1>1. CASE UNCHANGED vars \/ listq_FindItem \/ CleanFirst
  BY <1>1, Stutters DEF List!vars
<1>2. CASE listq_create
  BY <1>2, CreateImplements DEF List!Next
<1>3. ASSUME NEW d \in Data \cup {Nil}, listq_add_tail(d)
      PROVE  [List!Next]_(List!vars)
  BY <1>3, AddImplements DEF List!Next
<1>4. CASE listq_size \/ listq_head \/ listq_next \/ listq_getData
  BY <1>4, LookImplements DEF List!Next
<1>5. ASSUME NEW i \in given \cup {Nil}, listq_removeItem(i)
      PROVE  [List!Next]_(List!vars)
  <2>1. CASE pc' = "find"
    BY <1>5, <2>1, Stutters DEF List!vars
  <2>2. CASE pc' # "find"
    <3>1. /\ exists /\ i # Nil => ~contained[i]
          /\ Returns(Ret("remove", i, -1))
      BY <1>5, <2>2, Zenon DEF listq_removeItem, StartFind
    <3>2. List!Refuse
      BY <3>1, RefuseImplements
    <3> QED
      BY <3>2 DEF List!Next
  <2> QED
    BY <2>1, <2>2
<1>6. ASSUME NEW o \in {"clean", "destroy"}, listq_clean(o)
      PROVE  [List!Next]_(List!vars)
  BY <1>6, CleanImplements DEF List!Next
<1>7. CASE NotFound
  <2>1. CASE caller = "remove"
    BY <1>7, <2>1, NotFoundImplements DEF List!Next
  <2>2. CASE caller # "remove"
    BY <1>7, <2>2, Stutters DEF List!vars
  <2> QED
    BY <2>1, <2>2
<1>8. CASE Found
  <2>1. CASE caller = "remove"
    BY <1>8, <2>1, FoundImplements DEF List!Next
  <2>2. CASE caller # "remove"
    BY <1>8, <2>2, Stutters DEF List!vars
  <2> QED
    BY <2>1, <2>2
<1>9. CASE CleanDone
  BY <1>9, CleanDoneStutters DEF List!vars
<1> QED
  BY <1>1, <1>2, <1>3, <1>4, <1>5, <1>6, <1>7, <1>8, <1>9
  DEF Next, Progress, listq_destroy

\* The search of FindItem is always where its loop can have brought it.
THEOREM FindInvCorrect == Spec => []FindInv
<1>1. Init => FindInv
  BY InitFindInv
<1>2. LInv /\ FindInv /\ [Next]_vars => FindInv'
  BY NextFindInv
<1> QED
  BY <1>1, <1>2, LInvCorrect, PTL DEF Spec

\* Every operation does to the list, and returns, what the ordered list of its
\* interface promises, for any number of items and any order of calls.
THEOREM ListImplements == Spec => ImplementsOrderedList
<1>1. LInv /\ LInv' /\ FindInv /\ [Next]_vars => [List!Next]_(List!vars)
  BY NextImplements
<1> QED
  BY <1>1, InitImplements, LInvCorrect, FindInvCorrect, PTL
  DEF Spec, ImplementsOrderedList, List!Spec

-----------------------------------------------------------------------------
(* How long a search takes.                                                  *)

\* The search has passed the two items that its loop compares.
Astray == pc = "find" /\ ~WithinReach

\* The search of clean and destroy is for the item it begins at.
CleanSearch == pc = "find" /\ caller # "remove" => cursor = item

\* The links lead from the head to the first two items, if there are so many.
LEMMA FirstTwo ==
    ASSUME LInv, exists
    PROVE  /\ Len(order) \in Nat
           /\ Len(order) = 0 => next[End] = End
           /\ Len(order) >= 1 => next[End] = order[1] /\ order[1] # End
           /\ Len(order) = 1 => next[order[1]] = End
           /\ Len(order) >= 2 => next[order[1]] = order[2] /\ order[2] # End
<1>1. Linked(next, prev, order) /\ Distinct(order) /\ order \in Seq(Items)
  BY DEF LInv, TypeOK
<1>2. Len(order) \in Nat
  BY <1>1
<1>3. next[End] = Place(order, 1)
  <2>1. 0 \in 0..Len(order) /\ Place(order, 0) = End /\ 0 + 1 = 1
    BY <1>2 DEF Place
  <2> QED
    BY <1>1, <2>1 DEF Linked
<1>4. CASE Len(order) = 0
  <2>1. Place(order, 1) = End
    BY <1>4 DEF Place
  <2> QED
    BY <1>3, <1>4, <2>1
<1>5. ASSUME Len(order) >= 1
      PROVE  Place(order, 1) = order[1] /\ order[1] # End /\ next[order[1]] = Place(order, 2)
  <2>1. 1 \in 1..Len(order) /\ 1 \in 0..Len(order) /\ 1 + 1 = 2
    BY <1>2, <1>5
  <2>2. Place(order, 1) = order[1] /\ order[1] # End
    BY <1>1, <2>1, PlacesDiffer
  <2> QED
    BY <1>1, <2>1, <2>2 DEF Linked
<1>6. ASSUME Len(order) = 1 PROVE Place(order, 2) = End
  BY <1>6 DEF Place
<1>7. ASSUME Len(order) >= 2 PROVE Place(order, 2) = order[2] /\ order[2] # End
  <2>1. 2 \in 1..Len(order)
    BY <1>2, <1>7
  <2> QED
    BY <1>1, <2>1, PlacesDiffer
<1> QED
  BY <1>2, <1>3, <1>4, <1>5, <1>6, <1>7

\* While FindItem searches, a step is one of its own.
LEMMA SearchSteps ==
    ASSUME pc = "find", [Next]_vars
    PROVE  UNCHANGED vars \/ listq_FindItem \/ NotFound \/ Found
<1>1. ~(listq_create \/ \E d \in Data \cup {Nil} : listq_add_tail(d))
  BY DEF listq_create, listq_add_tail, Returns
<1>2. ~(listq_size \/ listq_head \/ listq_next \/ listq_getData)
  BY DEF listq_size, listq_head, listq_next, listq_getData, Returns
<1>3. ~(\E i \in given \cup {Nil} : listq_removeItem(i))
  BY DEF listq_removeItem, Returns
<1>4. ~(listq_clean("clean") \/ listq_destroy)
  BY DEF listq_clean, listq_destroy, Returns
<1>5. ~(CleanFirst \/ CleanDone)
  BY DEF CleanFirst, CleanDone
<1> QED
  BY <1>1, <1>2, <1>3, <1>4, <1>5 DEF Next, Progress

\* A search for an item that is neither of the first two of a longer list compares
\* the second item again and again: removeItem() of it never returns.
LEMMA AstrayStays ==
    ASSUME LInv, FindInv, [Next]_vars, Astray
    PROVE  Astray'
<1>1. pc = "find" /\ exists /\ Len(order) \in Nat /\ Len(order) >= 2
      /\ item \notin {order[1], order[2]}
  BY FirstTwo DEF Astray, WithinReach, LInv
<1>2. next[End] = order[1] /\ next[next[End]] = order[2]
      /\ order[1] # End /\ order[2] # End
  BY <1>1, FirstTwo
<1>3. cursor \in {order[1], order[2]}
  BY <1>1, <1>2 DEF FindInv
<1>4. ~NotFound /\ ~Found
  BY <1>1, <1>2, <1>3 DEF NotFound, Found
<1>5. UNCHANGED <<pc, item, order>>
  BY <1>1, <1>4, SearchSteps DEF listq_FindItem, memory, vars, locals
<1> QED
  BY <1>5 DEF Astray, WithinReach

\* Within the reach of the loop one turn brings it to the item or to the end.
LEMMA ReachTakesOneTurn ==
    ASSUME LInv, FindInv, listq_FindItem, WithinReach
    PROVE  cursor' \in {item', End}
<1>1. /\ pc = "find" /\ exists /\ cursor \notin {item, End}
      /\ cursor' = next[next[End]] /\ item' = item
  BY DEF listq_FindItem, LInv
<1>2. item # next[End]
  BY <1>1 DEF FindInv
<1>3. Len(order) \in Nat
  BY <1>1, FirstTwo
<1>4. CASE Len(order) < 2
  <2>1. Len(order) = 0 \/ Len(order) = 1
    <3>1. \A n \in Nat : n < 2 => n = 0 \/ n = 1
      OBVIOUS
    <3> QED
      BY ONLY <1>3, <1>4, <3>1, Zenon
  <2>2. next[next[End]] = End
    BY <1>1, <2>1, FirstTwo
  <2> QED
    BY <1>1, <2>2
<1>5. CASE Len(order) >= 2
  <2>1. next[End] = order[1] /\ next[next[End]] = order[2]
    BY <1>1, <1>5, FirstTwo
  <2>2. item = order[2]
    BY <1>2, <1>3, <1>5, <2>1 DEF WithinReach
  <2> QED
    BY <1>1, <2>1, <2>2
<1> QED
  BY <1>3, <1>4, <1>5

\* The exact limit of RemovalReturns, from outside: once the item is beyond the
\* second of the list, removeItem() never ends, for any number of items.
THEOREM AstrayForEver == Spec => [](Astray => []Astray)
<1>1. LInv /\ FindInv /\ [Next]_vars /\ Astray => Astray'
  BY AstrayStays
<1> QED
  BY <1>1, LInvCorrect, FindInvCorrect, PTL DEF Spec

\* The limit from inside: for the first two items, and in a list that has fewer, a
\* search that does not end yet has its answer after one turn.
THEOREM SearchEnds ==
    Spec => [][pc = "find" /\ WithinReach
               => pc' # "find" \/ cursor' \in {item', End}]_vars
<1>1. ASSUME LInv, FindInv, [Next]_vars
      PROVE  [pc = "find" /\ WithinReach
              => pc' # "find" \/ cursor' \in {item', End}]_vars
  <2> SUFFICES ASSUME pc = "find", WithinReach, ~UNCHANGED vars
               PROVE  pc' # "find" \/ cursor' \in {item', End}
    OBVIOUS
  <2>1. listq_FindItem \/ NotFound \/ Found
    BY <1>1, SearchSteps
  <2>2. CASE NotFound \/ Found
    BY <2>2 DEF NotFound, Found, RemoveReturns
  <2> QED
    BY <1>1, <2>1, <2>2, ReachTakesOneTurn
<1> QED
  BY <1>1, LInvCorrect, FindInvCorrect, PTL DEF Spec

\* clean and destroy remove the first item each time, which the search begins at:
\* their searches need no turn of the loop.
THEOREM CleanFindsFirst == Spec => []CleanSearch
<1>1. Init => CleanSearch
  BY DEF Init, CleanSearch
<1>2. ASSUME CleanSearch, [Next]_vars PROVE CleanSearch'
  <2>1. CASE pc = "find"
    <3>1. CASE UNCHANGED vars
      BY <1>2, <3>1 DEF CleanSearch, vars, locals
    <3>2. CASE listq_FindItem
      BY <1>2, <2>1, <3>2 DEF CleanSearch, listq_FindItem
    <3>3. CASE NotFound \/ Found
      BY <3>3 DEF CleanSearch, NotFound, Found, RemoveReturns
    <3> QED
      BY <1>2, <2>1, <3>1, <3>2, <3>3, SearchSteps
  <2>2. CASE pc # "find" /\ pc' = "find"
    <3>1. CleanFirst \/ caller' = "remove"
      BY <1>2, <2>2
      DEF Next, Progress, vars, locals, memory, listq_create, listq_add_tail, listq_size,
          listq_head, listq_next, listq_getData, listq_removeItem, listq_clean,
          listq_destroy, Returns, listq_FindItem, NotFound, Found, CleanDone
    <3> QED
      BY <3>1 DEF CleanSearch, CleanFirst, StartFind
  <2> QED
    BY <2>1, <2>2 DEF CleanSearch
<1> QED
  BY <1>1, <1>2, PTL DEF Spec
=============================================================================
