------------------------------- MODULE Listq -------------------------------
(***************************************************************************)
(* libnettool's list (listq.c): a TAILQ of calloc'd items, with a counter. *)
(* A handle is the address of an item.  FindItem walks the list before an  *)
(* item is unlinked; a step of its loop is a step here, because the loop   *)
(* compares the first item, then its successor, and then that successor    *)
(* again and again.  The list belongs to one thread.                       *)
(***************************************************************************)
EXTENDS Integers, Sequences, SequencesExt

CONSTANTS
    Items,  \* addresses calloc() may return for an item
    Data,   \* what a caller may store
    Nil,    \* the null pointer, as an argument or a result
    End     \* the list head as a place, and the null pointer that ends a chain

ASSUME ListqAssumption ==
    /\ End \notin Items
    /\ Nil \notin Items \cup Data

Places == Items \cup {End}

VARIABLES
    exists,    \* there is a list
    next,      \* tqe_next of every item; next[End] is tqh_first
    prev,      \* the place tqe_prev points into; prev[End] is tqh_last
    data,      \* p_Data
    contained, \* p_Container is this list
    m_Size,    \* the counter
    live,      \* the items that are allocated
    given,     \* the addresses that callers have been given
    pc,        \* "idle", "find" (in FindItem's loop) or "loop" (of clean)
    caller,    \* the operation in progress: remove, clean or destroy
    item,      \* a_pItem of FindItem
    cursor,    \* pItem of its loop
    ret,       \* what the last operation returned
    order      \* history: the items, in the order they were added

memory == <<exists, next, prev, data, contained, m_Size, live, given, order>>
locals == <<pc, caller, item, cursor>>
vars   == <<memory, locals, ret>>

Ret(o, i, v) == [op |-> o, item |-> i, val |-> v]

Init ==
    /\ exists = FALSE
    /\ next = [p \in Places |-> End]
    /\ prev = [p \in Places |-> End]
    /\ data = [i \in Items |-> Nil]
    /\ contained = [i \in Items |-> FALSE]
    /\ m_Size = 0
    /\ live = {}
    /\ given = {}
    /\ pc = "idle"
    /\ caller = "remove"
    /\ item = Nil
    /\ cursor = End
    /\ ret = Ret("none", Nil, Nil)
    /\ order = <<>>

\* An operation that only returns a value.
Returns(r) ==
    /\ pc = "idle"
    /\ ret' = r
    /\ UNCHANGED <<memory, locals>>

-----------------------------------------------------------------------------
(* Operations of one step.                                                   *)

listq_create ==
    /\ pc = "idle"
    /\ ~exists
    /\ exists' = TRUE
    /\ next' = [next EXCEPT ![End] = End]
    /\ prev' = [prev EXCEPT ![End] = End]
    /\ m_Size' = 0
    /\ ret' = Ret("create", Nil, 0)
    /\ UNCHANGED <<data, contained, live, given, locals, order>>

\* calloc() may return any address that is free, one used before included.
listq_add_tail(d) ==
    \/ /\ ~exists \/ d = Nil
       /\ Returns(Ret("add", Nil, Nil))
    \/ /\ pc = "idle"
       /\ exists
       /\ d # Nil
       /\ \E i \in Items \ live :
             /\ next' = [next EXCEPT ![i] = End, ![prev[End]] = i]
             /\ prev' = [prev EXCEPT ![i] = prev[End], ![End] = i]
             /\ data' = [data EXCEPT ![i] = d]
             /\ contained' = [contained EXCEPT ![i] = TRUE]
             /\ live' = live \cup {i}
             /\ given' = given \cup {i}
             /\ ret' = Ret("add", Nil, i)
             /\ order' = Append(order, i)
       /\ m_Size' = m_Size + 1
       /\ UNCHANGED <<exists, locals>>

listq_size == Returns(Ret("size", Nil, IF exists THEN m_Size ELSE -1))

\* A pointer as callers see it.
Handle(p) == IF p = End THEN Nil ELSE p

\* Of the null list, listq_head() alone is not asked: it would dereference it.
listq_head == exists /\ Returns(Ret("head", Nil, Handle(next[End])))

\* Callers follow the handles of items they have not removed; null gives null.
listq_next ==
    \/ Returns(Ret("next", Nil, Nil))
    \/ \E i \in live : Returns(Ret("next", i, Handle(next[i])))

listq_getData ==
    \/ Returns(Ret("data", Nil, Nil))
    \/ \E i \in live : Returns(Ret("data", i, data[i]))

-----------------------------------------------------------------------------
(* Removal.                                                                  *)

\* FindItem begins at tqh_first.
StartFind(i) ==
    /\ pc' = "find"
    /\ item' = i
    /\ cursor' = next[End]

\* A handle may be one of a removed item: main_queue removes everything twice.
\* What p_Container then holds is decided by Found.
listq_removeItem(i) ==
    /\ pc = "idle"
    /\ \/ /\ exists /\ i # Nil => ~contained[i]
          /\ Returns(Ret("remove", i, -1))
       \/ /\ exists /\ i # Nil /\ contained[i]
          /\ StartFind(i)
          /\ caller' = "remove"
          /\ UNCHANGED <<memory, ret>>

\* removeItem returns v, to its caller or to the loop of clean.
RemoveReturns(v) ==
    /\ pc' = IF caller = "remove" THEN "idle" ELSE "loop"
    /\ ret' = IF caller = "remove" THEN Ret("remove", item, v) ELSE ret
    /\ item' = Nil
    /\ cursor' = End
    /\ UNCHANGED caller

\* Mutant: the cursor is set to tqh_first again.
FindItemStuck ==
    /\ pc = "find"
    /\ cursor \notin {item, End}
    /\ cursor' = next[End]
    /\ UNCHANGED <<memory, pc, caller, item, ret>>

\* The loop goes on from tqh_first, not from the cursor: the second item is
\* compared for ever unless it is the one, or there is none.
listq_FindItem ==
    /\ pc = "find"
    /\ cursor \notin {item, End}
    /\ cursor' = next[next[End]]
    /\ UNCHANGED <<memory, pc, caller, item, ret>>

\* Mutant: the counter goes down although nothing was found.
NotFoundCounts ==
    /\ pc = "find"
    /\ cursor = End
    /\ m_Size' = m_Size - 1
    /\ RemoveReturns(-2)
    /\ UNCHANGED <<exists, next, prev, data, contained, live, given, order>>

NotFound ==
    /\ pc = "find"
    /\ cursor = End
    /\ RemoveReturns(-2)
    /\ UNCHANGED memory

\* Mutant: the last item's removal does not move tqh_last.
UnlinkedTailKept(i) ==
    /\ next' = [next EXCEPT ![prev[i]] = next[i], ![i] = End]
    /\ prev' = IF next[i] = End THEN [prev EXCEPT ![i] = End]
               ELSE [prev EXCEPT ![next[i]] = prev[i], ![i] = End]
    /\ data' = [data EXCEPT ![i] = Nil]

\* TAILQ_REMOVE, then memset().
Unlinked(i) ==
    /\ next' = [next EXCEPT ![prev[i]] = next[i], ![i] = End]
    /\ prev' = [prev EXCEPT ![next[i]] = prev[i], ![i] = End]
    /\ data' = [data EXCEPT ![i] = Nil]

\* Mutant: m_Size is left alone.
FoundUncounted ==
    /\ pc = "find"
    /\ cursor = item
    /\ Unlinked(item)
    /\ live' = live \ {item}
    /\ order' = RemoveFirst(order, item)
    /\ RemoveReturns(1)
    /\ UNCHANGED <<exists, contained, given, m_Size>>

\* The item is unlinked and freed.  A compiler may leave out the memset() of
\* memory that is freed next, and free memory may be written by others:
\* p_Container of a freed item, the one field a stale handle is asked for, is
\* zero, foreign or still this list.
Found ==
    /\ pc = "find"
    /\ cursor = item
    /\ Unlinked(item)
    /\ live' = live \ {item}
    /\ \E b \in BOOLEAN : contained' = [contained EXCEPT ![item] = b]
    /\ m_Size' = m_Size - 1
    /\ order' = RemoveFirst(order, item)
    /\ RemoveReturns(1)
    /\ UNCHANGED <<exists, given>>

-----------------------------------------------------------------------------
(* Clean and destroy.                                                        *)

listq_clean(o) ==
    IF exists
    THEN /\ pc = "idle"
         /\ pc' = "loop"
         /\ caller' = o
         /\ UNCHANGED <<memory, item, cursor, ret>>
    ELSE Returns(Ret(o, Nil, -1))

\* The loop removes the first item until there is none.
CleanFirst ==
    /\ pc = "loop"
    /\ next[End] # End
    /\ contained[next[End]]
    /\ StartFind(next[End])
    /\ UNCHANGED <<memory, caller, ret>>

\* Mutant: destroy frees the list without having cleaned it.
CleanDoneEarly ==
    /\ pc = "loop"
    /\ next[End] = End \/ caller = "destroy"
    /\ pc' = "idle"
    /\ m_Size' = 0
    /\ ret' = Ret(caller, Nil, 0)
    /\ exists' = (caller # "destroy")
    /\ UNCHANGED <<next, prev, data, contained, live, given, order,
                   caller, item, cursor>>

\* Then the counter is reset, and destroy frees the list itself.
CleanDone ==
    /\ pc = "loop"
    /\ next[End] = End
    /\ pc' = "idle"
    /\ m_Size' = 0
    /\ ret' = Ret(caller, Nil, 0)
    /\ exists' = (caller # "destroy")
    /\ UNCHANGED <<next, prev, data, contained, live, given, order,
                   caller, item, cursor>>

listq_destroy == listq_clean("destroy")

\* The operation in progress goes on.
Progress ==
    \/ listq_FindItem
    \/ NotFound
    \/ Found
    \/ CleanFirst
    \/ CleanDone

Next ==
    \/ listq_create
    \/ \E d \in Data \cup {Nil} : listq_add_tail(d)
    \/ listq_size
    \/ listq_head
    \/ listq_next
    \/ listq_getData
    \/ \E i \in given \cup {Nil} : listq_removeItem(i)
    \/ listq_clean("clean")
    \/ listq_destroy
    \/ Progress

Spec == Init /\ [][Next]_vars

\* A thread that is inside an operation goes on with it.
FairSpec == Spec /\ WF_vars(Progress)

-----------------------------------------------------------------------------
(* Properties.                                                               *)

\* Types; the counter never drops below zero.
TypeOK ==
    /\ exists \in BOOLEAN
    /\ next \in [Places -> Places]
    /\ prev \in [Places -> Places]
    /\ data \in [Items -> Data \cup {Nil}]
    /\ contained \in [Items -> BOOLEAN]
    /\ m_Size \in Nat
    /\ live \in SUBSET Items
    /\ given \in SUBSET Items
    /\ pc \in {"idle", "find", "loop"}
    /\ caller \in {"remove", "clean", "destroy"}
    /\ item \in Items \cup {Nil}
    /\ cursor \in Places
    /\ order \in Seq(Items)

Ring == <<End>> \o order \o <<End>>

\* The links, forth and back, tie together exactly the items that were added and
\* not removed, in the order of their addition, and the head knows both ends.
LinksMatchOrder ==
    exists => \A k \in 1 .. Len(order) + 1 :
                 /\ next[Ring[k]] = Ring[k + 1]
                 /\ prev[Ring[k + 1]] = Ring[k]

\* What is allocated is what the list holds: no item is lost, listed twice or
\* still linked once it is freed, even when callers remove items twice, and a
\* list that was destroyed leaves nothing behind.
NothingLost ==
    /\ live = {order[k] : k \in DOMAIN order}
    /\ Len(order) = m_Size
    /\ \A i \in live : contained[i]
    /\ ~exists => live = {}

\* Every operation returns what an ordered list returns and does what it does to
\* one; clean and destroy, which remove item after item, do it in one step.
Cleaning == pc # "idle" /\ caller # "remove"

ListExists == exists /\ ~(Cleaning /\ caller = "destroy")
ListItems == IF Cleaning THEN <<>>
             ELSE [k \in DOMAIN order |-> <<order[k], data[order[k]]>>]
ListRet == IF Cleaning THEN Ret(caller, Nil, 0) ELSE ret

List == INSTANCE OrderedList WITH
            exists <- ListExists, items <- ListItems, ret <- ListRet

ImplementsOrderedList == List!Spec

\* FindItem returns for the first two items, and for a handle of a removed item
\* when fewer than two are left; so clean and destroy, which only remove the
\* first, always return.  (For any other handle the loop never ends.)
WithinReach ==
    \/ Len(order) < 2
    \/ item \in {order[1], order[2]}

RemovalReturns == (pc # "idle" /\ (caller = "remove" => WithinReach)) ~> pc = "idle"
=============================================================================
