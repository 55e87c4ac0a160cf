---------------------------- MODULE OrderedList ----------------------------
(***************************************************************************)
(* What libnettool's list (listq.h) promises: an ordered list of items,    *)
(* each with its data.  Every operation is one step, and ret is what it    *)
(* returned: the operation, the item it was called with and the value.     *)
(***************************************************************************)
EXTENDS Integers, Sequences, SequencesExt

CONSTANTS
    Items,  \* names an item may have
    Data,   \* what a caller may store
    Nil     \* the null pointer

VARIABLES
    exists, \* listq_create() was called, and listq_destroy() was not since
    items,  \* pairs of an item and its data, in order
    ret     \* what the last operation returned

vars == <<exists, items, ret>>

Ret(o, i, v) == [op |-> o, item |-> i, val |-> v]

Members == {items[k][1] : k \in DOMAIN items}

Init ==
    /\ exists = FALSE
    /\ items = <<>>
    /\ ret = Ret("none", Nil, Nil)

Create ==
    /\ ~exists
    /\ exists' = TRUE
    /\ items' = <<>>
    /\ ret' = Ret("create", Nil, 0)

\* The new item is none of the list's and becomes its last.
AddTail(i, d) ==
    /\ exists
    /\ i \notin Members
    /\ items' = Append(items, <<i, d>>)
    /\ ret' = Ret("add", Nil, i)
    /\ UNCHANGED exists

\* A call that only looks.
Look ==
    /\ UNCHANGED <<exists, items>>
    /\ \/ ret' = Ret("size", Nil, IF exists THEN Len(items) ELSE -1)
       \/ /\ exists
          /\ ret' = Ret("head", Nil, IF items = <<>> THEN Nil ELSE items[1][1])
       \/ ret' \in {Ret("next", Nil, Nil), Ret("data", Nil, Nil)}
       \/ \E k \in DOMAIN items :
             \/ ret' = Ret("next", items[k][1],
                           IF k = Len(items) THEN Nil ELSE items[k + 1][1])
             \/ ret' = Ret("data", items[k][1], items[k][2])

\* An item of the list is removed, and only an item of the list is.
RemoveItem(k) ==
    /\ k \in DOMAIN items
    /\ items' = RemoveAt(items, k)
    /\ ret' = Ret("remove", items[k][1], 1)
    /\ UNCHANGED exists

Refuse ==
    /\ UNCHANGED <<exists, items>>
    /\ \/ \E i \in (Items \cup {Nil}) \ Members, v \in {-1, -2} :
             ret' = Ret("remove", i, v)
       \/ ret' = Ret("add", Nil, Nil)
       \/ ~exists /\ ret' \in {Ret("clean", Nil, -1), Ret("destroy", Nil, -1)}

Clean ==
    /\ exists
    /\ items' = <<>>
    /\ ret' = Ret("clean", Nil, 0)
    /\ UNCHANGED exists

Destroy ==
    /\ exists
    /\ exists' = FALSE
    /\ items' = <<>>
    /\ ret' = Ret("destroy", Nil, 0)

Next ==
    \/ Create
    \/ \E i \in Items, d \in Data : AddTail(i, d)
    \/ Look
    \/ \E k \in DOMAIN items : RemoveItem(k)
    \/ Refuse
    \/ Clean
    \/ Destroy

Spec == Init /\ [][Next]_vars
=============================================================================
